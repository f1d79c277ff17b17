----------------------------- MODULE MathCalls -----------------------------
(***************************************************************************)
(* A caller of the maths library: one of Calls is made and its result      *)
(* looked at. A Cholesky factor is then kept up to date by rank-one        *)
(* updates and downdates, and the nonlinear solver runs step by step.      *)
(* Each result is judged by what the routine is for, never by how it       *)
(* computes.                                                               *)
(***************************************************************************)
EXTENDS Spectral, NonlinSolve, FiniteSets, FiniteSetsExt

CONSTANTS Calls,     \* records: fn and the arguments of that routine
          Roots,     \* Cholesky factors of the matrices that are positive definite
          Vectors,   \* the vectors of the rank-one updates
          MaxUpdates

ASSUME MathCallsAssumption == MaxUpdates \in Nat

\* Lower triangular with a positive diagonal.
IsCholeskyFactor(L, m) ==
  /\ \A c \in Cells(m * m) : c % m > c \div m => L[c] = Zero
  /\ \A i \in Cells(m) : Less(Zero, L[m * i + i])

\* No row of smls_mat_hankel has a negative load, which the uint16_t of delta turns
\* into a huge one, reads past the signal or writes past H.
HankelStaysInside(row_v, column_v, row_h, column_h, shift) ==
  \A i \in Cells(row_h \div row_v) :
    LET load == HankelLoad(i, row_v, column_v, column_h, shift)
    IN  /\ 0 <= load
        /\ i + shift + load <= column_v
        /\ (i * row_v + row_v - 1) * column_h + load <= row_h * column_h

\* What the routines ask of a caller: arrays of the dimensions it names, filled with
\* numbers; no more rows than the uint8_t of P, and the uint16_t of row * row in qr,
\* count; for gauss no more rows than columns, as Tikhonov says; for chol a matrix
\* that is symmetric positive definite, with a factor of fractions; for expm a
\* nilpotent matrix without negative entries and Turns for its series; for cut and
\* insert a block inside the matrix, for cat side by side two rows or more; for
\* hankel dimensions with which it stays inside its arrays.
ASSUME CallsAssumption ==
  \A c \in Calls :
    /\ c.fn \in {"linsolve_lup", "inv"} => c.n \in 1 .. 256 /\ c.A \in Vector(c.n * c.n)
    /\ c.fn \in {"linsolve_lup", "linsolve_chol", "linsolve_qr"} => c.b \in Vector(c.n)
    /\ c.fn \in {"chol", "linsolve_chol"} =>
         /\ c.n \in Nat
         /\ \E L \in Roots : /\ L \in Vector(c.n * c.n) /\ IsCholeskyFactor(L, c.n)
                             /\ c.A = MatMul(L, Transpose(L, c.n, c.n), c.n, c.n, c.n)
    /\ c.fn = "linsolve_qr" => c.n \in 1 .. 255 /\ c.A \in Vector(c.n * c.n)
    /\ c.fn = "qr" => c.row \in 1 .. 255 /\ c.column \in Nat \ {0} /\ c.A \in Vector(c.row * c.column)
    /\ c.fn = "dlyap" => c.n \in 1 .. 16 /\ c.A \in Vector(c.n * c.n) /\ c.Q \in Vector(c.n * c.n)
    /\ c.fn = "svd" => c.n \in Nat \ {0} /\ c.A \in Vector(c.n * c.n)
    /\ c.fn = "sort" =>
         /\ c.n \in Nat \ {0} /\ c.row \in Nat /\ c.S \in Vector(c.n)
         /\ c.U \in [Cells(c.row * c.n) -> Fraction] /\ c.V \in [Cells(c.n * c.n) -> Fraction]
    /\ c.fn = "expm" =>
         /\ c.n \in Nat \ {0} /\ c.A \in Vector(c.n * c.n) /\ Turns >= 3
         /\ \A k \in Cells(c.n * c.n) : LessEq(Zero, c.A[k])
         /\ MatMul(c.A, MatMul(c.A, c.A, c.n, c.n, c.n), c.n, c.n, c.n) = Filled(c.n * c.n, Zero)
    /\ c.fn = "linsolve_gauss" =>
         /\ c.row \in Nat \ {0} /\ c.column \in Nat /\ c.row <= c.column
         /\ c.A \in Vector(c.row * c.column) /\ c.b \in Vector(c.row) /\ c.alpha \in Number
    /\ c.fn \in {"blocks", "hankel"} =>
         c.row \in Nat \ {0} /\ c.column \in Nat \ {0} /\ c.A \in [Cells(c.row * c.column) -> Fraction]
    /\ c.fn = "blocks" =>
         /\ c.row >= 2
         /\ c.i \in Nat /\ c.row_b \in Nat /\ c.i + c.row_b <= c.row
         /\ c.j \in Nat /\ c.column_b \in Nat /\ c.j + c.column_b <= c.column
    /\ c.fn = "hankel" =>
         /\ c.row_h \in Nat /\ c.row_h % c.row = 0 /\ c.column_h \in Nat /\ c.shift \in Nat
         /\ HankelStaysInside(c.row, c.column, c.row_h, c.column_h, c.shift)

ASSUME VectorsAssumption == \A x \in Vectors : x \in [DOMAIN x -> Number]

VARIABLES call, returned, result, updates,
          sum        \* ghost: the matrix the Cholesky factor stands for

callVars == <<call, returned, result, updates, sum>>
vars == <<callVars, solverVars>>

A == call.A
n == call.n

\* call.fn returns value.
Returns(fn, value) ==
  /\ ~returned /\ call.fn = fn
  /\ returned' = TRUE /\ result' = value
  /\ UNCHANGED <<call, updates, sum, solverVars>>

CallLinsolveLup == Returns("linsolve_lup", LinsolveLup(A, call.b, n))
CallInv == Returns("inv", Inv(A, n))
CallDet == Returns("det", Det(A, n))
CallGauss == Returns("linsolve_gauss", [x |-> LinsolveGauss(A, call.b, call.row, call.column, call.alpha)])
CallCholSolve == Returns("linsolve_chol", [x |-> LinsolveChol(A, call.b, n)])
CallQrSolve == Returns("linsolve_qr", [x |-> LinsolveQr(A, call.b, n, n)])
CallQr == Returns("qr", Qr(A, call.row, call.column))
CallDlyap == Returns("dlyap", Dlyap(A, call.Q, n))
CallBalance == Returns("balance", Balance(A, n))
CallPrepare == Returns("prepare", Prepare(A, n))
CallEig == Returns("eig", Eig(A, n))
CallSvd == Returns("svd", SvdJacobi(A, n))
CallPinv == Returns("pinv", Pinv(A, n))
CallSort == Returns("sort", SortByDecreasing(call.S, call.U, call.V, n))
CallExpm == Returns("expm", Expm(A, n))
CallHankel == Returns("hankel", Hankel(A, call.row, call.column, call.row_h, call.column_h, call.shift))

\* A block leaves A and comes back into a matrix of zeros; A is taken apart and put
\* together again, and turned.
Moved ==
  LET block == Cut(A, call.column, call.i, call.j, call.row_b, call.column_b)
      part(from, columns) == Cut(A, call.column, 0, from, call.row, columns)
      rows(from, count) == Cut(A, call.column, from, 0, count, call.column)
  IN  [placed |-> Insert(Filled(call.row * call.column, Zero), block, call.row_b, call.column_b,
                         call.column, call.i, call.j),
       stacked |-> CatVertical(rows(0, 1), rows(1, call.row - 1), 1, call.row - 1, call.column),
       joined |-> CatHorizontal(part(0, 1), part(1, call.column - 1), call.row, 1, call.column - 1),
       turned |-> Transpose(A, call.row, call.column)]

CallBlocks == Returns("blocks", Moved)

CallChol ==
  /\ ~returned /\ call.fn = "chol"
  /\ returned' = TRUE /\ result' = [stop |-> FALSE, L |-> Chol(A, n)] /\ sum' = A
  /\ UNCHANGED <<call, updates, solverVars>>

\* x * x'
Outer(x) == MatMul(x, x, n, 1, n)

CallCholUpdate(x, rank_one_update) ==
  /\ returned /\ call.fn = "chol" /\ updates < MaxUpdates /\ ~result.stop
  /\ DOMAIN x = Cells(n)
  /\ LET s == CholUpdate(result.L, x, n, rank_one_update)
     IN  /\ MadeOfNumbers(s.L)   \* roots of squares only
         /\ result' = [stop |-> s.stop, L |-> s.L]
         /\ sum' = MatAdd(sum, Scaled(Outer(x), IF rank_one_update THEN One ELSE Neg(One)))
  /\ updates' = updates + 1
  /\ UNCHANGED <<call, returned, solverVars>>

Init ==
  /\ call \in Calls /\ returned = FALSE /\ result = Zero /\ updates = 0 /\ sum = Zero
  /\ IF call.fn = "nonlinsolve" THEN SolverInit
     ELSE /\ phase = "done" /\ iteration = 0 /\ break_count = 0 /\ gradient_index = 0 /\ point = 0
          /\ best_x = 0 /\ best_sqrt_sum_dx = FltMax /\ past_sqrt_sum_dx = 0 /\ met = <<>>

Next ==
  \/ CallLinsolveLup \/ CallInv \/ CallDet \/ CallGauss \/ CallCholSolve \/ CallQrSolve \/ CallQr
  \/ CallDlyap \/ CallBalance \/ CallPrepare \/ CallEig \/ CallSvd \/ CallPinv \/ CallSort \/ CallExpm
  \/ CallHankel \/ CallBlocks \/ CallChol
  \/ \E x \in Vectors, up \in BOOLEAN : CallCholUpdate(x, up)
  \/ SolverNext /\ UNCHANGED callVars

Spec == Init /\ [][Next]_vars

-----------------------------------------------------------------------------

Answered(fn) == returned /\ call.fn = fn

Bijections(m) == {p \in [Cells(m) -> Cells(m)] : \A i, j \in Cells(m) : p[i] = p[j] => i = j}

\* (-1) ^ the number of pairs in the wrong order
Parity(p) ==
  LET wrong == {ij \in (DOMAIN p) \X (DOMAIN p) : ij[1] < ij[2] /\ p[ij[1]] > p[ij[2]]}
  IN  IF Cardinality(wrong) % 2 = 0 THEN One ELSE Neg(One)

\* The sum of Leibniz over the rows and columns in dims.
Leibniz(M, m, dims) ==
  LET term(p) == FoldSet(LAMBDA i, t : Mul(t, M[m * i + p[i]]), Parity(p), dims)
      perms == {p \in [dims -> dims] : \A i, j \in dims : p[i] = p[j] => i = j}
  IN  FoldSet(LAMBDA p, t : Add(t, term(p)), Zero, perms)

Regular(M, m) == Leibniz(M, m, Cells(m)) # Zero

\* The coefficient of the characteristic polynomial that sums the minors of size k.
Minors(M, m, k) ==
  FoldSet(LAMBDA dims, t : Add(t, Leibniz(M, m, dims)), Zero, {dims \in SUBSET Cells(m) : Cardinality(dims) = k})

SamePolynomial(M, N, m) == \A k \in 1 .. m : Minors(M, m, k) = Minors(N, m, k)

\* Without the multipliers prepare leaves under the subdiagonal.
Hessenberg(M, m) == [c \in DOMAIN M |-> IF c \div m > (c % m) + 1 THEN Zero ELSE M[c]]

\* What a solver returns satisfies the system it was given, wherever it is made of
\* numbers: lup with row exchanges, gauss also in its regularized form, chol, qr,
\* and dlyap for the discrete Lyapunov equation A P A' - P + Q = 0.
SolversSolve ==
  LET solves(M, b, m) == MadeOfNumbers(result.x) => MatMul(M, result.x, m, m, 1) = b
  IN  /\ Answered("linsolve_lup") /\ result.ok => solves(A, call.b, n)
      /\ Answered("linsolve_gauss") =>
           LET t == Tikhonov(A, call.b, call.row, call.column, call.alpha)
           IN  IF LessEq(call.alpha, Zero) /\ call.row = call.column THEN solves(A, call.b, call.row)
               ELSE solves(t.A, t.b, call.column)
      /\ Answered("linsolve_chol") \/ Answered("linsolve_qr") => solves(A, call.b, n)
      /\ Answered("dlyap") =>
           LET image == MatMul(MatMul(A, result.x, n, n, n), Transpose(A, n, n), n, n, n)
           IN  result.ok /\ MadeOfNumbers(result.x) => MatAdd(image, call.Q) = result.x

\* Numbers come out wherever the problem has an answer: of lup and inv exactly for
\* regular matrices, of gauss where the leading minors are not zero and always in
\* its regularized form, of qr for matrices of full column rank, of the singular
\* value decomposition for matrices with columns that are not orthogonal and equally
\* long; and the pseudo inverse of such a matrix is its inverse. A downdate of a
\* Cholesky factor stops only where the matrix is not positive definite any more.
AnswersWhereItCan ==
  /\ Answered("linsolve_lup") /\ Regular(A, n) => result.ok /\ MadeOfNumbers(result.x)
  /\ Answered("inv") => (result.ok <=> Regular(A, n))
  /\ Answered("linsolve_gauss") =>
       LET leading == \A k \in 1 .. call.row : Leibniz(A, call.column, 0 .. k - 1) # Zero
       IN  Less(Zero, call.alpha) \/ leading => MadeOfNumbers(result.x)
  /\ Answered("linsolve_chol") \/ Answered("linsolve_qr") => MadeOfNumbers(result.x)
  /\ Answered("qr") => result.ok /\ MadeOfNumbers(result.R)
  /\ Answered("svd") => MadeOfNumbers(result.U)
  /\ Answered("pinv") => MatMul(A, result, n, n, n) = Identity(n)
  /\ Answered("chol") /\ result.stop => \E k \in 1 .. n : LessEq(Leibniz(sum, n, 0 .. k - 1), Zero)

\* What smls_mat_inv returns with success is the inverse; it leaves its output alone
\* otherwise.
InverseInverts ==
  Answered("inv") =>
    IF result.ok THEN MatMul(A, result.Ai, n, n, n) = Identity(n) ELSE result.Ai = A

\* After every sequence of updates and downdates the factor that was updated in
\* place is still lower triangular with a positive diagonal, and the factor of the
\* matrix plus and minus the outer products, unless a downdate stopped.
FactorFollowsUpdates ==
  Answered("chol") /\ ~result.stop =>
    /\ IsCholeskyFactor(result.L, n)
    /\ MatMul(result.L, Transpose(result.L, n, n), n, n, n) = sum

\* A = Q R with Q orthogonal and R zero under its diagonal, wherever R is made of
\* numbers.
QrFactors ==
  Answered("qr") /\ MadeOfNumbers(result.R) =>
    /\ result.ok
    /\ MatMul(result.Q, Transpose(result.Q, call.row, call.row), call.row, call.row, call.row) = Identity(call.row)
    /\ \A c \in DOMAIN result.R : c \div call.column > c % call.column => result.R[c] = Zero
    /\ MatMul(result.Q, result.R, call.row, call.row, call.column) = A

\* smls_mat_det of up to three rows is the determinant, with its sign (of more,
\* DetIsDeterminant). Balancing and the reduction to Hessenberg form keep every
\* coefficient of the characteristic polynomial, and the eigenvalues smls_mat_eig
\* splits off are its roots: those of two and three rows by their symmetric
\* functions.
SpectrumKept ==
  /\ Answered("det") /\ n <= 3 => result = Leibniz(A, n, Cells(n))
  /\ Answered("balance") => SamePolynomial(result, A, n)
  /\ Answered("prepare") => SamePolynomial(Hessenberg(result, n), A, n)
  /\ Answered("eig") /\ (\A i \in Cells(n) : IsNumber(result.wr[i]) /\ IsNumber(result.wi[i])) =>
       LET re(i) == result.wr[i]
           im(i) == result.wi[i]
           pair(i, j) == Sub(Mul(re(i), re(j)), Mul(im(i), im(j)))
           pairs == {ij \in Cells(n) \X Cells(n) : ij[1] < ij[2]}
       IN  /\ SumOver(0, n - 1, LAMBDA i : re(i)) = Minors(A, n, 1)
           /\ SumOver(0, n - 1, LAMBDA i : im(i)) = Zero
           /\ FoldSet(LAMBDA ij, t : Add(t, pair(ij[1], ij[2])), Zero, pairs) = Minors(A, n, 2)

\* "determinant of A" (smls_linalg.h): smls_mat_det has the determinant's sign
\* whatever rows lup exchanged.
DetIsDeterminant == Answered("det") => result = Leibniz(A, n, Cells(n))

\* A = U S V' with decreasing values, wherever U is made of numbers; a sort moves
\* every value with its columns of U and V.
ColumnsFollowValues ==
  /\ Answered("svd") /\ MadeOfNumbers(result.U) =>
       LET US == [c \in DOMAIN result.U |-> Mul(result.U[c], result.S[c % n])]
       IN  /\ \A j \in 1 .. n - 1 : LessEq(result.S[j], result.S[j - 1])
           /\ MatMul(US, Transpose(result.V, n, n), n, n, n) = A
  /\ Answered("sort") =>
       /\ \A j \in 1 .. n - 1 : LessEq(result.S[j], result.S[j - 1])
       /\ \E p \in Bijections(n) : \A j \in Cells(n) :
            /\ result.S[j] = call.S[p[j]]
            /\ \A c \in DOMAIN result.U : c % n = j => result.U[c] = call.U[c - j + p[j]]
            /\ \A c \in DOMAIN result.V : c % n = j => result.V[c] = call.V[c - j + p[j]]

\* A block that is cut out and inserted again is where it was, and nothing else is;
\* a transpose turns every cell; parts stacked are the whole, and of parts put side
\* by side the first two rows are. Left out: later rows of parts side by side, which
\* cat never writes, though smls_misc.h says C = [A, B].
\* A Hankel matrix at least as wide as the signal has row_v rows of the signal for
\* every shift, padded with zeros behind its end. Left out: narrower ones, where
\* smls_mat_hankel cuts the rows short (of 1 2 3 it makes 1 0 and 2 0).
BlocksMove ==
  /\ Answered("blocks") =>
       /\ \A c \in DOMAIN A :
            LET i == c \div call.column
                j == c % call.column
                inside == i \in call.i .. call.i + call.row_b - 1 /\ j \in call.j .. call.j + call.column_b - 1
            IN  /\ result.placed[c] = IF inside THEN A[c] ELSE Zero
                /\ result.turned[j * call.row + i] = A[c]
                /\ i < 2 => result.joined[c] = A[c]
       /\ result.stacked = A
  /\ Answered("hankel") /\ call.column_h >= call.column =>
       \A c \in DOMAIN result :
         LET block == (c \div call.column_h) \div call.row
             series == (c \div call.column_h) % call.row
             time == (c % call.column_h) + block + call.shift
         IN  result[c] = IF time < call.column THEN A[series * call.column + time] ELSE Zero

\* The exponential of a nilpotent matrix without negative entries is its series.
ExponentialIsSeries ==
  Answered("expm") =>
    LET square == MatMul(A, A, n, n, n)
    IN  result = MatAdd(MatAdd(Identity(n), A), Scaled(square, <<1, 2>>))

=============================================================================
