------------------------------- MODULE Matrix -------------------------------
(***************************************************************************)
(* Matrices as the maths library stores them: arrays from 0, row after     *)
(* row, their dimensions passed beside them. What moves and combines       *)
(* elements, from smls_math/math_core/linalg and misc. Storage nobody has  *)
(* written yet holds Unset.                                                *)
(***************************************************************************)
EXTENDS Rational

Unset == <<1, 0>>

Cells(n) == 0 .. n - 1
Vector(n) == [Cells(n) -> Number]
MadeOfNumbers(v) == \A c \in DOMAIN v : IsNumber(v[c])
Filled(n, v) == [c \in Cells(n) |-> v]
Identity(n) == [c \in Cells(n * n) |-> IF c \div n = c % n THEN One ELSE Zero]
Scaled(A, q) == [c \in DOMAIN A |-> Mul(q, A[c])]

\* memcpy(dst + to, src + from, len)
Copied(dst, to, src, from, len) ==
  [c \in DOMAIN dst |-> IF to <= c /\ c < to + len THEN src[from + c - to] ELSE dst[c]]

\* smls_mat_add
MatAdd(A, B) == [c \in DOMAIN A |-> Add(A[c], B[c])]

\* smls_mat_mul, of dimensions that fit
MatMul(A, B, row_a, column_a, column_b) ==
  [c \in Cells(row_a * column_b) |->
     SumOver(0, column_a - 1, LAMBDA k :
       Mul(A[(c \div column_b) * column_a + k], B[(c % column_b) + k * column_b]))]

\* smls_mat_transpose: element j of row i goes to B[i + j * row].
Transpose(A, row, column) ==
  [c \in Cells(row * column) |-> A[(c % row) * column + (c \div row)]]

\* smls_mat_norm with l = 1: the first row is taken without its absolute value.
Norm1(A, row, column) ==
  IF row = 1
  THEN SumOver(0, column - 1, LAMBDA i : Absolute(A[i]))
  ELSE LET total(j) == For(1, row - 1, LAMBDA s, i : Add(s, Absolute(A[i * column + j])), A[j])
       IN  For(1, column - 1, LAMBDA best, j : IF Less(best, total(j)) THEN total(j) ELSE best,
               total(0))

\* The scan for the largest from lo on: the first of them, and whatever compares
\* as not larger (a NaN) is passed over.
FirstLargest(lo, hi, size(_)) ==
  For(lo + 1, hi, LAMBDA best, j : IF Less(size(best), size(j)) THEN j ELSE best, lo)

-----------------------------------------------------------------------------

\* One memcpy of len elements for every row; both pointers then move on, by the
\* width of their matrix.
RowsCopied(dst, to, to_width, src, from, from_width, rows, len) ==
  For(0, rows - 1,
      LAMBDA B, i : Copied(B, to + i * to_width, src, from + i * from_width, len),
      dst)

\* cut
Cut(A, column, start_row, start_column, row_b, column_b) ==
  RowsCopied(Filled(row_b * column_b, Unset), 0, column_b,
             A, start_row * column + start_column, column, row_b, column_b)

\* insert
Insert(B, A, row_a, column_a, column_b, startRow_b, startColumn_b) ==
  RowsCopied(B, startRow_b * column_b + startColumn_b, column_b, A, 0, column_a, row_a, column_a)

\* cat with vertical = 1: C = [A; B]
CatVertical(A, B, row_a, row_b, column) ==
  Copied(Copied(Filled((row_a + row_b) * column, Unset), 0, A, 0, row_a * column),
         row_a * column, B, 0, row_b * column)

\* cat otherwise: C = [A, B], whose first two rows the four memcpys fill. With one
\* row the last two leave the arrays: a caller must have two rows or more.
CatHorizontal(A, B, row, column_a, column_b) ==
  LET width == column_a + column_b
      row0 == Copied(Copied(Filled(row * width, Unset), 0, A, 0, column_a), column_a, B, 0, column_b)
  IN  Copied(Copied(row0, width, A, column_a, column_a), width + column_a, B, column_b, column_b)

\* How many elements of row i smls_mat_hankel loads.
HankelLoad(i, row_v, column_v, column_h, shift) ==
  LET delta == IF column_v > column_h + i THEN column_v - column_h ELSE column_h - i
  IN  IF (row_v - 1) * column_v + i + shift + delta > row_v * column_v THEN delta - 1 ELSE delta

\* Faulty variant: block rows overlap, i steps by one row.
HankelOverlapping(V, row_v, column_v, row_h, column_h, shift) ==
  For(0, row_h \div row_v - 1,
      LAMBDA H, i : RowsCopied(H, i * column_h, column_h, V, i + shift, column_v,
                               row_v, HankelLoad(i, row_v, column_v, column_h, shift)),
      Filled(row_h * column_h, Zero))

\* smls_mat_hankel, where row_v divides row_h.
Hankel(V, row_v, column_v, row_h, column_h, shift) ==
  For(0, row_h \div row_v - 1,
      LAMBDA H, i : RowsCopied(H, i * row_v * column_h, column_h, V, i + shift, column_v,
                               row_v, HankelLoad(i, row_v, column_v, column_h, shift)),
      Filled(row_h * column_h, Zero))

=============================================================================
