---------------------------- MODULE MCMathCalls ----------------------------
(* The calls of the small instance, by family. *)
EXTENDS MathCalls, TLC

\* A matrix from a sequence of integers.
Ints(s) == [c \in Cells(Len(s)) |-> Whole(s[c + 1])]
Fractions(s, d) == [c \in Cells(Len(s)) |-> Quotient(s[c + 1], d)]

Rows == {<<0, 0, 1>>, <<0, 1, 2>>, <<1, 0, -1>>, <<2, 1, 0>>, <<1, 1, 1>>, <<-2, 1, 3>>, <<0, 2, 4>>, <<1, 0, 0>>}
Square3 == {Ints(r \o s \o t) : r, s, t \in Rows}
Square2 == {Ints(s) : s \in [1 .. 4 -> {-1, 0, 1, 2}]}
Permuted4 == {[c \in Cells(16) |-> IF p[c \div 4] = c % 4 THEN Whole(1 + (c \div 4)) ELSE IF c = 12 THEN One ELSE Zero] :
                p \in Bijections(4)}

On(fn, family, size, more) == {[fn |-> fn, A |-> M, n |-> size] @@ more : M \in family}

\* An orthogonal matrix, turned in the plane of columns i and j by the angle 3, 4, 5.
Plane(m, i, j) ==
  [c \in Cells(m * m) |->
     LET r == c \div m
         k == c % m
     IN  IF r = k THEN IF r \in {i, j} THEN <<4, 5>> ELSE One
         ELSE IF r = i /\ k = j THEN <<-3, 5>> ELSE IF r = j /\ k = i THEN <<3, 5>> ELSE Zero]
Turns3 == {Identity(3), Plane(3, 0, 1), Plane(3, 0, 2), Plane(3, 1, 2)}
Diagonal3 == {Ints(<<p[0], 0, 0, 0, p[1], 0, 0, 0, p[2]>>) : p \in {[i \in 0 .. 2 |-> q[i] + 1] : q \in Bijections(3)}}

Lower3 == {Ints(<<a, 0, 0, b, c, 0, d, b, a>>) : a \in {1, 2}, b \in {-1, 0, 2}, c \in {1, 3}, d \in {0, 1}}
Updated3 == {Ints(<<3, 0, 0, -3, 5, 0, 0, 3, 4>>), Ints(<<3, 0, 0, 0, 5, 0, 0, 5, 1>>)}
Lower2 == {Ints(<<3, 0, b, c>>) : b \in {-1, 0, 2}, c \in {1, 4}}
Squared(Lower, m) == {MatMul(L, Transpose(L, m, m), m, m, m) : L \in Lower}
MCRoots == Lower3 \cup Updated3 \cup Lower2
Upper3 == {Ints(<<a, b, c, 0, d, b, 0, 0, a>>) : a \in {-1, 2}, b \in {0, 1, 4}, c \in {1}, d \in {-1, 1, 3}}
Tall3 == {Ints(<<a, b, 0, d, 0, 0>>) : a \in {-1, 2}, b \in {0, 1}, d \in {-1, 1, 3}}
Nilpotent3 == {Ints(<<0, a, b, 0, 0, c, 0, 0, 0>>) : a, b, c \in 0 .. 2}
Blocks3 == {Ints(<<a, b, 1, c, d, 2, 0, 0, 1>>) : a, b, c, d \in {-1, 0, 2}}
           \cup {Ints(<<1, 2, 1, 0, a, b, 0, c, d>>) : a, b, c, d \in {-1, 0, 2}}

Products(Left, Right, row, column) == {MatMul(Q, R, row, row, column) : Q \in Left, R \in Right}
Singular3 == {MatMul(MatMul(U, D, 3, 3, 3), Transpose(V, 3, 3), 3, 3, 3) : U \in Turns3, D \in Diagonal3, V \in Turns3}
Numbered(m, k) == [c \in Cells(m) |-> Whole(k + c)]

\* Blocks of matrices of two to four rows, and every Hankel matrix that stays inside
\* its arrays: wider than the signal by one, as wide, and narrower.
BlockCalls ==
  {[fn |-> "blocks", A |-> Numbered(d.row * d.column, 1)] @@ d :
     d \in {e \in [row : 2 .. 4, column : 2 .. 3, i : 0 .. 1, j : 0 .. 1, row_b : 1 .. 2, column_b : 1 .. 2] :
              e.i + e.row_b <= e.row /\ e.j + e.column_b <= e.column}}
HankelCalls ==
  {[fn |-> "hankel", A |-> Numbered(d.row * d.column, 1), row |-> d.row, column |-> d.column,
    row_h |-> d.row * d.blocks, column_h |-> d.column_h, shift |-> d.shift] :
     d \in {e \in [row : 1 .. 2, column : 1 .. 5, blocks : 0 .. 6, column_h : 1 .. 6, shift : 0 .. 2] :
              HankelStaysInside(e.row, e.column, e.row * e.blocks, e.column_h, e.shift)}}

MCCalls ==
  On("linsolve_lup", Square3, 3, [b |-> Ints(<<1, 2, -1>>)])
  \cup On("inv", Square3 \cup {Ints(<<0, 0, 0, 0, 0, 0, 0, 0, 0>>)}, 3, <<>>) \cup On("inv", Square2, 2, <<>>)
  \cup On("det", Square3, 3, <<>>)
  \cup On("linsolve_gauss", Square3, 3, [b |-> Ints(<<1, 2, -1>>), row |-> 3, column |-> 3, alpha |-> Zero])
  \cup On("linsolve_gauss", {Ints(r \o s) : r, s \in Rows}, 3,
          [b |-> Ints(<<1, -2>>), row |-> 2, column |-> 3, alpha |-> One])
  \cup On("linsolve_chol", Squared(Lower3, 3), 3, [b |-> Ints(<<1, 0, -2>>)])
  \cup On("linsolve_qr", Products(Turns3, Upper3, 3, 3), 3, [b |-> Ints(<<1, 0, -2>>)])
  \cup On("qr", Products(Turns3, Upper3, 3, 3), 3, [row |-> 3, column |-> 3])
  \cup On("qr", Products(Turns3, Tall3, 3, 2), 3, [row |-> 3, column |-> 2])
  \cup On("dlyap", Square2, 2, [Q |-> Ints(<<2, 1, 1, 3>>)])
  \cup On("balance", Square3, 3, <<>>) \cup On("prepare", Square3, 3, <<>>)
  \cup On("eig", Square2, 2, <<>>) \cup On("eig", Blocks3, 3, <<>>)
  \cup On("svd", Singular3, 3, <<>>) \cup On("pinv", Singular3, 3, <<>>)
  \cup {[fn |-> "sort", n |-> 3, row |-> 4, S |-> Ints(s), U |-> Numbered(12, 0), V |-> Numbered(9, 20)] :
          s \in [1 .. 3 -> 0 .. 2]}
  \cup On("expm", Nilpotent3, 3, <<>>)
  \cup {c \in HankelCalls : c.column_h >= c.column} \cup BlockCalls
  \cup On("chol", Squared(Updated3, 3), 3, <<>>) \cup On("chol", Squared(Lower2, 2), 2, <<>>)
  \cup {[fn |-> "nonlinsolve"]}

\* Two exchanged pairs of rows.
DetCalls == On("det", Permuted4, 4, <<>>)

MCVectors == {Ints(s) : s \in {<<4, 16, 25>>, <<4, 20, 20>>, <<4, 0, 0>>, <<0, 12, 0>>, <<0, 0, 3>>, <<4, 2>>, <<0, 3>>, <<4, 0>>, <<0, 1>>, <<3, 1>>, <<1, 0>>}}

=============================================================================
