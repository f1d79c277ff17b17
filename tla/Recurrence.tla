----------------------------- MODULE Recurrence -----------------------------
(***************************************************************************)
(* What smls_diff_eq.h promises of a difference equation node, over all    *)
(* samples since its last reset:                                           *)
(*   y[k] = (sum b_i x[k-i] - sum a_j y[k-j]) / a_0                        *)
(***************************************************************************)
EXTENDS Rational, Sequences, FiniteSets

CONSTANTS Num, Den            \* b and a, indexed from 0

VARIABLES x, y                \* inputs and outputs since the last reset

\* The sample i steps before the newest; silence before the first.
Past(s, i) == IF i < Len(s) THEN s[Len(s) - i] ELSE Zero

Order(c) == Cardinality(DOMAIN c)

Output(xs, ys) ==
  Div(Sub(SumOver(0, Order(Num) - 1, LAMBDA i : Mul(Num[i], Past(xs, i))),
          SumOver(1, Order(Den) - 1, LAMBDA j : Mul(Den[j], Past(ys, j - 1)))),
      Den[0])

Init == x = <<>> /\ y = <<>>

Feed ==
  /\ Len(x') = Len(x) + 1
  /\ SubSeq(x', 1, Len(x)) = x
  /\ y' = Append(y, Output(x', y))

Reset == x' = <<>> /\ y' = <<>>

Spec == Init /\ [][Feed \/ Reset]_<<x, y>>

=============================================================================
