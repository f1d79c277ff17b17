----------------------------- MODULE MCRuntime -----------------------------
(* Values for TLC: a second-order filter, arrays of two and of four.       *)
EXTENDS Runtime

MCBufferLen == [b \in Buffer |-> IF b = "b2" THEN 2 ELSE 4]
MCK == Whole(-2)
MCDt == Quotient(1, 2)
MCNum == [i \in 0 .. 2 |-> Whole(<<1, 2, -1>>[i + 1])]
MCDen == [j \in 0 .. 2 |-> Whole(<<2, 1, -1>>[j + 1])]
MCShapes == {<<>>, <<2>>, <<2, 2>>}
MCSignals == {[i \in 0 .. 3 |-> Whole(i + 1)], [i \in 0 .. 3 |-> Whole(i - 1)]}

=============================================================================
