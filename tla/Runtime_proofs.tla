--------------------------- MODULE Runtime_proofs ---------------------------
(***************************************************************************)
(* Theorems about nodes and operators, for every number of edges, arrays,  *)
(* slots and coefficients, every sample, and every sequence of calls.      *)
(* Lemmas come first: element counts, what the difference equation adds    *)
(* up. Then one section for each theorem.                                  *)
(***************************************************************************)
EXTENDS Runtime, Matrix_proofs, FiniteSetTheorems

-----------------------------------------------------------------------------
(* Element counts                                                          *)

\* P[d] is what smls_dtype_element_count has after dimension d.
Counts(P, s) ==
  /\ P \in [-1 .. MaxDim - 1 -> Nat]
  /\ \A d \in -1 .. MaxDim - 1 : P[d] = IF d = -1 THEN 1 ELSE (P[d - 1] * s.shape[d]) % CountMod

LEMMA CountIsLast ==
  ASSUME NEW s \in EdgeType
  PROVE  \E P : Counts(P, s) /\ ElementCount(s) = P[MaxDim - 1]
<1> DEFINE step == [q \in Nat \X Int |-> IF q[2] \in Dim THEN (q[1] * s.shape[q[2]]) % CountMod ELSE 1]
           Q(P) == P = [d \in -1 .. MaxDim - 1 |-> IF d = -1 THEN 1 ELSE (P[d - 1] * s.shape[d]) % CountMod]
           last == CHOOSE P : Q(P)
<1>1. /\ s.shape \in [Dim -> Nat] /\ Dim = 0 .. MaxDim - 1
      /\ CountMod \in Nat /\ CountMod # 0 /\ MaxDim \in Nat /\ MaxDim - 1 \in Int /\ 0 - 1 = -1
  BY EdgesAssumption DEF EdgeType, Dim
<1>2. step \in [Nat \X Int -> Nat]
  <2>1. \A a \in Nat, d \in Dim : (a * s.shape[d]) % CountMod \in Nat
    BY <1>1
  <2>2. \A q \in Nat \X Int : q[2] \in Dim => (q[1] * s.shape[q[2]]) % CountMod \in Nat
    BY <2>1
  <2> QED
    BY <2>2
<1>3. \A a \in Nat, d \in Dim : step[<<a, d>>] = (a * s.shape[d]) % CountMod
  BY <1>1
<1> HIDE DEF step
<1>4. PICK P \in [0 - 1 .. MaxDim - 1 -> Nat] : Loop(P, 1, step, 0, MaxDim - 1)
  <2> DEFINE lo == 0
             hi == MaxDim - 1
             one == 1
  <2>1. lo \in Int /\ hi \in Int /\ one \in Nat
    BY <1>1
  <2> HIDE DEF lo, hi, one
  <2>2. \E P \in [lo - 1 .. hi -> Nat] : Loop(P, one, step, lo, hi)
    BY <1>2, <2>1, LoopExists
  <2> QED
    BY <2>2 DEF lo, hi, one
<1>5. ASSUME NEW d \in -1 .. MaxDim - 1
      PROVE  P[d] = IF d = -1 THEN 1 ELSE (P[d - 1] * s.shape[d]) % CountMod
  <2>1. CASE d = -1
    <3>1. d < 0 /\ d \in 0 - 1 .. MaxDim - 1
      BY <1>1, <2>1
    <3> QED
      BY <1>4, <2>1, <3>1 DEF Loop
  <2>2. CASE d # -1
    <3>1. d \in Dim /\ ~(d < 0) /\ d - 1 \in 0 - 1 .. MaxDim - 1 /\ d \in 0 - 1 .. MaxDim - 1
      BY <1>1, <2>2
    <3>2. P[d] = step[<<P[d - 1], d>>] /\ P[d - 1] \in Nat
      BY <1>4, <3>1 DEF Loop
    <3> QED
      BY <1>3, <2>2, <3>1, <3>2
  <2> QED
    BY <2>1, <2>2
<1>6. P \in [-1 .. MaxDim - 1 -> Nat]
  BY <1>1, <1>4
<1>7. Q(P)
  BY <1>5, <1>6
<1>8. ElementCount(s) = last[MaxDim - 1]
  BY DEF ElementCount
<1> HIDE DEF Q
<1>9. Q(last)
  BY <1>7
<1> HIDE DEF last
<1>10. \A d \in -1 .. MaxDim - 1 : last[d] = IF d = -1 THEN 1 ELSE (last[d - 1] * s.shape[d]) % CountMod
  BY <1>9 DEF Q
<1>11. last \in [-1 .. MaxDim - 1 -> Nat]
  <2>1. last = [d \in -1 .. MaxDim - 1 |-> last[d]]
    BY <1>9 DEF Q
  <2> DEFINE T == {k \in Nat : k - 1 <= MaxDim - 1 => last[k - 1] \in Nat}
  <2>2. 0 \in T
    <3>1. last[-1] = 1
      BY <1>1, <1>10
    <3> QED
      BY <1>1, <3>1
  <2>3. ASSUME NEW k \in T PROVE k + 1 \in T
    <3> SUFFICES ASSUME k <= MaxDim - 1 PROVE last[k] \in Nat
      OBVIOUS
    <3>1. last[k - 1] \in Nat /\ k \in Dim /\ k # -1 /\ k \in -1 .. MaxDim - 1
      BY <1>1
    <3>2. last[k] = (last[k - 1] * s.shape[k]) % CountMod
      BY <1>10, <3>1
    <3> DEFINE before == last[k - 1]
               dim == s.shape[k]
    <3>3. before \in Nat /\ dim \in Nat /\ CountMod \in Nat \ {0}
      BY <1>1, <3>1
    <3> HIDE DEF before, dim, last
    <3>4. (before * dim) % CountMod \in Nat
      <4>1. before * dim \in Nat
        BY <3>3
      <4> QED
        BY <3>3, <4>1
    <3> QED
      BY <3>2, <3>4 DEF before, dim
  <2>t. T \subseteq Nat
    OBVIOUS
  <2> HIDE DEF T
  <2>4. Nat \subseteq T
    BY <2>2, <2>3, <2>t, Induct
  <2>5. \A d \in -1 .. MaxDim - 1 : last[d] \in Nat
    <3> TAKE d \in -1 .. MaxDim - 1
    <3>1. d + 1 \in Nat /\ (d + 1) - 1 = d /\ d <= MaxDim - 1
      BY <1>1
    <3>2. d + 1 \in T
      BY <2>4, <3>1
    <3> QED
      BY <3>1, <3>2 DEF T
  <2> QED
    BY <2>1, <2>5
<1> QED
  BY <1>8, <1>10, <1>11 DEF Counts

LEMMA CountIsNat ==
  ASSUME NEW s \in EdgeType
  PROVE  ElementCount(s) \in Nat
<1>1. PICK P : Counts(P, s) /\ ElementCount(s) = P[MaxDim - 1]
  BY CountIsLast
<1>2. MaxDim - 1 \in -1 .. MaxDim - 1
  BY EdgesAssumption
<1> QED
  BY <1>1, <1>2 DEF Counts

-----------------------------------------------------------------------------
(* The difference equation's arithmetic.                                   *)

\* The terms of the two sums of smls_diff_eq_step.
Feedforward(inputs) == [i \in 0 .. NumOrder - 1 |-> Mul(Num[i], inputs[i])]
Feedback == [j \in 1 .. DenOrder - 1 |-> Mul(Den[j], output_hist[j - 1])]

\* Subtracting the feedback term by term, as the code does, subtracts its sum.
LEMMA RecursionIsDifference ==
  ASSUME NEW inputs \in [0 .. NumOrder - 1 -> Fraction],
         output_hist \in [0 .. DenOrder - 2 -> Fraction]
  PROVE  \E s \in [0 - 1 .. NumOrder - 1 -> Fraction], t \in [1 - 1 .. DenOrder - 1 -> Fraction] :
           /\ Sums(s, Feedforward(inputs), 0, NumOrder - 1)
           /\ Sums(t, Feedback, 1, DenOrder - 1)
           /\ Recursion(inputs) = Div(Sub(s[NumOrder - 1], t[DenOrder - 1]), Den[0])
<1> DEFINE n == NumOrder - 1
           m == DenOrder - 1
           P(f) == f = [i \in -1 .. n |-> IF i = -1 THEN Zero ELSE Add(f[i - 1], Mul(Num[i], inputs[i]))]
           forward == CHOOSE f : P(f)
           Q(g) == g = [i \in 0 .. m |-> IF i = 0 THEN forward[n]
                                          ELSE Sub(g[i - 1], Mul(Den[i], output_hist[i - 1]))]
           feedback == CHOOSE g : Q(g)
<1>1. /\ n \in Nat /\ m \in Nat /\ 0 - 1 = -1 /\ 1 - 1 = 0 /\ DenOrder - 2 = m - 1
      /\ Num \in [0 .. n -> Fraction] /\ Den \in [0 .. m -> Fraction]
  BY RuntimeAssumption, SampleAssumption
<1>2. Recursion(inputs) = Div(feedback[m], Den[0])
  BY DEF Recursion
<1>3. Feedforward(inputs) \in [0 .. n -> Fraction]
  <2>1. \A i \in 0 .. n : Mul(Num[i], inputs[i]) \in Fraction
    BY <1>1, Closed
  <2> QED
    BY <2>1 DEF Feedforward
<1>4. Feedback \in [1 .. m -> Fraction]
  <2>1. \A j \in 1 .. m : j - 1 \in 0 .. DenOrder - 2 /\ j \in 0 .. m
    BY <1>1
  <2>2. \A j \in 1 .. m : Mul(Den[j], output_hist[j - 1]) \in Fraction
    BY <1>1, <2>1, Closed
  <2> QED
    BY <2>2 DEF Feedback
<1> HIDE DEF n, m
<1>5. PICK s \in [0 - 1 .. n -> Fraction] : Sums(s, Feedforward(inputs), 0, n)
  <2> DEFINE lo == 0
  <2>1. lo \in Int /\ n \in Int /\ Feedforward(inputs) \in [lo .. n -> Fraction]
    BY <1>1, <1>3
  <2> HIDE DEF lo
  <2>2. \E s \in [lo - 1 .. n -> Fraction] : Sums(s, Feedforward(inputs), lo, n)
    BY <2>1, SumsExist
  <2> QED
    BY <2>2 DEF lo
<1>6. PICK t \in [1 - 1 .. m -> Fraction] : Sums(t, Feedback, 1, m)
  <2> DEFINE lo == 1
  <2>1. lo \in Int /\ m \in Int /\ Feedback \in [lo .. m -> Fraction]
    BY <1>1, <1>4
  <2> HIDE DEF lo
  <2>2. \E t \in [lo - 1 .. m -> Fraction] : Sums(t, Feedback, lo, m)
    BY <2>1, SumsExist
  <2> QED
    BY <2>2 DEF lo
<1>7. \A i \in -1 .. n : s[i] = IF i = -1 THEN Zero ELSE Add(s[i - 1], Mul(Num[i], inputs[i]))
  <2> TAKE i \in -1 .. n
  <2>1. i \in 0 - 1 .. n /\ (i < 0 <=> i = -1) /\ (i # -1 => i \in 0 .. NumOrder - 1)
    BY <1>1 DEF n
  <2>2. s[i] = IF i < 0 THEN Zero ELSE Add(s[i - 1], Feedforward(inputs)[i])
    BY <1>5, <2>1 DEF Sums
  <2> QED
    BY <2>1, <2>2 DEF Feedforward
<1>8. forward[n] = s[n]
  <2>1. P(s)
    BY <1>1, <1>5, <1>7
  <2> HIDE DEF P
  <2>2. P(forward)
    BY <2>1
  <2> HIDE DEF forward
  <2>3. Sums(forward, Feedforward(inputs), 0, n)
    <3> SUFFICES ASSUME NEW i \in 0 - 1 .. n
                 PROVE  forward[i] = IF i < 0 THEN Zero ELSE Add(forward[i - 1], Feedforward(inputs)[i])
      BY DEF Sums
    <3>1. i \in -1 .. n /\ (i < 0 <=> i = -1) /\ (i # -1 => i \in 0 .. NumOrder - 1)
      BY <1>1 DEF n
    <3>2. forward[i] = IF i = -1 THEN Zero ELSE Add(forward[i - 1], Mul(Num[i], inputs[i]))
      BY <2>2, <3>1 DEF P
    <3> QED
      BY <3>1, <3>2 DEF Feedforward
  <2>4. n \in 0 - 1 .. n /\ 0 \in Int /\ n \in Int
    BY <1>1
  <2> QED
    BY <1>5, <2>3, <2>4, SumsAgree
<1> DEFINE F == s[n]
           G == [i \in 0 .. m |-> Sub(F, t[i])]
<1>9. F \in Fraction /\ \A i \in 0 .. m : t[i] \in Fraction
  <2>1. n \in 0 - 1 .. n /\ \A i \in 0 .. m : i \in 1 - 1 .. m
    BY <1>1
  <2> QED
    BY <1>5, <1>6, <2>1
<1> HIDE DEF forward, P, F
<1>10. t[0] = Zero /\ \A i \in 1 .. m : t[i] = Add(t[i - 1], Mul(Den[i], output_hist[i - 1]))
  <2>1. 0 \in 1 - 1 .. m /\ 0 < 1 /\ \A i \in 1 .. m : i \in 1 - 1 .. m /\ ~(i < 1) /\ i \in 1 .. DenOrder - 1
    BY <1>1 DEF m
  <2> QED
    BY <1>6, <2>1 DEF Sums, Feedback
<1>11. \A i \in 1 .. m : Mul(Den[i], output_hist[i - 1]) \in Fraction
  <2>1. \A i \in 1 .. m : i \in 1 .. DenOrder - 1 /\ Feedback[i] \in Fraction
    BY <1>1, <1>4 DEF m
  <2> QED
    BY <2>1 DEF Feedback
<1>12. ASSUME NEW i \in 0 .. m
       PROVE  G[i] = IF i = 0 THEN F ELSE Sub(G[i - 1], Mul(Den[i], output_hist[i - 1]))
  <2>1. CASE i = 0
    BY <1>9, <1>10, <2>1, ZeroIsNeutral
  <2>2. CASE i # 0
    <3>1. i \in 1 .. m /\ i - 1 \in 0 .. m
      BY <1>1, <2>2
    <3>2. G[i] = Sub(F, t[i]) /\ G[i - 1] = Sub(F, t[i - 1])
      BY <3>1
    <3> HIDE DEF G
    <3>3. Sub(F, t[i]) = Sub(F, Add(t[i - 1], Mul(Den[i], output_hist[i - 1])))
      BY <1>10, <3>1
    <3>4. Sub(F, Add(t[i - 1], Mul(Den[i], output_hist[i - 1])))
            = Sub(Sub(F, t[i - 1]), Mul(Den[i], output_hist[i - 1]))
      BY <1>9, <1>11, <3>1, SubtractsSum
    <3> QED
      BY <2>2, <3>2, <3>3, <3>4
  <2> QED
    BY <2>1, <2>2
<1>13. F = forward[n]
  BY <1>8 DEF F
<1>14. Q(G)
  <2>1. \A i \in 0 .. m : G[i] = IF i = 0 THEN forward[n] ELSE Sub(G[i - 1], Mul(Den[i], output_hist[i - 1]))
    BY <1>12, <1>13
  <2> QED
    BY <2>1
<1> HIDE DEF Q
<1>15. Q(feedback)
  BY <1>14
<1> HIDE DEF feedback
<1>16. feedback[m] = G[m]
  <2> DEFINE T == {k \in Nat : k <= m => feedback[k] = G[k]}
  <2>1. \A i \in 0 .. m : feedback[i] = IF i = 0 THEN F ELSE Sub(feedback[i - 1], Mul(Den[i], output_hist[i - 1]))
    BY <1>13, <1>15 DEF Q
  <2> HIDE DEF G
  <2>2. 0 \in T
    <3>1. 0 \in 0 .. m
      BY <1>1
    <3>2. feedback[0] = F /\ G[0] = F
      BY <1>12, <2>1, <3>1
    <3> QED
      BY <3>2
  <2>3. ASSUME NEW k \in T PROVE k + 1 \in T
    <3> SUFFICES ASSUME k + 1 <= m PROVE feedback[k + 1] = G[k + 1]
      OBVIOUS
    <3> DEFINE i == k + 1
    <3>1. i \in 0 .. m /\ i # 0 /\ i - 1 = k /\ k <= m
      BY <1>1
    <3> HIDE DEF i
    <3>2. feedback[i - 1] = G[i - 1]
      BY <3>1
    <3>3. /\ feedback[i] = Sub(feedback[i - 1], Mul(Den[i], output_hist[i - 1]))
          /\ G[i] = Sub(G[i - 1], Mul(Den[i], output_hist[i - 1]))
      BY <1>12, <2>1, <3>1
    <3>4. feedback[i] = G[i]
      BY <3>2, <3>3
    <3> QED
      BY <3>4 DEF i
  <2> HIDE DEF T
  <2>4. m \in T
    BY <1>1, <2>2, <2>3, Induct DEF T
  <2> QED
    BY <1>1, <2>4 DEF T
<1>17. G[m] = Sub(s[n], t[m])
  BY <1>1 DEF F
<1>18. Recursion(inputs) = Div(Sub(s[n], t[m]), Den[0])
  BY <1>2, <1>16, <1>17
<1> QED
  BY <1>5, <1>6, <1>18 DEF n, m

LEMMA RecursionIsFraction ==
  ASSUME NEW inputs \in [0 .. NumOrder - 1 -> Fraction],
         output_hist \in [0 .. DenOrder - 2 -> Fraction]
  PROVE  Recursion(inputs) \in Fraction
<1>1. PICK s \in [0 - 1 .. NumOrder - 1 -> Fraction], t \in [1 - 1 .. DenOrder - 1 -> Fraction] :
        Recursion(inputs) = Div(Sub(s[NumOrder - 1], t[DenOrder - 1]), Den[0])
  BY RecursionIsDifference
<1>2. NumOrder - 1 \in 0 - 1 .. NumOrder - 1 /\ DenOrder - 1 \in 1 - 1 .. DenOrder - 1 /\ 0 \in 0 .. DenOrder - 1
  BY RuntimeAssumption
<1>3. s[NumOrder - 1] \in Fraction /\ t[DenOrder - 1] \in Fraction /\ Den[0] \in Fraction
  BY <1>2, SampleAssumption
<1> DEFINE a == s[NumOrder - 1]
           b == t[DenOrder - 1]
           c == Den[0]
<1>4. a \in Fraction /\ b \in Fraction /\ c \in Fraction /\ Recursion(inputs) = Div(Sub(a, b), c)
  BY <1>1, <1>3
<1> HIDE DEF a, b, c
<1>5. Sub(a, b) \in Fraction
  BY <1>4, Closed
<1> QED
  BY <1>4, <1>5, DivClosed

-----------------------------------------------------------------------------
(* Sequences.                                                              *)

\* A sequence by its elements, whatever they are.
IsSeq(s) == Len(s) \in Nat /\ s = [i \in 1 .. Len(s) |-> s[i]]

LEMMA SeqIsSeq == ASSUME NEW S, NEW t \in Seq(S) PROVE IsSeq(t)
BY LenProperties DEF IsSeq

LEMMA AppendSeq ==
  ASSUME NEW s, IsSeq(s), NEW v
  PROVE  /\ IsSeq(Append(s, v))
         /\ Len(Append(s, v)) = Len(s) + 1
         /\ Append(s, v)[Len(s) + 1] = v
         /\ \A i \in 1 .. Len(s) : Append(s, v)[i] = s[i]
<1> DEFINE S == {s[i] : i \in 1 .. Len(s)} \cup {v}
<1>1. s \in Seq(S)
  <2>1. \A i \in 1 .. Len(s) : s[i] \in S
    OBVIOUS
  <2>2. s \in [1 .. Len(s) -> S]
    BY <2>1, Zenon DEF IsSeq
  <2> QED BY <2>2 DEF IsSeq
<1>2. v \in S
  OBVIOUS
<1> HIDE DEF S
<1>3. Append(s, v) \in Seq(S) /\ Len(Append(s, v)) = Len(s) + 1
  BY <1>1, <1>2
<1>4. IsSeq(Append(s, v))
  BY <1>3, SeqIsSeq
<1>5. Append(s, v)[Len(s) + 1] = v
  BY <1>1, <1>2
<1>6. \A i \in 1 .. Len(s) : Append(s, v)[i] = s[i]
  BY <1>1, <1>2
<1> QED BY <1>3, <1>4, <1>5, <1>6

LEMMA EmptyIsSeq == IsSeq(<<>>)
<1>1. <<>> \in Seq({})
  OBVIOUS
<1> QED BY <1>1, SeqIsSeq

-----------------------------------------------------------------------------
(* The shape of the state.                                                 *)

\* TypeInv is TypeOK and that taken is a sequence, in two parts: what the calls
\* that configure change, and the samples.
WiringType ==
  /\ edge \in [Edge -> EdgeType]
  /\ node \in [ops : Ops, param : BOOLEAN, state : BOOLEAN, inputs : SlotType, outputs : SlotType]
  /\ inferred \in BOOLEAN /\ overrun \in BOOLEAN

MemType == DOMAIN mem = Buffer /\ \A b \in Buffer : mem[b] \in [0 .. BufferLen[b] - 1 -> Fraction]
TakenType == \A k \in 1 .. Len(taken) : \E n \in 0 .. StateLen : taken[k] \in [0 .. n - 1 -> Fraction]
SumType == acc \in [0 .. StateLen - 1 -> Fraction] /\ IsSeq(taken) /\ TakenType
FilterType ==
  /\ input_hist \in [0 .. NumOrder - 1 -> Fraction] /\ output_hist \in [0 .. DenOrder - 2 -> Fraction]
  /\ x \in Seq(Fraction) /\ y \in Seq(Fraction)

SampleType == MemType /\ SumType /\ FilterType
TypeInv == WiringType /\ SampleType

LEMMA TypeInvIsType == TypeInv <=> TypeOK /\ IsSeq(taken)
BY DEF TypeInv, WiringType, SampleType, MemType, SumType, TakenType, FilterType, TypeOK

LEMMA SlotZero == 0 \in Slot
BY RuntimeAssumption DEF Slot

\* What a verdict of OK says of the two slots.
LEMMA BoundWhenInferred ==
  ASSUME WiringType, InferVerdict = "OK"
  PROVE  In \in Edge /\ Out \in Edge
BY SlotZero DEF WiringType, InferVerdict, In, Out, SlotType

LEMMA InitializedType == ASSUME NEW s \in EdgeType PROVE Initialized(s) \in EdgeType
<1> DEFINE ones == [d \in Dim |-> 1]
<1>1. ones \in [Dim -> Nat]
  OBVIOUS
<1> HIDE DEF ones
<1>2. [s EXCEPT !.signal = NULL, !.type = "FLOAT32", !.shape = ones] \in EdgeType
  BY <1>1 DEF EdgeType, Dtype
<1>3. Initialized(s) = [s EXCEPT !.signal = NULL, !.type = "FLOAT32", !.shape = ones]
  BY Zenon DEF Initialized, ones
<1> QED BY <1>2, <1>3

LEMMA BoundType ==
  ASSUME NEW s \in EdgeType, NEW b \in Buffer, NEW t \in Dtype
  PROVE  [s EXCEPT !.signal = b, !.type = t] \in EdgeType
BY DEF EdgeType

LEMMA ReshapedType ==
  ASSUME NEW s \in EdgeType, NEW dims \in Seq(Nat), Len(dims) \in 0 .. MaxDim
  PROVE  Reshaped(s, dims) \in EdgeType
<1> DEFINE shape == [d \in Dim |-> IF d < Len(dims) THEN dims[d + 1] ELSE s.shape[d]]
<1>1. s.shape \in [Dim -> Nat]
  BY DEF EdgeType
<1>2. \A d \in Dim : d < Len(dims) => dims[d + 1] \in Nat
  BY EdgesAssumption DEF Dim
<1>3. shape \in [Dim -> Nat]
  BY <1>1, <1>2
<1> HIDE DEF shape
<1>4. [s EXCEPT !.rank = Len(dims), !.shape = shape] \in EdgeType
  BY <1>3 DEF EdgeType
<1>5. Reshaped(s, dims) = [s EXCEPT !.rank = Len(dims), !.shape = shape]
  BY Zenon DEF Reshaped, shape
<1> QED BY <1>4, <1>5

\* The output edge of an inference is still an edge.
LEMMA ShapedType ==
  ASSUME NEW out \in EdgeType, NEW in \in EdgeType
  PROVE  ShapedLike(out, in) \in EdgeType
BY DEF ShapedLike, EdgeType

LEMMA CreatedType ==
  ASSUME NEW type, NEW param \in BOOLEAN, NEW state \in BOOLEAN, GetOps(type) # NULL
  PROVE  Created(type, param, state) \in [ops : Ops, param : BOOLEAN, state : BOOLEAN,
                                          inputs : SlotType, outputs : SlotType]
<1>1. GetOps(type) \in Ops
  BY DEF GetOps
<1>2. Unbound \in SlotType
  BY DEF Unbound, SlotType
<1> QED BY <1>1, <1>2 DEF Created

LEMMA InitType == ASSUME Init PROVE TypeInv
<1>1. PICK b1, b2 \in Buffer, type \in Ops, n \in VectorLen, from \in {InEdge, NULL}, to \in {OutEdge, NULL} :
        edge = Wired(b1, b2, n) /\ node = Prepared(type, from, to)
  BY DEF Init
<1>2. edge \in [Edge -> EdgeType]
  BY <1>1, RuntimeAssumption, EdgesAssumption DEF Wired, EdgeType, Dtype, Dim
<1>3. node \in [ops : Ops, param : BOOLEAN, state : BOOLEAN, inputs : SlotType, outputs : SlotType]
  <2>1. Created(type, TRUE, TRUE) \in [ops : Ops, param : BOOLEAN, state : BOOLEAN,
                                       inputs : SlotType, outputs : SlotType]
    BY CreatedType, RuntimeAssumption DEF GetOps, Ops
  <2>2. from \in Edge \cup {NULL} /\ to \in Edge \cup {NULL}
    BY RuntimeAssumption
  <2> QED BY <1>1, <2>1, <2>2, SlotZero DEF Prepared, SlotType
<1>4. Zero \in Fraction
  BY ZeroIsNeutral
<1>5. /\ mem = [b \in Buffer |-> [i \in 0 .. BufferLen[b] - 1 |-> Zero]]
      /\ acc = [i \in 0 .. StateLen - 1 |-> Zero]
      /\ input_hist = [i \in 0 .. NumOrder - 1 |-> Zero]
      /\ output_hist = [j \in 0 .. DenOrder - 2 |-> Zero]
      /\ x = <<>> /\ y = <<>> /\ taken = <<>> /\ inferred = FALSE /\ overrun = FALSE
  BY DEF Init
<1>6. MemType /\ acc \in [0 .. StateLen - 1 -> Fraction]
  BY <1>4, <1>5 DEF MemType
<1>7. FilterType
  BY <1>4, <1>5 DEF FilterType
<1>8. IsSeq(taken) /\ TakenType
  BY <1>5, EmptyIsSeq DEF TakenType
<1> QED BY <1>2, <1>3, <1>5, <1>6, <1>7, <1>8 DEF TypeInv, WiringType, SampleType, SumType

\* Calls that configure.
LEMMA ConfigureSamples == ASSUME TypeInv, Configure PROVE SampleType'
<1>1. CASE UNCHANGED <<mem, opState>>
  BY <1>1 DEF TypeInv, SampleType, MemType, SumType, TakenType, FilterType, opState
<1>2. CASE Reset
  <2>1. SumType' /\ MemType'
    BY <1>2 DEF Reset, TypeInv, SampleType, MemType, SumType, TakenType
  <2>2. CASE UNCHANGED <<input_hist, output_hist, x, y>>
    BY <2>1, <2>2 DEF TypeInv, SampleType, FilterType
  <2>3. CASE DiffEqReset
    <3>1. FilterType'
      BY <2>3, ZeroIsNeutral DEF DiffEqReset, FilterType
    <3> QED BY <2>1, <3>1 DEF SampleType
  <2> QED BY <1>2, <2>2, <2>3 DEF Reset
<1> QED
  BY <1>1, <1>2 DEF Configure, InitEdge, BindSignal, DeclareShape, Create, BindInput, BindOutput,
                    Validate, NodeInit, InferShape

LEMMA ConfigureWiring == ASSUME WiringType, Configure PROVE WiringType'
<1> USE DEF WiringType
<1>1. ASSUME NEW e \in Edge, InitEdge(e) PROVE WiringType'
  BY <1>1, InitializedType DEF InitEdge, EdgeInit, Change
<1>2. ASSUME NEW e \in Edge, NEW b \in Buffer, NEW t \in {"FLOAT32", "INT32"}, BindSignal(e, b, t)
      PROVE  WiringType'
  <2>1. edge' \in [Edge -> EdgeType]
    BY <1>2, BoundType DEF BindSignal, SignalBind, Dtype
  <2> QED BY <1>2, <2>1 DEF BindSignal, Change
<1>3. ASSUME NEW e \in Edge, NEW dims \in Shapes, DeclareShape(e, dims) PROVE WiringType'
  <2>1. dims \in Seq(Nat) /\ Len(dims) \in 0 .. MaxDim
    BY RuntimeAssumption, EdgesAssumption
  <2>2. edge' \in [Edge -> EdgeType]
    BY <1>3, <2>1, ReshapedType DEF DeclareShape, Reshape
  <2> QED BY <1>3, <2>2 DEF DeclareShape, Change
<1>4. ASSUME NEW type \in OpType, NEW param \in BOOLEAN, NEW state \in BOOLEAN, Create(type, param, state)
      PROVE  WiringType'
  <2>1. GetOps(type) # NULL => node' \in [ops : Ops, param : BOOLEAN, state : BOOLEAN,
                                           inputs : SlotType, outputs : SlotType]
    BY <1>4, CreatedType DEF Create
  <2> QED BY <1>4, <2>1 DEF Create, Change
<1>5. ASSUME NEW e \in Edge, NEW slot \in 0 .. MaxSlots, BindInput(e, slot) \/ BindOutput(e, slot)
      PROVE  WiringType'
  BY <1>5 DEF BindInput, BindOutput, Change, SlotType
<1>6. ASSUME Validate \/ NodeInit \/ Reset PROVE WiringType'
  BY <1>6 DEF Validate, NodeInit, Reset, Change
<1>7. ASSUME InferShape PROVE WiringType'
  <2>1. InferVerdict = "OK" => edge' \in [Edge -> EdgeType]
    BY <1>7, BoundWhenInferred, ShapedType DEF InferShape
  <2>2. inferred' \in BOOLEAN
    BY <1>7 DEF InferShape, Proper
  <2> QED BY <1>7, <2>1, <2>2 DEF InferShape, Change
<1> QED BY <1>1, <1>2, <1>3, <1>4, <1>5, <1>6, <1>7 DEF Configure

\* What a step may rely on that is not refused.
LEMMA StepReads ==
  ASSUME TypeInv, Step, StepVerdict = "OK"
  PROVE  /\ In \in Edge /\ Out \in Edge
         /\ edge[In].signal \in Buffer /\ edge[Out].signal \in Buffer
         /\ ElementCount(edge[In]) \in Nat
         /\ node.ops = "INTEGRATOR" => ElementCount(edge[In]) <= StateLen
         /\ node.ops \notin {"GAIN", "INTEGRATOR"} => ElementCount(edge[In]) = 1
         /\ \A i \in Elements : Input[i] \in Fraction
<1>1. In \in Edge \cup {NULL} /\ Out \in Edge \cup {NULL}
  BY SlotZero DEF TypeInv, WiringType, In, Out, SlotType
<1>2. In # NULL /\ Out # NULL /\ ~SignalMissing
  <2>1. CASE node.ops = "GAIN"
    BY <2>1 DEF StepVerdict, GainStepVerdict, GainValidate
  <2>2. CASE node.ops = "INTEGRATOR"
    BY <2>2 DEF StepVerdict, IntegratorStepVerdict, IntegratorValidate
  <2>3. CASE node.ops \notin {"GAIN", "INTEGRATOR"}
    BY <2>3 DEF StepVerdict, DiffEqValidate
  <2> QED
    BY <2>1, <2>2, <2>3
<1>3. In \in Edge /\ Out \in Edge /\ edge[In] \in EdgeType /\ edge[Out] \in EdgeType
  BY <1>1, <1>2 DEF TypeInv, WiringType
<1>4. edge[In].signal \in Buffer /\ edge[Out].signal \in Buffer
  BY <1>2, <1>3 DEF SignalMissing, EdgeType
<1>5. ElementCount(edge[In]) \in Nat
  BY <1>3, CountIsNat
<1>6. ElementCount(edge[In]) <= BufferLen[edge[In].signal]
  BY <1>2, <1>4, EdgesAssumption DEF Step, StorageFits
<1>7. node.ops = "INTEGRATOR" => ElementCount(edge[In]) <= StateLen
  BY <1>2 DEF Step
<1>8. node.ops \notin {"GAIN", "INTEGRATOR"} => ElementCount(edge[In]) = 1
  BY DEF StepVerdict, DiffEqValidate
<1>9. \A i \in Elements : Input[i] \in Fraction
  <2>1. BufferLen[edge[In].signal] \in Nat
    BY <1>4, EdgesAssumption
  <2>2. Elements \subseteq 0 .. BufferLen[edge[In].signal] - 1
    BY <1>5, <1>6, <2>1 DEF Elements
  <2>3. Input \in [0 .. BufferLen[edge[In].signal] - 1 -> Fraction]
    BY <1>4 DEF TypeInv, SampleType, MemType, Input
  <2> QED
    BY <2>2, <2>3
<1> QED
  BY <1>3, <1>4, <1>5, <1>7, <1>8, <1>9

LEMMA WrittenType ==
  ASSUME MemType, edge[Out].signal \in Buffer, NEW f, \A i \in Elements : f[i] \in Fraction, Written(f)
  PROVE  MemType'
<1> DEFINE to == edge[Out].signal
           new == [i \in DOMAIN mem[to] |-> IF i \in Elements THEN f[i] ELSE mem[to][i]]
<1>1. mem' = [mem EXCEPT ![to] = new]
  BY DEF Written
<1>2. mem[to] \in [0 .. BufferLen[to] - 1 -> Fraction]
  BY DEF MemType
<1>3. new \in [0 .. BufferLen[to] - 1 -> Fraction]
  BY <1>2
<1> HIDE DEF new
<1> QED
  BY <1>1, <1>3 DEF MemType

LEMMA ShiftedType ==
  ASSUME NEW len \in Int, NEW hist \in [0 .. len - 1 -> Fraction], NEW v \in Fraction
  PROVE  ShiftedIn(hist, v) \in [0 .. len - 1 -> Fraction]
<1>1. \A i \in 0 .. len - 1 : i # 0 => i - 1 \in 0 .. len - 1
  OBVIOUS
<1> QED
  BY <1>1 DEF ShiftedIn

\* Each operator's step keeps the samples what they are.
LEMMA GainSamples ==
  ASSUME TypeInv, edge[Out].signal \in Buffer, \A i \in Elements : Input[i] \in Fraction, GainStep
  PROVE  SampleType'
<1> DEFINE f == [i \in Elements |-> Mul(K, Input[i])]
<1>1. \A i \in Elements : f[i] \in Fraction
  BY SampleAssumption, Closed
<1>2. Written(f) /\ UNCHANGED opState
  BY DEF GainStep
<1> HIDE DEF f
<1>3. MemType'
  BY <1>1, <1>2, WrittenType DEF TypeInv, SampleType
<1> QED
  BY <1>2, <1>3 DEF TypeInv, SampleType, SumType, TakenType, FilterType, opState

LEMMA IntegratorSamples ==
  ASSUME TypeInv, edge[Out].signal \in Buffer, \A i \in Elements : Input[i] \in Fraction, IntegratorStep,
         ElementCount(edge[In]) \in Nat, ElementCount(edge[In]) <= StateLen
  PROVE  SampleType'
<1>1. ElementCount(edge[In]) \in 0 .. StateLen /\ Elements \subseteq 0 .. StateLen - 1
  BY RuntimeAssumption DEF Elements
<1>2. acc \in [0 .. StateLen - 1 -> Fraction] /\ IsSeq(taken) /\ TakenType
  BY DEF TypeInv, SampleType, SumType
<1>3. \A i \in Elements : Mul(Input[i], Dt) \in Fraction
  BY SampleAssumption, Closed
<1>4. \A i \in Elements : Add(acc[i], Mul(Input[i], Dt)) \in Fraction
  BY <1>1, <1>2, <1>3, Closed
<1>5. acc' = [i \in DOMAIN acc |-> IF i \in Elements THEN Add(acc[i], Mul(Input[i], Dt)) ELSE acc[i]]
  BY DEF IntegratorStep
<1>6. acc' \in [0 .. StateLen - 1 -> Fraction]
  BY <1>2, <1>4, <1>5
<1>7. \A i \in Elements : acc'[i] \in Fraction
  BY <1>1, <1>6
<1>8. Written(acc')
  BY DEF IntegratorStep
<1>9. MemType'
  BY <1>7, <1>8, WrittenType DEF TypeInv, SampleType
<1> DEFINE in == [i \in Elements |-> Input[i]]
<1>10. in \in [0 .. ElementCount(edge[In]) - 1 -> Fraction]
  BY DEF Elements
<1>11. taken' = Append(taken, in) /\ UNCHANGED <<input_hist, output_hist, x, y>> /\ Len(taken) \in Nat
  BY <1>2 DEF IntegratorStep, IsSeq
<1> HIDE DEF in
<1>12. /\ IsSeq(taken') /\ Len(taken') = Len(taken) + 1 /\ taken'[Len(taken) + 1] = in
       /\ \A k \in 1 .. Len(taken) : taken'[k] = taken[k]
  BY <1>2, <1>11, AppendSeq
<1>13. ASSUME NEW k \in 1 .. Len(taken')
       PROVE  \E n \in 0 .. StateLen : taken'[k] \in [0 .. n - 1 -> Fraction]
  <2>1. CASE k = Len(taken) + 1
    BY <1>1, <1>10, <1>12, <2>1
  <2>2. CASE k # Len(taken) + 1
    <3>1. k \in 1 .. Len(taken)
      BY <1>11, <1>12, <2>2
    <3>2. taken'[k] = taken[k]
      BY <1>12, <3>1
    <3> QED
      BY <1>2, <3>1, <3>2 DEF TakenType
  <2> QED
    BY <2>1, <2>2
<1>14. SumType'
  BY <1>6, <1>12, <1>13 DEF SumType, TakenType
<1>15. FilterType'
  BY <1>11 DEF TypeInv, SampleType, FilterType
<1> QED
  BY <1>9, <1>14, <1>15 DEF SampleType

LEMMA FilterSamples ==
  ASSUME TypeInv, edge[Out].signal \in Buffer, \A i \in Elements : Input[i] \in Fraction, DiffEqStep,
         ElementCount(edge[In]) = 1
  PROVE  SampleType'
<1> DEFINE v == Input[0]
           inputs == ShiftedIn(input_hist, v)
           out == Recursion(inputs)
           f == [i \in {0} |-> out]
<1>1. /\ input_hist' = inputs /\ output_hist' = ShiftedIn(output_hist, out) /\ Written(f)
      /\ x' = Append(x, v) /\ y' = Append(y, out) /\ UNCHANGED <<acc, taken>>
  BY DEF DiffEqStep
<1>2. Elements = {0} /\ v \in Fraction
  BY DEF Elements
<1>3. /\ NumOrder \in Int /\ DenOrder - 1 \in Int /\ (DenOrder - 1) - 1 = DenOrder - 2
      /\ input_hist \in [0 .. NumOrder - 1 -> Fraction] /\ output_hist \in [0 .. DenOrder - 2 -> Fraction]
      /\ x \in Seq(Fraction) /\ y \in Seq(Fraction)
  BY RuntimeAssumption DEF TypeInv, SampleType, FilterType
<1>4. inputs \in [0 .. NumOrder - 1 -> Fraction]
  BY <1>2, <1>3, ShiftedType
<1>5. out \in Fraction
  BY <1>3, <1>4, RecursionIsFraction
<1>6. \A i \in Elements : f[i] \in Fraction
  BY <1>2, <1>5
<1> HIDE DEF v, inputs, out, f
<1>7. output_hist' \in [0 .. DenOrder - 2 -> Fraction]
  BY <1>1, <1>3, <1>5, ShiftedType
<1>8. x' \in Seq(Fraction) /\ y' \in Seq(Fraction)
  BY <1>1, <1>2, <1>3, <1>5
<1>9. MemType'
  BY <1>1, <1>6, WrittenType DEF TypeInv, SampleType
<1>10. SumType'
  BY <1>1 DEF TypeInv, SampleType, SumType, TakenType
<1> QED
  BY <1>1, <1>4, <1>7, <1>8, <1>9, <1>10 DEF SampleType, FilterType

\* A step writes inside arrays and states of the size they have, and numbers.
LEMMA StepType == ASSUME TypeInv, Step PROVE TypeInv'
<1>1. WiringType'
  BY DEF Step, StepRefused, StepTaken, StepOverruns, OneStep, TypeInv, WiringType
<1>2. ASSUME StepRefused \/ StepOverruns PROVE SampleType'
  BY <1>2 DEF StepRefused, StepOverruns, opState, TypeInv, SampleType, MemType, SumType, TakenType, FilterType
<1>3. ASSUME StepTaken PROVE SampleType'
  <2>1. StepVerdict = "OK" /\ Effect
    BY <1>3 DEF StepTaken
  <2>2. /\ edge[Out].signal \in Buffer /\ ElementCount(edge[In]) \in Nat
        /\ node.ops = "INTEGRATOR" => ElementCount(edge[In]) <= StateLen
        /\ node.ops \notin {"GAIN", "INTEGRATOR"} => ElementCount(edge[In]) = 1
        /\ \A i \in Elements : Input[i] \in Fraction
    BY <2>1, StepReads
  <2>3. CASE node.ops = "GAIN"
    BY <2>1, <2>2, <2>3, GainSamples DEF Effect
  <2>4. CASE node.ops = "INTEGRATOR"
    BY <2>1, <2>2, <2>4, IntegratorSamples DEF Effect
  <2>5. CASE node.ops \notin {"GAIN", "INTEGRATOR"}
    BY <2>1, <2>2, <2>5, FilterSamples DEF Effect
  <2> QED
    BY <2>3, <2>4, <2>5
<1> QED
  BY <1>1, <1>2, <1>3 DEF Step, TypeInv

\* The caller's samples are numbers, and as many as the input has elements.
LEMMA WriteType == ASSUME TypeInv, NEW s \in Signals, WriteSignal(s) PROVE TypeInv'
<1> DEFINE from == edge[In].signal
           new == [i \in DOMAIN mem[from] |-> s[i]]
<1>1. from \in Buffer
  <2>1. In \in Edge
    BY SlotZero DEF WriteSignal, TypeInv, WiringType, In, SlotType
  <2> QED BY <2>1 DEF WriteSignal, TypeInv, WiringType, EdgeType
<1>2. mem[from] \in [0 .. BufferLen[from] - 1 -> Fraction]
  BY <1>1 DEF TypeInv, SampleType, MemType
<1>3. new \in [0 .. BufferLen[from] - 1 -> Fraction]
  BY <1>1, <1>2, SampleAssumption
<1>4. mem' = [mem EXCEPT ![from] = new]
  BY DEF WriteSignal
<1> HIDE DEF new, from
<1>5. MemType'
  BY <1>3, <1>4 DEF TypeInv, SampleType, MemType
<1> QED BY <1>5 DEF WriteSignal, opState, TypeInv, WiringType, SampleType, SumType, TakenType, FilterType

LEMMA Typed == Spec => []TypeInv
<1>1. Init => TypeInv
  BY InitType
<1>2. TypeInv /\ [Next]_vars => TypeInv'
  <2> SUFFICES ASSUME TypeInv, [Next]_vars PROVE TypeInv'
    OBVIOUS
  <2>1. CASE Configure
    BY <2>1, ConfigureWiring, ConfigureSamples DEF TypeInv
  <2>2. CASE Step
    BY <2>2, StepType
  <2>3. ASSUME NEW s \in Signals, WriteSignal(s) PROVE TypeInv'
    BY <2>3, WriteType
  <2>4. CASE UNCHANGED vars
    BY <2>4 DEF vars, opState, TypeInv, WiringType, SampleType, MemType, SumType, TakenType, FilterType
  <2> QED BY <2>1, <2>2, <2>3, <2>4 DEF Next
<1> QED BY <1>1, <1>2, PTL DEF Spec

\* TypeOK of the run: the node's slots hold edges or nothing, shapes fit their
\* four dimensions, no call changes the size of an array, of the integrator's
\* state or of a history (smls_diff_eq_reset clears den_order - 1 outputs), and
\* every sample anywhere is a fraction in lowest terms, or NaN.
THEOREM TypeCorrect == Spec => []TypeOK
<1>1. TypeInv => TypeOK
  BY TypeInvIsType
<1> QED BY <1>1, Typed, PTL

-----------------------------------------------------------------------------
(* Errors.                                                                 *)

\* A call that returns an error has changed no edge, no signal, nothing of the
\* node and nothing of its operator's state: every test of the callbacks comes
\* before the first store.
THEOREM ErrorsChangeNothing == Spec => FailedCallChangesNothing
<1> DEFINE Quiet == result'[2] # "OK" => UNCHANGED <<edge, mem, node, opState>>
<1>1. [Next]_vars => [Quiet]_vars
  <2> SUFFICES ASSUME Next, result'[2] # "OK" PROVE UNCHANGED <<edge, mem, node, opState>>
    OBVIOUS
  <2>1. CASE Configure
    <3>1. ASSUME NEW e \in Edge, InitEdge(e) PROVE FALSE
      BY <3>1 DEF InitEdge
    <3>2. ASSUME NEW e \in Edge, NEW b \in Buffer, NEW t \in {"FLOAT32", "INT32"}, BindSignal(e, b, t)
          PROVE  FALSE
      BY <3>2 DEF BindSignal
    <3>3. ASSUME NEW e \in Edge, NEW dims \in Shapes, DeclareShape(e, dims) PROVE FALSE
      BY <3>3 DEF DeclareShape
    <3>4. ASSUME NEW type \in OpType, NEW param \in BOOLEAN, NEW state \in BOOLEAN, Create(type, param, state)
          PROVE  UNCHANGED <<edge, mem, node, opState>>
      BY <3>4 DEF Create
    <3>5. ASSUME NEW e \in Edge, NEW slot \in 0 .. MaxSlots, BindInput(e, slot) \/ BindOutput(e, slot)
          PROVE  UNCHANGED <<edge, mem, node, opState>>
      BY <3>5 DEF BindInput, BindOutput
    <3>6. ASSUME Validate \/ NodeInit PROVE UNCHANGED <<edge, mem, node, opState>>
      BY <3>6 DEF Validate, NodeInit
    <3>7. ASSUME InferShape PROVE UNCHANGED <<edge, mem, node, opState>>
      BY <3>7 DEF InferShape
    <3>8. ASSUME Reset PROVE FALSE
      BY <3>8 DEF Reset
    <3> QED BY <2>1, <3>1, <3>2, <3>3, <3>4, <3>5, <3>6, <3>7, <3>8 DEF Configure
  <2>2. CASE Step
    <3>1. ASSUME StepRefused PROVE UNCHANGED <<edge, mem, node, opState>>
      BY <3>1 DEF StepRefused, OneStep
    <3>2. ASSUME StepTaken \/ StepOverruns PROVE FALSE
      BY <3>2 DEF StepTaken, StepOverruns, OneStep
    <3> QED BY <2>2, <3>1, <3>2 DEF Step
  <2>3. ASSUME NEW s \in Signals, WriteSignal(s) PROVE FALSE
    BY <2>3 DEF WriteSignal
  <2> QED BY <2>1, <2>2, <2>3 DEF Next
<1> QED BY <1>1, PTL DEF Spec, FailedCallChangesNothing

-----------------------------------------------------------------------------
(* Slots.                                                                  *)

LEMMA InitSlots == ASSUME Init PROVE NoStaleBinding
<1>1. PICK b1, b2 \in Buffer, type \in Ops, n \in VectorLen, i \in {InEdge, NULL}, o \in {OutEdge, NULL} :
        /\ node = Prepared(type, i, o)
        /\ bound = (IF i = NULL THEN {} ELSE {<<"input", 0>>}) \cup
                   (IF o = NULL THEN {} ELSE {<<"output", 0>>})
  BY DEF Init
<1>2. /\ node.inputs = [Unbound EXCEPT ![0] = i]
      /\ node.outputs = [Unbound EXCEPT ![0] = o]
  BY <1>1 DEF Prepared, Created
<1> QED BY <1>1, <1>2, SlotZero DEF NoStaleBinding, Unbound

LEMMA ConfigureSlots == ASSUME TypeOK, NoStaleBinding, Configure PROVE NoStaleBinding'
<1> USE DEF NoStaleBinding
<1>1. ASSUME NEW e \in Edge, InitEdge(e) PROVE NoStaleBinding'
  BY <1>1 DEF InitEdge
<1>2. ASSUME NEW e \in Edge, NEW b \in Buffer, NEW t \in {"FLOAT32", "INT32"}, BindSignal(e, b, t)
      PROVE  NoStaleBinding'
  BY <1>2 DEF BindSignal
<1>3. ASSUME NEW e \in Edge, NEW dims \in Shapes, DeclareShape(e, dims) PROVE NoStaleBinding'
  BY <1>3 DEF DeclareShape
<1>4. ASSUME NEW type \in OpType, NEW param \in BOOLEAN, NEW state \in BOOLEAN, Create(type, param, state)
      PROVE  NoStaleBinding'
  <2>1. CASE GetOps(type) = NULL
    BY <1>4, <2>1 DEF Create
  <2>2. CASE GetOps(type) # NULL
    <3>1. node' = Created(type, param, state)
      BY <1>4, <2>2 DEF Create
    <3>2. node'.inputs = Unbound /\ node'.outputs = Unbound
      BY <3>1 DEF Created
    <3> QED BY <3>2 DEF Unbound
  <2> QED BY <2>1, <2>2
<1>5. ASSUME NEW e \in Edge, NEW slot \in 0 .. MaxSlots, BindInput(e, slot) PROVE NoStaleBinding'
  BY <1>5 DEF BindInput, TypeOK, SlotType
<1>6. ASSUME NEW e \in Edge, NEW slot \in 0 .. MaxSlots, BindOutput(e, slot) PROVE NoStaleBinding'
  BY <1>6 DEF BindOutput, TypeOK, SlotType
<1>7. ASSUME Validate \/ NodeInit \/ InferShape \/ Reset PROVE NoStaleBinding'
  BY <1>7 DEF Validate, NodeInit, InferShape, Reset
<1> QED BY <1>1, <1>2, <1>3, <1>4, <1>5, <1>6, <1>7 DEF Configure

\* smls_node_create leaves no edge of the node's former life in a slot, and
\* nothing but a bind puts one there.
THEOREM SlotsAreFresh == Spec => []NoStaleBinding
<1>1. Init => NoStaleBinding
  BY InitSlots
<1>2. TypeOK /\ NoStaleBinding /\ [Next]_vars => NoStaleBinding'
  <2> SUFFICES ASSUME TypeOK, NoStaleBinding, [Next]_vars PROVE NoStaleBinding'
    OBVIOUS
  <2>1. CASE Configure
    BY <2>1, ConfigureSlots
  <2>2. CASE Step
    BY <2>2 DEF Step, StepRefused, StepTaken, StepOverruns, OneStep, NoStaleBinding
  <2>3. ASSUME NEW s \in Signals, WriteSignal(s) PROVE NoStaleBinding'
    BY <2>3 DEF WriteSignal, NoStaleBinding
  <2>4. CASE UNCHANGED vars
    BY <2>4 DEF vars, NoStaleBinding
  <2> QED BY <2>1, <2>2, <2>3, <2>4 DEF Next
<1> QED BY <1>1, <1>2, TypeCorrect, PTL DEF Spec

-----------------------------------------------------------------------------
(* Histories of the difference equation.                                   *)

\* What a step, a reset or any other call does to the histories.
LEMMA FilterMoves ==
  ASSUME TypeInv, [Next]_vars
  PROVE  \/ UNCHANGED <<input_hist, output_hist, x, y>>
         \/ DiffEqReset
         \/ DiffEqStep /\ Input[0] \in Fraction
<1>1. ASSUME Configure PROVE UNCHANGED <<input_hist, output_hist, x, y>> \/ DiffEqReset
  BY <1>1 DEF Configure, InitEdge, BindSignal, DeclareShape, Create, BindInput, BindOutput,
              Validate, NodeInit, InferShape, Reset, opState
<1>2. ASSUME StepRefused \/ StepOverruns PROVE UNCHANGED <<input_hist, output_hist, x, y>>
  BY <1>2 DEF StepRefused, StepOverruns, opState
<1>3. ASSUME GainStep \/ IntegratorStep PROVE UNCHANGED <<input_hist, output_hist, x, y>>
  BY <1>3 DEF GainStep, IntegratorStep, opState
<1>4. ASSUME Step, StepTaken
      PROVE  GainStep \/ IntegratorStep \/ (DiffEqStep /\ Input[0] \in Fraction)
  <2>1. StepVerdict = "OK" /\ Effect
    BY <1>4 DEF StepTaken
  <2>2. node.ops \notin {"GAIN", "INTEGRATOR"} => Input[0] \in Fraction
    BY <1>4, <2>1, StepReads DEF Elements
  <2> QED BY <2>1, <2>2 DEF Effect
<1>5. ASSUME NEW s \in Signals, WriteSignal(s) PROVE UNCHANGED <<input_hist, output_hist, x, y>>
  BY <1>5 DEF WriteSignal, opState
<1>6. ASSUME UNCHANGED vars PROVE UNCHANGED <<input_hist, output_hist, x, y>>
  BY <1>6 DEF vars, opState
<1> QED BY <1>1, <1>2, <1>3, <1>4, <1>5, <1>6 DEF Next, Step

\* The buffer hist holds the latest samples of s.
Holds(hist, len, s) == DOMAIN hist = 0 .. len - 1 /\ \A i \in 0 .. len - 1 : hist[i] = Law!Past(s, i)

\* Shifting a sample in keeps up with a sequence that grew by it.
LEMMA ShiftHolds ==
  ASSUME NEW hist, NEW len \in Nat, NEW s, IsSeq(s), Holds(hist, len, s), NEW v
  PROVE  Holds(ShiftedIn(hist, v), len, Append(s, v))
<1> SUFFICES ASSUME NEW i \in 0 .. len - 1
             PROVE  ShiftedIn(hist, v)[i] = Law!Past(Append(s, v), i)
  BY DEF Holds, ShiftedIn
<1>1. Len(Append(s, v)) = Len(s) + 1 /\ Len(s) \in Nat
  BY AppendSeq DEF IsSeq
<1>2. CASE i = 0
  <2>1. Law!Past(Append(s, v), 0) = v
    BY <1>1, AppendSeq DEF Law!Past
  <2> QED BY <1>2, <2>1 DEF ShiftedIn, Holds
<1>3. CASE i # 0
  <2>1. ShiftedIn(hist, v)[i] = Law!Past(s, i - 1)
    BY <1>3 DEF ShiftedIn, Holds
  <2>2. CASE i < Len(s) + 1
    <3>1. Len(s) - (i - 1) \in 1 .. Len(s) /\ (Len(s) + 1) - i = Len(s) - (i - 1)
      BY <1>1, <1>3, <2>2
    <3>2. Append(s, v)[(Len(s) + 1) - i] = s[Len(s) - (i - 1)]
      BY <3>1, AppendSeq
    <3> QED BY <1>1, <1>3, <2>1, <2>2, <3>2 DEF Law!Past
  <2>3. CASE ~(i < Len(s) + 1)
    BY <1>1, <1>3, <2>1, <2>3 DEF Law!Past
  <2> QED BY <2>2, <2>3
<1> QED BY <1>2, <1>3

\* A cleared buffer is the past of an empty sequence.
LEMMA ClearedHolds ==
  ASSUME NEW len \in Int
  PROVE  Holds([i \in 0 .. len - 1 |-> Zero], len, <<>>)
BY DEF Holds, Law!Past, Law!Zero, Law!Whole, Zero, Whole

\* The inductive form of HistoryIsPast: the buffers have their lengths and what
\* they are compared with are sequences.
HistoryInv ==
  /\ IsSeq(x) /\ IsSeq(y)
  /\ Holds(input_hist, NumOrder, x)
  /\ Holds(output_hist, DenOrder - 1, y)

LEMMA ResetHolds ==
  ASSUME input_hist' = [i \in 0 .. NumOrder - 1 |-> Zero],
         output_hist' = [j \in 0 .. DenOrder - 2 |-> Zero],
         x' = <<>>, y' = <<>>
  PROVE  HistoryInv'
<1>1. NumOrder \in Int /\ DenOrder - 1 \in Int /\ (DenOrder - 1) - 1 = DenOrder - 2
  BY RuntimeAssumption
<1>2. Holds(input_hist', NumOrder, <<>>)
  BY <1>1, ClearedHolds
<1>3. Holds(output_hist', DenOrder - 1, <<>>)
  BY <1>1, ClearedHolds
<1> QED BY <1>2, <1>3, EmptyIsSeq DEF HistoryInv

LEMMA HistoryInvariance == Spec => []HistoryInv
<1>1. Init => HistoryInv
  <2> SUFFICES ASSUME Init PROVE HistoryInv
    OBVIOUS
  <2>1. NumOrder \in Int /\ DenOrder - 1 \in Int /\ (DenOrder - 1) - 1 = DenOrder - 2
    BY RuntimeAssumption
  <2>2. Holds(input_hist, NumOrder, <<>>)
    BY <2>1, ClearedHolds DEF Init
  <2>3. Holds(output_hist, DenOrder - 1, <<>>)
    BY <2>1, ClearedHolds DEF Init
  <2> QED BY <2>2, <2>3, EmptyIsSeq DEF Init, HistoryInv
<1>2. TypeInv /\ HistoryInv /\ [Next]_vars => HistoryInv'
  <2> SUFFICES ASSUME TypeInv, HistoryInv, [Next]_vars PROVE HistoryInv'
    OBVIOUS
  <2>1. CASE UNCHANGED <<input_hist, output_hist, x, y>>
    BY <2>1 DEF HistoryInv
  <2>2. CASE DiffEqReset
    BY <2>2, ResetHolds DEF DiffEqReset
  <2>3. CASE DiffEqStep
    <3>1. PICK v, out : /\ input_hist' = ShiftedIn(input_hist, v) /\ x' = Append(x, v)
                        /\ output_hist' = ShiftedIn(output_hist, out) /\ y' = Append(y, out)
      BY <2>3 DEF DiffEqStep
    <3>2. NumOrder \in Nat /\ DenOrder - 1 \in Nat
      BY RuntimeAssumption
    <3>3. Holds(input_hist', NumOrder, x')
      BY <3>1, <3>2, ShiftHolds DEF HistoryInv
    <3>4. Holds(output_hist', DenOrder - 1, y')
      BY <3>1, <3>2, ShiftHolds DEF HistoryInv
    <3>5. IsSeq(x') /\ IsSeq(y')
      BY <3>1, AppendSeq DEF HistoryInv
    <3> QED BY <3>3, <3>4, <3>5 DEF HistoryInv
  <2> QED BY <2>1, <2>2, <2>3, FilterMoves
<1> QED BY <1>1, <1>2, Typed, PTL DEF Spec

\* The two histories of a difference equation are always the latest samples since
\* its last reset, zero before the first, whatever was refused, re-created or
\* stepped with another operator in between.
THEOREM HistoriesArePast == Spec => []HistoryIsPast
<1>1. HistoryInv => HistoryIsPast
  BY RuntimeAssumption DEF HistoryInv, HistoryIsPast, Holds
<1> QED BY <1>1, HistoryInvariance, PTL

-----------------------------------------------------------------------------
(* The recurrence.                                                         *)

\* The instance of Recurrence has operators of its own; they are the same.
LEMMA LawArithmetic ==
  ASSUME NEW p, NEW q
  PROVE  /\ Law!Add(p, q) = Add(p, q) /\ Law!Mul(p, q) = Mul(p, q) /\ Law!Sub(p, q) = Sub(p, q)
         /\ Law!Div(p, q) = Div(p, q) /\ Law!Zero = Zero
<1>1. Law!Gcd = Gcd
  BY DEF Law!Gcd, Gcd
<1>2. \A n, d : Law!Quotient(n, d) = Quotient(n, d)
  BY <1>1 DEF Law!Quotient, Quotient, Law!Magnitude, Magnitude, Law!NaN, NaN
<1> QED
  BY <1>2 DEF Law!Add, Law!Mul, Law!Sub, Law!Div, Law!Neg, Law!Zero, Law!Whole, Law!IsNumber, Law!NaN,
              Add, Mul, Sub, Div, Neg, Zero, Whole, IsNumber, NaN

\* The law's two sums are the last of their partial sums.
LEMMA LawForward ==
  ASSUME NEW xs, NEW n \in Nat, NEW v, NEW s \in [0 - 1 .. n -> Fraction], Sums(s, v, 0, n),
         \A i \in 0 .. n : v[i] = Mul(Num[i], Law!Past(xs, i))
  PROVE  Law!SumOver(0, n, LAMBDA i : Law!Mul(Num[i], Law!Past(xs, i))) = s[n]
<1> DEFINE e(i) == Law!Mul(Num[i], Law!Past(xs, i))
           P(f) == f = [i \in 0 - 1 .. n |-> IF i < 0 THEN Law!Zero ELSE Law!Add(f[i - 1], e(i))]
           z == CHOOSE f : P(f)
<1>1. Law!SumOver(0, n, e) = IF n < 0 THEN Law!Zero ELSE z[n]
  BY DEF Law!SumOver, Law!For
<1>2. \A i \in 0 .. n : e(i) = v[i]
  BY LawArithmetic
<1> HIDE DEF e
<1>3. \A i \in 0 - 1 .. n : ~(i < 0) => i \in 0 .. n
  OBVIOUS
<1>4. P(s)
  <2>1. \A i \in 0 - 1 .. n : s[i] = IF i < 0 THEN Law!Zero ELSE Law!Add(s[i - 1], e(i))
    BY <1>2, <1>3, LawArithmetic DEF Sums
  <2> QED
    BY <2>1
<1> HIDE DEF P
<1>5. P(z)
  BY <1>4
<1> HIDE DEF z
<1>6. Sums(z, v, 0, n)
  BY <1>2, <1>3, <1>5, LawArithmetic DEF P, Sums
<1>7. n \in 0 - 1 .. n /\ n \in Int /\ 0 \in Int
  OBVIOUS
<1>8. z[n] = s[n]
  BY <1>6, <1>7, SumsAgree
<1> QED
  BY <1>1, <1>8 DEF e

LEMMA LawFeedback ==
  ASSUME NEW ys, NEW m \in Nat, NEW v, NEW s \in [1 - 1 .. m -> Fraction], Sums(s, v, 1, m),
         \A j \in 1 .. m : v[j] = Mul(Den[j], Law!Past(ys, j - 1))
  PROVE  Law!SumOver(1, m, LAMBDA j : Law!Mul(Den[j], Law!Past(ys, j - 1))) = s[m]
<1> DEFINE e(j) == Law!Mul(Den[j], Law!Past(ys, j - 1))
           P(f) == f = [i \in 1 - 1 .. m |-> IF i < 1 THEN Law!Zero ELSE Law!Add(f[i - 1], e(i))]
           z == CHOOSE f : P(f)
<1>1. Law!SumOver(1, m, e) = IF m < 1 THEN Law!Zero ELSE z[m]
  BY DEF Law!SumOver, Law!For
<1>2. \A j \in 1 .. m : e(j) = v[j]
  BY LawArithmetic
<1> HIDE DEF e
<1>3. \A i \in 1 - 1 .. m : ~(i < 1) => i \in 1 .. m
  OBVIOUS
<1>4. P(s)
  <2>1. \A i \in 1 - 1 .. m : s[i] = IF i < 1 THEN Law!Zero ELSE Law!Add(s[i - 1], e(i))
    BY <1>2, <1>3, LawArithmetic DEF Sums
  <2> QED
    BY <2>1
<1> HIDE DEF P
<1>5. P(z)
  BY <1>4
<1> HIDE DEF z
<1>6. Sums(z, v, 1, m)
  BY <1>2, <1>3, <1>5, LawArithmetic DEF P, Sums
<1>7. m \in 1 - 1 .. m /\ m \in Int /\ 1 \in Int
  OBVIOUS
<1>8. z[m] = s[m]
  BY <1>6, <1>7, SumsAgree
<1>9. CASE m < 1
  BY <1>1, <1>7, <1>9, LawArithmetic DEF Sums, e
<1>10. CASE ~(m < 1)
  BY <1>1, <1>8, <1>10 DEF e
<1> QED
  BY <1>9, <1>10

LEMMA LawOrders == Law!Order(Num) = NumOrder /\ Law!Order(Den) = DenOrder
<1>1. /\ NumOrder - 1 \in Int /\ ~(0 > NumOrder - 1) /\ (NumOrder - 1) - 0 + 1 = NumOrder
      /\ DenOrder - 1 \in Int /\ ~(0 > DenOrder - 1) /\ (DenOrder - 1) - 0 + 1 = DenOrder
  BY RuntimeAssumption
<1>2. Cardinality(0 .. NumOrder - 1) = NumOrder /\ Cardinality(0 .. DenOrder - 1) = DenOrder
  BY <1>1, FS_Interval
<1>3. DOMAIN Num = 0 .. NumOrder - 1 /\ DOMAIN Den = 0 .. DenOrder - 1
  BY SampleAssumption
<1>4. \A S : Law!Cardinality(S) = Cardinality(S)
  BY DEF Law!Cardinality, Cardinality, Law!IsFiniteSet, IsFiniteSet
<1> QED
  BY <1>2, <1>3, <1>4 DEF Law!Order

\* From histories that hold the past, smls_diff_eq_step computes the recurrence.
LEMMA StepIsRecurrence ==
  ASSUME NEW inputs \in [0 .. NumOrder - 1 -> Fraction], output_hist \in [0 .. DenOrder - 2 -> Fraction],
         NEW xs, Holds(inputs, NumOrder, xs), Holds(output_hist, DenOrder - 1, y)
  PROVE  Recursion(inputs) = Law!Output(xs, y)
<1>1. PICK s \in [0 - 1 .. NumOrder - 1 -> Fraction], t \in [1 - 1 .. DenOrder - 1 -> Fraction] :
        /\ Sums(s, Feedforward(inputs), 0, NumOrder - 1)
        /\ Sums(t, Feedback, 1, DenOrder - 1)
        /\ Recursion(inputs) = Div(Sub(s[NumOrder - 1], t[DenOrder - 1]), Den[0])
  BY RecursionIsDifference
<1>2. \A i \in 0 .. NumOrder - 1 : Feedforward(inputs)[i] = Mul(Num[i], Law!Past(xs, i))
  BY DEF Feedforward, Holds
<1>3. \A j \in 1 .. DenOrder - 1 : Feedback[j] = Mul(Den[j], Law!Past(y, j - 1))
  <2>1. \A j \in 1 .. DenOrder - 1 : j - 1 \in 0 .. (DenOrder - 1) - 1
    BY RuntimeAssumption
  <2> QED
    BY <2>1 DEF Feedback, Holds
<1> DEFINE n == NumOrder - 1
           m == DenOrder - 1
<1>4. n \in Nat /\ m \in Nat
  BY RuntimeAssumption
<1> HIDE DEF n, m
<1>5. Law!SumOver(0, n, LAMBDA i : Law!Mul(Num[i], Law!Past(xs, i))) = s[n]
  BY <1>1, <1>2, <1>4, LawForward DEF n
<1>6. Law!SumOver(1, m, LAMBDA j : Law!Mul(Den[j], Law!Past(y, j - 1))) = t[m]
  BY <1>1, <1>3, <1>4, LawFeedback DEF m
<1>7. Law!Order(Num) - 1 = n /\ Law!Order(Den) - 1 = m
  BY LawOrders DEF n, m
<1>8. Law!Output(xs, y) = Law!Div(Law!Sub(s[n], t[m]), Den[0])
  BY <1>5, <1>6, <1>7 DEF Law!Output
<1> QED
  BY <1>1, <1>8, LawArithmetic DEF n, m

LEMMA FeedsOne ==
  ASSUME TypeInv, HistoryInv, DiffEqStep, Input[0] \in Fraction
  PROVE  Law!Feed
<1> DEFINE v == Input[0]
           inputs == ShiftedIn(input_hist, v)
<1>1. x' = Append(x, v) /\ y' = Append(y, Recursion(inputs))
  BY DEF DiffEqStep
<1>2. /\ v \in Fraction /\ x \in Seq(Fraction) /\ NumOrder \in Nat
      /\ input_hist \in [0 .. NumOrder - 1 -> Fraction] /\ output_hist \in [0 .. DenOrder - 2 -> Fraction]
      /\ Holds(input_hist, NumOrder, x) /\ Holds(output_hist, DenOrder - 1, y) /\ IsSeq(x)
  BY RuntimeAssumption DEF TypeInv, SampleType, FilterType, HistoryInv
<1> HIDE DEF v
<1>3. inputs \in [0 .. NumOrder - 1 -> Fraction]
  BY <1>2, ShiftedType
<1>4. Holds(inputs, NumOrder, x')
  BY <1>1, <1>2, ShiftHolds
<1> HIDE DEF inputs
<1>5. Recursion(inputs) = Law!Output(x', y)
  BY <1>2, <1>3, <1>4, StepIsRecurrence
<1>6. Len(x') = Len(x) + 1
  BY <1>1, <1>2
<1>7. SubSeq(x', 1, Len(x)) = x
  BY <1>1, <1>2
<1> QED
  BY <1>1, <1>5, <1>6, <1>7 DEF Law!Feed

\* smls_diff_eq_step and smls_diff_eq_reset implement the recurrence of
\* smls_diff_eq.h over every sample since the last reset, for filters of every
\* order: two buffers of the order's length and a reset that clears them are
\* enough, and no other call counts as a sample or a reset.
THEOREM ImplementsRecurrence == Spec => RefinesRecurrence
<1>1. Init => Law!Init
  BY DEF Init, Law!Init
<1>2. TypeInv /\ HistoryInv /\ [Next]_vars => [Law!Feed \/ Law!Reset]_<<x, y>>
  <2> SUFFICES ASSUME TypeInv, HistoryInv, [Next]_vars PROVE [Law!Feed \/ Law!Reset]_<<x, y>>
    OBVIOUS
  <2>1. CASE UNCHANGED <<input_hist, output_hist, x, y>>
    BY <2>1
  <2>2. CASE DiffEqReset
    BY <2>2 DEF DiffEqReset, Law!Reset
  <2>3. CASE DiffEqStep /\ Input[0] \in Fraction
    BY <2>3, FeedsOne
  <2> QED BY <2>1, <2>2, <2>3, FilterMoves
<1> QED BY <1>1, <1>2, Typed, HistoryInvariance, PTL DEF Spec, RefinesRecurrence, Law!Spec

-----------------------------------------------------------------------------
(* The integrator.                                                         *)

\* What each array taken has at i, zero where it is too short.
Element(t, i) == [k \in 1 .. Len(t) |-> IF i \in DOMAIN t[k] THEN t[k][i] ELSE Zero]

\* One more term.
LEMMA SumGrows ==
  ASSUME NEW n \in Nat, NEW s \in [0 .. n -> Fraction], NEW v, NEW w,
         Sums(s, v, 1, n), \A k \in 1 .. n : w[k] = v[k], w[n + 1] \in Fraction
  PROVE  \E r \in [0 .. n + 1 -> Fraction] : Sums(r, w, 1, n + 1) /\ r[n + 1] = Add(s[n], w[n + 1])
<1>2. \A k \in 0 .. n + 1 : k # n + 1 => k \in 0 .. n
  <2> TAKE k \in 0 .. n + 1
  <2>1. k \in Int /\ n \in Int /\ 0 <= k /\ k <= n + 1
    OBVIOUS
  <2> QED
    BY <2>1
<1>t. s[n] \in Fraction /\ w[n + 1] \in Fraction
  <2>1. n \in 0 .. n
    OBVIOUS
  <2> QED
    BY <2>1
<1> DEFINE last == Add(s[n], w[n + 1])
           r == [k \in 0 .. n + 1 |-> IF k = n + 1 THEN last ELSE s[k]]
<1>1. last \in Fraction
  BY <1>t, Closed
<1> HIDE DEF last
<1>3. r \in [0 .. n + 1 -> Fraction] /\ r[n + 1] = last /\ r[n] = s[n] /\ \A k \in 0 .. n : r[k] = s[k]
  BY <1>1, <1>2
<1> HIDE DEF r
<1>4. ASSUME NEW k \in 1 - 1 .. n + 1
      PROVE  r[k] = IF k < 1 THEN Zero ELSE Add(r[k - 1], w[k])
  <2>1. CASE k = n + 1
    <3>1. ~(k < 1) /\ k - 1 = n
      BY <2>1
    <3>2. r[k] = last /\ r[k - 1] = s[n]
      BY <1>3, <2>1, <3>1
    <3> QED
      BY <2>1, <3>1, <3>2 DEF last
  <2>2. CASE k # n + 1
    <3>1. k \in 1 - 1 .. n /\ k \in 0 .. n /\ (~(k < 1) => k \in 1 .. n /\ k - 1 \in 0 .. n)
      BY <2>2
    <3>2. s[k] = IF k < 1 THEN Zero ELSE Add(s[k - 1], v[k])
      BY <3>1 DEF Sums
    <3> QED
      BY <1>3, <3>1, <3>2
  <2> QED
    BY <2>1, <2>2
<1>5. Sums(r, w, 1, n + 1)
  BY <1>4 DEF Sums
<1> QED
  BY <1>3, <1>5 DEF last

\* SumOver of one element of every array is the last of the partial sums.
LEMMA ElementSum ==
  ASSUME NEW t, NEW i, Len(t) \in Nat, NEW s, Sums(s, Element(t, i), 1, Len(t)),
         NEW r \in [0 .. Len(t) -> Fraction], Sums(r, Element(t, i), 1, Len(t))
  PROVE  SumOver(1, Len(t), LAMBDA k : IF i \in DOMAIN t[k] THEN t[k][i] ELSE Zero) = s[Len(t)]
<1> DEFINE n == Len(t)
           e(k) == IF i \in DOMAIN t[k] THEN t[k][i] ELSE Zero
           P(f) == f = [k \in 1 - 1 .. n |-> IF k < 1 THEN Zero ELSE Add(f[k - 1], e(k))]
           z == CHOOSE f : P(f)
<1>1. SumOver(1, n, e) = IF n < 1 THEN Zero ELSE z[n]
  BY DEF SumOver, For
<1>2. \A k \in 1 - 1 .. n : ~(k < 1) => Element(t, i)[k] = e(k)
  BY DEF Element
<1> HIDE DEF e
<1>3. P(r)
  <2>1. r \in [1 - 1 .. n -> Fraction]
    OBVIOUS
  <2>2. \A k \in 1 - 1 .. n : r[k] = IF k < 1 THEN Zero ELSE Add(r[k - 1], e(k))
    BY <1>2 DEF Sums
  <2> QED
    BY <2>1, <2>2
<1> HIDE DEF P
<1>4. P(z)
  BY <1>3
<1> HIDE DEF z
<1>5. Sums(z, Element(t, i), 1, n)
  BY <1>2, <1>4 DEF P, Sums
<1>6. n \in 1 - 1 .. n /\ n \in Int /\ 1 \in Int
  OBVIOUS
<1>7. z[n] = s[n]
  BY <1>5, <1>6, SumsAgree
<1>8. CASE n < 1
  BY <1>1, <1>6, <1>8 DEF Sums, e
<1>9. CASE ~(n < 1)
  BY <1>1, <1>7, <1>9 DEF e
<1> QED
  BY <1>8, <1>9

\* The inductive form of IntegratorIsSum.
SumInv ==
  \A i \in DOMAIN acc :
    \E s \in [0 .. Len(taken) -> Fraction] :
      /\ Sums(s, Element(taken, i), 1, Len(taken))
      /\ acc[i] = Mul(Dt, s[Len(taken)])

LEMMA InitSum == ASSUME Init PROVE SumInv
<1> SUFFICES ASSUME NEW i \in DOMAIN acc
             PROVE  \E s \in [0 .. Len(taken) -> Fraction] :
                      Sums(s, Element(taken, i), 1, Len(taken)) /\ acc[i] = Mul(Dt, s[Len(taken)])
  BY DEF SumInv
<1> DEFINE s == [k \in 0 .. 0 |-> Zero]
<1>1. Len(taken) = 0 /\ acc[i] = Zero
  BY DEF Init
<1>2. s \in [0 .. 0 -> Fraction] /\ s[0] = Zero
  BY ZeroIsNeutral
<1>3. Sums(s, Element(taken, i), 1, 0)
  BY <1>2 DEF Sums
<1>4. Mul(Dt, Zero) = Zero
  BY SampleAssumption, ZeroIsNeutral
<1> HIDE DEF s
<1> QED
  BY <1>1, <1>2, <1>3, <1>4

\* Only the integrator's step moves its state.
LEMMA SumMoves ==
  ASSUME TypeInv, [Next]_vars
  PROVE  \/ UNCHANGED <<acc, taken>>
         \/ /\ IntegratorStep /\ \A i \in Elements : Input[i] \in Fraction
<1>1. ASSUME Configure PROVE UNCHANGED <<acc, taken>>
  BY <1>1 DEF Configure, InitEdge, BindSignal, DeclareShape, Create, BindInput, BindOutput,
              Validate, NodeInit, InferShape, Reset, opState
<1>2. ASSUME StepRefused \/ StepOverruns PROVE UNCHANGED <<acc, taken>>
  BY <1>2 DEF StepRefused, StepOverruns, opState
<1>3. ASSUME GainStep \/ DiffEqStep PROVE UNCHANGED <<acc, taken>>
  BY <1>3 DEF GainStep, DiffEqStep, opState
<1>4. ASSUME Step, StepTaken PROVE \A i \in Elements : Input[i] \in Fraction
  BY <1>4, StepReads DEF StepTaken
<1>5. ASSUME StepTaken PROVE GainStep \/ IntegratorStep \/ DiffEqStep
  BY <1>5 DEF StepTaken, Effect
<1>6. ASSUME NEW s \in Signals, WriteSignal(s) PROVE UNCHANGED <<acc, taken>>
  BY <1>6 DEF WriteSignal, opState
<1>7. ASSUME UNCHANGED vars PROVE UNCHANGED <<acc, taken>>
  BY <1>7 DEF vars, opState
<1> QED BY <1>1, <1>2, <1>3, <1>4, <1>5, <1>6, <1>7 DEF Next, Step

LEMMA IntegratorSum ==
  ASSUME TypeInv, SumInv, IntegratorStep, \A i \in Elements : Input[i] \in Fraction
  PROVE  SumInv'
<1> DEFINE n == Len(taken)
           in == [k \in Elements |-> Input[k]]
<1>1. /\ taken' = Append(taken, in) /\ IsSeq(taken) /\ n \in Nat
      /\ acc' = [i \in DOMAIN acc |-> IF i \in Elements THEN Add(acc[i], Mul(Input[i], Dt)) ELSE acc[i]]
  BY DEF TypeInv, SampleType, SumType, IsSeq, IntegratorStep
<1>2. DOMAIN in = Elements /\ \A i \in Elements : in[i] = Input[i]
  OBVIOUS
<1> HIDE DEF in
<1>3. Len(taken') = n + 1 /\ taken'[n + 1] = in /\ \A k \in 1 .. n : taken'[k] = taken[k]
  BY <1>1, AppendSeq
<1>4. DOMAIN acc' = DOMAIN acc
  BY <1>1
<1> HIDE DEF n
<1> SUFFICES ASSUME NEW i \in DOMAIN acc
             PROVE  \E r \in [0 .. n + 1 -> Fraction] :
                      Sums(r, Element(taken', i), 1, n + 1) /\ acc'[i] = Mul(Dt, r[n + 1])
  BY <1>3, <1>4 DEF SumInv
<1>5. PICK s \in [0 .. n -> Fraction] : Sums(s, Element(taken, i), 1, n) /\ acc[i] = Mul(Dt, s[n])
  BY DEF SumInv, n
<1> DEFINE term == IF i \in Elements THEN Input[i] ELSE Zero
           w == Element(taken', i)
<1>6. term \in Fraction /\ s[n] \in Fraction
  BY <1>1, ZeroIsNeutral
<1>7. w[n + 1] = term
  BY <1>1, <1>2, <1>3 DEF Element
<1>8. \A k \in 1 .. n : w[k] = Element(taken, i)[k]
  BY <1>1, <1>3 DEF Element, n
<1> HIDE DEF w
<1>9. PICK r \in [0 .. n + 1 -> Fraction] : Sums(r, w, 1, n + 1) /\ r[n + 1] = Add(s[n], term)
  <2>1. w[n + 1] \in Fraction
    BY <1>6, <1>7
  <2>2. \E r \in [0 .. n + 1 -> Fraction] : Sums(r, w, 1, n + 1) /\ r[n + 1] = Add(s[n], w[n + 1])
    BY <1>1, <1>5, <1>8, <2>1, SumGrows
  <2> QED
    BY <1>7, <2>2
<1>10. acc'[i] = Mul(Dt, Add(s[n], term))
  <2>1. CASE i \in Elements
    <3> DEFINE a == s[n]
               b == Input[i]
    <3>1. a \in Fraction /\ b \in Fraction /\ Dt \in Fraction /\ term = b
      BY <1>6, <2>1, SampleAssumption
    <3>2. acc'[i] = Add(Mul(Dt, a), Mul(b, Dt))
      BY <1>1, <1>5, <2>1
    <3> HIDE DEF a, b, term
    <3>3. Mul(b, Dt) = Mul(Dt, b) /\ Mul(Dt, Add(a, b)) = Add(Mul(Dt, a), Mul(Dt, b))
      BY <3>1, AddCommutes, Distributes
    <3> QED
      BY <3>1, <3>2, <3>3 DEF a
  <2>2. CASE i \notin Elements
    BY <1>1, <1>5, <1>6, <2>2, ZeroIsNeutral
  <2> QED
    BY <2>1, <2>2
<1> QED
  BY <1>9, <1>10 DEF w

\* Element i of the integrator's state is dt times the sum of element i of every
\* array it took, from the first: arrays of different lengths between, refused
\* steps and re-creations neither add nor lose a sample. The code adds dt times
\* each sample; the sum is the same for exact fractions.
THEOREM IntegratesSums == Spec => []IntegratorIsSum
<1>1. Init => SumInv
  BY InitSum
<1>2. TypeInv /\ SumInv /\ [Next]_vars => SumInv'
  <2> SUFFICES ASSUME TypeInv, SumInv, [Next]_vars PROVE SumInv'
    OBVIOUS
  <2>1. CASE UNCHANGED <<acc, taken>>
    BY <2>1 DEF SumInv
  <2>2. CASE IntegratorStep /\ \A i \in Elements : Input[i] \in Fraction
    BY <2>2, IntegratorSum
  <2> QED BY <2>1, <2>2, SumMoves
<1>3. TypeInv /\ SumInv => IntegratorIsSum
  <2> SUFFICES ASSUME TypeInv, SumInv, NEW i \in DOMAIN acc
               PROVE  acc[i] = Mul(Dt, SumOver(1, Len(taken),
                                 LAMBDA k : IF i \in DOMAIN taken[k] THEN taken[k][i] ELSE Zero))
    BY DEF IntegratorIsSum
  <2>1. PICK s \in [0 .. Len(taken) -> Fraction] :
          Sums(s, Element(taken, i), 1, Len(taken)) /\ acc[i] = Mul(Dt, s[Len(taken)])
    BY DEF SumInv
  <2>2. Len(taken) \in Nat
    BY DEF TypeInv, SampleType, SumType, IsSeq
  <2>3. SumOver(1, Len(taken), LAMBDA k : IF i \in DOMAIN taken[k] THEN taken[k][i] ELSE Zero) = s[Len(taken)]
    BY <2>1, <2>2, ElementSum
  <2> QED
    BY <2>1, <2>3
<1> QED BY <1>1, <1>2, <1>3, Typed, PTL DEF Spec

-----------------------------------------------------------------------------
(* Inferred shapes.                                                        *)

\* most bounds every dimension a shape may have from where it is set up, and
\* room[d] is what the largest dimensions up to d multiply to.
Bounds(most, room) ==
  /\ most \in [Dim -> Nat \ {0}] /\ room \in [-1 .. MaxDim - 1 -> Nat]
  /\ room[-1] = 1
  /\ \A d \in Dim : room[d] = room[d - 1] * most[d] /\ room[d] < CountMod
  /\ VectorLen \subseteq 1 .. most[0]
  /\ \A dims \in Shapes : \A i \in 1 .. Len(dims) : dims[i] \in 1 .. most[i - 1]

\* No declared dimension is zero, and no product of declared dimensions wraps.
NoWrap == \E most, room : Bounds(most, room)

LEMMA ProductMonotone ==
  ASSUME NEW a \in Nat, NEW b \in Nat, NEW c \in Nat, NEW d \in Nat, a <= b, c <= d
  PROVE  a * c <= b * d
<1>1. a * c <= b * c
  <2>1. (b - a) * c >= 0 /\ (b - a) * c = b * c - a * c /\ a * c \in Int /\ b * c \in Int
    OBVIOUS
  <2> QED BY <2>1
<1>2. b * c <= b * d
  <2>1. b * (d - c) >= 0 /\ b * (d - c) = b * d - b * c /\ b * d \in Int /\ b * c \in Int
    OBVIOUS
  <2> QED BY <2>1
<1>3. a * c \in Int /\ b * c \in Int /\ b * d \in Int
  OBVIOUS
<1> QED BY <1>1, <1>2, <1>3

\* Within the bounds, larger dimensions mean more elements.
LEMMA CountMonotone ==
  ASSUME NEW most, NEW room, Bounds(most, room), NEW s \in EdgeType, NEW r \in EdgeType,
         \A d \in Dim : s.shape[d] <= r.shape[d] /\ r.shape[d] <= most[d]
  PROVE  ElementCount(s) <= ElementCount(r)
<1>1. PICK P : Counts(P, s) /\ ElementCount(s) = P[MaxDim - 1]
  BY CountIsLast
<1>2. PICK Q : Counts(Q, r) /\ ElementCount(r) = Q[MaxDim - 1]
  BY CountIsLast
<1>3. MaxDim \in Nat /\ CountMod \in Nat \ {0} /\ Dim = 0 .. MaxDim - 1
  BY EdgesAssumption DEF Dim
<1>4. /\ P \in [-1 .. MaxDim - 1 -> Nat] /\ Q \in [-1 .. MaxDim - 1 -> Nat] /\ P[-1] = 1 /\ Q[-1] = 1
      /\ \A d \in Dim : P[d] = (P[d - 1] * s.shape[d]) % CountMod /\ Q[d] = (Q[d - 1] * r.shape[d]) % CountMod
  <2>1. -1 \in -1 .. MaxDim - 1 /\ \A d \in Dim : d \in -1 .. MaxDim - 1 /\ d # -1
    BY <1>3
  <2> QED
    BY <1>1, <1>2, <2>1 DEF Counts
<1>5. /\ most \in [Dim -> Nat] /\ room \in [-1 .. MaxDim - 1 -> Nat] /\ room[-1] = 1
      /\ \A d \in Dim : room[d] = room[d - 1] * most[d] /\ room[d] < CountMod
  BY DEF Bounds
<1>6. s.shape \in [Dim -> Nat] /\ r.shape \in [Dim -> Nat]
  BY DEF EdgeType
<1> DEFINE T == {k \in Nat : k - 1 <= MaxDim - 1 => P[k - 1] <= Q[k - 1] /\ Q[k - 1] <= room[k - 1]}
<1>7. 0 \in T
  BY <1>4, <1>5
<1>8. ASSUME NEW k \in T PROVE k + 1 \in T
  <2> SUFFICES ASSUME k <= MaxDim - 1 PROVE P[k] <= Q[k] /\ Q[k] <= room[k]
    OBVIOUS
  <2>1. k \in Dim /\ k - 1 \in -1 .. MaxDim - 1
    BY <1>3
  <2>2. P[k - 1] \in Nat /\ Q[k - 1] \in Nat /\ room[k - 1] \in Nat /\ P[k - 1] <= Q[k - 1] /\ Q[k - 1] <= room[k - 1]
    BY <1>4, <1>5, <2>1
  <2>3. s.shape[k] \in Nat /\ r.shape[k] \in Nat /\ most[k] \in Nat /\ s.shape[k] <= r.shape[k] /\ r.shape[k] <= most[k]
    BY <1>5, <1>6, <2>1
  <2> DEFINE a == P[k - 1] * s.shape[k]
             b == Q[k - 1] * r.shape[k]
  <2>4. a \in Nat /\ b \in Nat
    BY <2>2, <2>3
  <2>5. a <= b
    BY <2>2, <2>3, ProductMonotone
  <2>6. b <= room[k] /\ room[k] < CountMod /\ room[k] \in Nat
    <3>1. b <= room[k - 1] * most[k]
      BY <2>2, <2>3, ProductMonotone
    <3>2. room[k] = room[k - 1] * most[k] /\ room[k] < CountMod /\ room[k] \in Nat
      BY <1>3, <1>5, <2>1
    <3> QED
      BY <3>1, <3>2
  <2>7. P[k] = a % CountMod /\ Q[k] = b % CountMod
    BY <1>4, <2>1
  <2> HIDE DEF a, b
  <2>8. a < CountMod /\ b < CountMod
    BY <1>3, <2>4, <2>5, <2>6
  <2>9. a % CountMod = a /\ b % CountMod = b
    BY <1>3, <2>4, <2>8
  <2> QED
    BY <2>5, <2>6, <2>7, <2>9
<1> HIDE DEF T
<1>9. MaxDim \in T
  BY <1>3, <1>7, <1>8, Induct DEF T
<1> QED
  BY <1>1, <1>2, <1>3, <1>9 DEF T

\* Dimensions stay within the bounds, and after an inference the output's shape
\* is the input's as far as the input's rank goes.
ShapeInv(most) == \A e \in Edge, d \in Dim : edge[e].shape[d] \in 1 .. most[d]

InferInv ==
  inferred =>
    /\ In \in Edge /\ Out \in Edge /\ Proper(edge[In])
    /\ \A d \in Dim : d < edge[In].rank => edge[Out].shape[d] = edge[In].shape[d]

LEMMA InitShapes ==
  ASSUME NEW most, NEW room, Bounds(most, room), Init
  PROVE  ShapeInv(most) /\ InferInv
<1>1. PICK b1, b2 \in Buffer, n \in VectorLen : edge = Wired(b1, b2, n)
  BY DEF Init
<1>2. ~inferred
  BY DEF Init
<1>3. n \in 1 .. most[0] /\ most \in [Dim -> Nat \ {0}]
  BY DEF Bounds
<1>4. \A e \in Edge : edge[e].shape = [d \in Dim |-> IF d = 0 THEN n ELSE 1]
  BY <1>1 DEF Wired
<1>5. \A e \in Edge, d \in Dim : edge[e].shape[d] = IF d = 0 THEN n ELSE 1
  BY <1>4
<1>6. \A d \in Dim : 1 \in 1 .. most[d]
  BY <1>3
<1>7. ShapeInv(most)
  BY <1>3, <1>5, <1>6 DEF ShapeInv
<1> QED
  BY <1>2, <1>7 DEF InferInv

LEMMA ConfigureShapes ==
  ASSUME NEW most, NEW room, Bounds(most, room), TypeInv, ShapeInv(most), Configure
  PROVE  ShapeInv(most)'
<1> USE DEF ShapeInv
<1>1. most \in [Dim -> Nat \ {0}] /\ edge \in [Edge -> EdgeType]
  BY DEF Bounds, TypeInv, WiringType
<1>2. ASSUME NEW e \in Edge, InitEdge(e) PROVE ShapeInv(most)'
  <2>1. Initialized(edge[e]).shape = [d \in Dim |-> 1]
    BY <1>1 DEF Initialized, EdgeType
  <2>2. edge' = [edge EXCEPT ![e] = Initialized(edge[e])]
    BY <1>2 DEF InitEdge, EdgeInit
  <2> QED BY <1>1, <2>1, <2>2
<1>3. ASSUME NEW e \in Edge, NEW b \in Buffer, NEW t \in {"FLOAT32", "INT32"}, BindSignal(e, b, t)
      PROVE  ShapeInv(most)'
  <2>1. \A f \in Edge : edge'[f].shape = edge[f].shape
    BY <1>1, <1>3 DEF BindSignal, SignalBind, EdgeType
  <2> QED BY <2>1
<1>4. ASSUME NEW e \in Edge, NEW dims \in Shapes, DeclareShape(e, dims) PROVE ShapeInv(most)'
  <2>1. edge' = [edge EXCEPT ![e] = Reshaped(edge[e], dims)]
    BY <1>4 DEF DeclareShape, Reshape
  <2>2. Reshaped(edge[e], dims).shape = [d \in Dim |-> IF d < Len(dims) THEN dims[d + 1] ELSE edge[e].shape[d]]
    BY <1>1 DEF Reshaped, EdgeType
  <2>3. \A d \in Dim : d < Len(dims) => dims[d + 1] \in 1 .. most[d]
    <3> SUFFICES ASSUME NEW d \in Dim, d < Len(dims) PROVE dims[d + 1] \in 1 .. most[d]
      OBVIOUS
    <3>1. Len(dims) \in Nat /\ d \in Int /\ d >= 0
      BY RuntimeAssumption, EdgesAssumption DEF Dim
    <3>2. d + 1 \in 1 .. Len(dims) /\ (d + 1) - 1 = d
      BY <3>1
    <3>3. dims[d + 1] \in 1 .. most[(d + 1) - 1]
      BY <3>2 DEF Bounds
    <3> QED BY <3>2, <3>3
  <2>4. \A d \in Dim : Reshaped(edge[e], dims).shape[d] \in 1 .. most[d]
    BY <2>2, <2>3
  <2> QED BY <1>1, <2>1, <2>4
<1>5. ASSUME InferShape PROVE ShapeInv(most)'
  <2>1. CASE UNCHANGED edge
    BY <2>1
  <2>2. CASE InferVerdict = "OK" /\ edge' = [edge EXCEPT ![Out] = ShapedLike(edge[Out], edge[In])]
    <3>1. In \in Edge /\ Out \in Edge
      BY <2>2, BoundWhenInferred DEF TypeInv
    <3>2. ShapedLike(edge[Out], edge[In]).shape
            = [d \in Dim |-> IF d < edge[In].rank THEN edge[In].shape[d] ELSE edge[Out].shape[d]]
      BY <1>1, <3>1 DEF ShapedLike, EdgeType
    <3>3. \A d \in Dim : ShapedLike(edge[Out], edge[In]).shape[d] \in 1 .. most[d]
      BY <3>1, <3>2
    <3> QED BY <1>1, <2>2, <3>1, <3>3
  <2> QED BY <1>5, <2>1, <2>2 DEF InferShape
<1>6. CASE UNCHANGED edge
  BY <1>6
<1> QED
  BY <1>2, <1>3, <1>4, <1>5, <1>6 DEF Configure, Create, BindInput, BindOutput, Validate, NodeInit, Reset

LEMMA ConfigureInferred ==
  ASSUME TypeInv, InferInv, Configure
  PROVE  InferInv'
<1>1. edge \in [Edge -> EdgeType]
  BY DEF TypeInv, WiringType
<1>2. CASE ~inferred'
  BY <1>2 DEF InferInv
<1>3. CASE UNCHANGED <<edge, node, inferred>>
  BY <1>3 DEF InferInv, In, Out
<1>4. ASSUME NEW e \in Edge, NEW b \in Buffer, NEW t \in {"FLOAT32", "INT32"}, BindSignal(e, b, t)
      PROVE  InferInv'
  <2>1. \A f \in Edge : edge'[f].shape = edge[f].shape /\ edge'[f].rank = edge[f].rank
    BY <1>1, <1>4 DEF BindSignal, SignalBind, EdgeType
  <2>2. UNCHANGED <<node, inferred>>
    BY <1>4 DEF BindSignal
  <2> QED BY <2>1, <2>2 DEF InferInv, In, Out, Proper
<1>5. ASSUME InferShape PROVE InferInv'
  <2>1. CASE InferVerdict # "OK"
    BY <1>3, <1>5, <2>1 DEF InferShape
  <2>2. CASE InferVerdict = "OK"
    <3>1. In \in Edge /\ Out \in Edge
      BY <2>2, BoundWhenInferred DEF TypeInv
    <3>2. /\ edge' = [edge EXCEPT ![Out] = ShapedLike(edge[Out], edge[In])]
          /\ inferred' = Proper(edge[In]) /\ In' = In /\ Out' = Out
      BY <1>5, <2>2 DEF InferShape, In, Out
    <3>3. /\ ShapedLike(edge[Out], edge[In]).rank = edge[In].rank
          /\ ShapedLike(edge[Out], edge[In]).shape
               = [d \in Dim |-> IF d < edge[In].rank THEN edge[In].shape[d] ELSE edge[Out].shape[d]]
      BY <1>1, <3>1 DEF ShapedLike, EdgeType
    <3>4. edge'[In].rank = edge[In].rank /\ \A d \in Dim : edge'[In].shape[d] = edge[In].shape[d]
      BY <1>1, <3>1, <3>2, <3>3
    <3>5. \A d \in Dim : d < edge[In].rank => edge'[Out].shape[d] = edge[In].shape[d]
      BY <1>1, <3>1, <3>2, <3>3
    <3> QED BY <3>1, <3>2, <3>4, <3>5 DEF InferInv, Proper
  <2> QED BY <2>1, <2>2
<1> QED
  BY <1>2, <1>3, <1>4, <1>5
  DEF Configure, InitEdge, DeclareShape, Create, BindInput, BindOutput, Validate, NodeInit, Reset

\* A step on inferred shapes writes no more than the output's storage has.
LEMMA InferredFits ==
  ASSUME NEW most, NEW room, Bounds(most, room), TypeInv, ShapeInv(most), InferInv, inferred,
         Step, StepVerdict = "OK"
  PROVE  Inside
<1>1. In \in Edge /\ Out \in Edge /\ edge[Out].signal \in Buffer
  BY StepReads
<1>2. edge[In] \in EdgeType /\ edge[Out] \in EdgeType
  BY <1>1 DEF TypeInv, WiringType
<1>3. most \in [Dim -> Nat]
  BY DEF Bounds
<1>4. ASSUME NEW d \in Dim PROVE edge[In].shape[d] <= edge[Out].shape[d] /\ edge[Out].shape[d] <= most[d]
  <2>1. edge[Out].shape[d] \in 1 .. most[d] /\ most[d] \in Nat /\ d \in Int /\ edge[In].rank \in Int
    BY <1>1, <1>2, <1>3, EdgesAssumption DEF ShapeInv, Dim, EdgeType
  <2>2. CASE d < edge[In].rank
    BY <2>1, <2>2 DEF InferInv
  <2>3. CASE d >= edge[In].rank
    <3>1. edge[In].shape[d] = 1
      BY <2>3 DEF InferInv, Proper
    <3> QED BY <2>1, <3>1
  <2> QED BY <2>1, <2>2, <2>3
<1>5. ElementCount(edge[In]) <= ElementCount(edge[Out])
  BY <1>2, <1>4, CountMonotone
<1>6. ElementCount(edge[Out]) <= BufferLen[edge[Out].signal]
  BY <1>1, EdgesAssumption DEF Step, StorageFits
<1>7. ElementCount(edge[In]) \in Nat /\ ElementCount(edge[Out]) \in Nat /\ BufferLen[edge[Out].signal] \in Nat
  BY <1>1, <1>2, CountIsNat, EdgesAssumption
<1> QED
  BY <1>5, <1>6, <1>7 DEF Inside

\* Where dimensions are at least one and their products do not wrap, an inferred
\* output holds every element a step writes, for every shape the caller declares
\* and however old the output's trailing dimensions are. With a zero dimension
\* left there, or a count that wraps, it need not.
THEOREM InferredStaysInside ==
  ASSUME NoWrap
  PROVE  Spec => []InferredStepStaysInside
<1>1. PICK most, room : Bounds(most, room)
  BY DEF NoWrap
<1> DEFINE I == ShapeInv(most) /\ InferInv /\ InferredStepStaysInside
<1>2. Init => I
  <2> SUFFICES ASSUME Init PROVE I
    OBVIOUS
  <2>1. InferredStepStaysInside
    BY DEF Init, InferredStepStaysInside
  <2> QED BY <1>1, <2>1, InitShapes
<1>3. TypeInv /\ I /\ [Next]_vars => I'
  <2> SUFFICES ASSUME TypeInv, I, [Next]_vars PROVE I'
    OBVIOUS
  <2>1. CASE Configure
    <3>1. ShapeInv(most)' /\ InferInv'
      BY <1>1, <2>1, ConfigureShapes, ConfigureInferred
    <3>2. ~overrun /\ overrun' = overrun
      BY <2>1 DEF Configure, InitEdge, BindSignal, DeclareShape, Create, BindInput, BindOutput,
                  Validate, NodeInit, InferShape, Reset, Change
    <3> QED BY <3>1, <3>2 DEF InferredStepStaysInside
  <2>2. CASE Step
    <3>1. UNCHANGED <<edge, node, inferred>>
      BY <2>2 DEF Step, StepRefused, StepTaken, StepOverruns, OneStep
    <3>2. ShapeInv(most)' /\ InferInv'
      BY <3>1 DEF ShapeInv, InferInv, In, Out
    <3>3. overrun' => ~inferred
      <4>1. CASE StepRefused \/ StepTaken
        BY <2>2, <4>1 DEF Step, StepRefused, StepTaken
      <4>2. CASE StepOverruns
        BY <1>1, <2>2, <4>2, InferredFits DEF StepOverruns
      <4> QED BY <2>2, <4>1, <4>2 DEF Step
    <3> QED BY <3>1, <3>2, <3>3 DEF InferredStepStaysInside
  <2>3. CASE UNCHANGED <<edge, node, inferred, overrun>>
    BY <2>3 DEF ShapeInv, InferInv, In, Out, InferredStepStaysInside
  <2>4. ASSUME NEW s \in Signals, WriteSignal(s) PROVE UNCHANGED <<edge, node, inferred, overrun>>
    BY <2>4 DEF WriteSignal
  <2> QED BY <2>1, <2>2, <2>3, <2>4 DEF Next, vars
<1>4. I => InferredStepStaysInside
  OBVIOUS
<1> HIDE DEF I
<1> QED BY <1>2, <1>3, <1>4, Typed, PTL DEF Spec

=============================================================================
