--------------------------- MODULE RingBuf_proofs ---------------------------
(***************************************************************************)
(* For every capacity and every set of samples: the indices of smls_ringbuf *)
(* stay in step, all its readers see the same samples, and the buffer      *)
(* implements the window of newest samples of SampleWindow.                *)
(***************************************************************************)
EXTENDS RingBuf, SequenceTheorems, TLAPS

-----------------------------------------------------------------------------
(* Index arithmetic: every remainder the code takes is of a number below   *)
(* twice the capacity.                                                     *)

\* The remainder of an index that has run past the end of the storage at most
\* once.
LEMMA ModOnce ==
  ASSUME NEW x \in 0 .. 2 * Capacity - 1
  PROVE  x % Capacity = IF x < Capacity THEN x ELSE x - Capacity
<1>1. Capacity \in Nat \ {0}
  BY CapacityAssumption
<1>2. CASE x < Capacity
  BY <1>1, <1>2
<1>3. CASE x >= Capacity
  BY <1>1, <1>3
<1> QED
  BY <1>1, <1>2, <1>3

\* The index after i is the next cell, or the first after the last.
LEMMA AfterIs ==
  ASSUME NEW i \in Index
  PROVE  After(i) = IF i = Capacity - 1 THEN 0 ELSE i + 1
<1>1. Capacity \in Nat \ {0} /\ i + 1 \in 0 .. 2 * Capacity - 1
  BY CapacityAssumption DEF Index
<1> QED
  BY <1>1, ModOnce DEF After, Index

\* The cell of the i-th oldest sample of a buffer whose read index is t.
Cell(t, i) == (t + i - 1) % Capacity

\* The i-th live cell counted from tail.
LEMMA CellIs ==
  ASSUME NEW t \in Index, NEW i \in 1 .. Capacity
  PROVE  /\ Cell(t, i) = IF t + i - 1 < Capacity THEN t + i - 1
                                                 ELSE t + i - 1 - Capacity
         /\ Cell(t, i) \in Index
<1>1. /\ Capacity \in Nat \ {0} /\ t \in Nat /\ i \in Nat
      /\ t + i - 1 \in 0 .. 2 * Capacity - 1
  BY CapacityAssumption DEF Index
<1> DEFINE x == t + i - 1
<1>x. x % Capacity = IF x < Capacity THEN x ELSE x - Capacity
  <2>1. x \in 0 .. 2 * Capacity - 1
    BY <1>1
  <2> HIDE DEF x
  <2> QED
    BY <2>1, ModOnce
<1>2. Cell(t, i) = IF t + i - 1 < Capacity THEN t + i - 1
                                           ELSE t + i - 1 - Capacity
  BY <1>1, <1>x DEF Cell, Index
<1> QED
  BY <1>1, <1>2 DEF Index

\* No two samples share a cell.
LEMMA CellsDiffer ==
  ASSUME NEW t \in Index, NEW i \in 1 .. Capacity, NEW j \in 1 .. Capacity,
         i # j
  PROVE  Cell(t, i) # Cell(t, j)
<1>1. Capacity \in Nat \ {0}
  BY CapacityAssumption
<1>2. Cell(t, i) = IF t + i - 1 < Capacity THEN t + i - 1
                                           ELSE t + i - 1 - Capacity
  BY CellIs
<1>3. Cell(t, j) = IF t + j - 1 < Capacity THEN t + j - 1
                                           ELSE t + j - 1 - Capacity
  BY CellIs
<1> QED
  BY <1>1, <1>2, <1>3 DEF Index

-----------------------------------------------------------------------------
(* The invariant: head needs tail and size to be inductive, and the three  *)
(* need their types.                                                       *)

IInv == TypeOK /\ HeadFollowsTail

\* head in terms of tail and size, without the remainder.
LEMMA HeadIs ==
  ASSUME IInv
  PROVE  /\ Capacity \in Nat \ {0}
         /\ head = IF tail + size < Capacity THEN tail + size
                                             ELSE tail + size - Capacity
<1>1. Capacity \in Nat \ {0}
  BY CapacityAssumption
<1>2. tail + size \in 0 .. 2 * Capacity - 1
  BY <1>1 DEF IInv, TypeOK, Index
<1>3. head = (tail + size) % Capacity
  BY DEF IInv, HeadFollowsTail
<1> DEFINE x == tail + size
<1>4. x \in 0 .. 2 * Capacity - 1 /\ head = x % Capacity
  BY <1>2, <1>3
<1> HIDE DEF x
<1>5. head = IF x < Capacity THEN x ELSE x - Capacity
  BY <1>4, ModOnce
<1>6. tail \in Nat /\ size \in Nat
  BY <1>1 DEF IInv, TypeOK, Index
<1> QED
  BY <1>1, <1>5, <1>6 DEF x

\* And the way back: an index at that distance is the remainder.
LEMMA HeadFollowsIf ==
  ASSUME NEW h, NEW t \in Index, NEW n \in 0 .. Capacity,
         h = IF t + n < Capacity THEN t + n ELSE t + n - Capacity
  PROVE  h = (t + n) % Capacity /\ h \in Index
<1>1. Capacity \in Nat \ {0} /\ t + n \in 0 .. 2 * Capacity - 1
  BY CapacityAssumption DEF Index
<1> QED
  BY <1>1, ModOnce DEF Index

\* smls_ringbuf_init establishes the invariant.
LEMMA InitIInv == Init => IInv
<1>1. Capacity \in Nat \ {0} /\ Zero \in Value
  BY CapacityAssumption, ZeroAssumption
<1>2. 0 % Capacity = 0
  BY <1>1, ModOnce
<1> QED
  BY <1>1, <1>2 DEF Init, IInv, TypeOK, HeadFollowsTail, Index

\* smls_ringbuf_push keeps the invariant, full or not.
LEMMA PushKeepsIInv ==
  ASSUME IInv, NEW v \in Value, Push(v)
  PROVE  IInv'
<1>1. /\ Capacity \in Nat \ {0}
      /\ head = IF tail + size < Capacity THEN tail + size
                                          ELSE tail + size - Capacity
  BY HeadIs
<1>2. head \in Index /\ tail \in Index /\ size \in 0 .. Capacity
      /\ data \in [Index -> Value]
  BY DEF IInv, TypeOK
<1>3. /\ head' = (IF head = Capacity - 1 THEN 0 ELSE head + 1)
      /\ head' \in Index
  BY <1>1, <1>2, AfterIs DEF Push, Index
<1>4. data' \in [Index -> Value]
  BY <1>2 DEF Push
<1>5. CASE size < Capacity
  <2>1. size' = size + 1 /\ tail' = tail
    BY <1>5 DEF Push
  <2>2. size' \in 0 .. Capacity /\ tail' \in Index
    BY <1>1, <1>2, <1>5, <2>1
  <2>3. head' = IF tail' + size' < Capacity THEN tail' + size'
                                            ELSE tail' + size' - Capacity
    BY <1>1, <1>2, <1>3, <1>5, <2>1 DEF Index
  <2>4. HeadFollowsTail'
    BY <2>2, <2>3, HeadFollowsIf DEF HeadFollowsTail
  <2> QED
    BY <1>3, <1>4, <2>2, <2>4 DEF IInv, TypeOK, Push
<1>6. CASE ~(size < Capacity)
  <2>1. size' = size /\ size = Capacity /\ tail' = After(tail)
    BY <1>1, <1>2, <1>6 DEF Push
  <2>2. tail' = (IF tail = Capacity - 1 THEN 0 ELSE tail + 1) /\ tail' \in Index
    BY <1>1, <1>2, <2>1, AfterIs DEF Index
  <2>3. size' \in 0 .. Capacity
    BY <1>1, <2>1
  <2>4. head' = IF tail' + size' < Capacity THEN tail' + size'
                                            ELSE tail' + size' - Capacity
    BY <1>1, <1>2, <1>3, <2>1, <2>2 DEF Index
  <2>5. HeadFollowsTail'
    BY <2>2, <2>3, <2>4, HeadFollowsIf DEF HeadFollowsTail
  <2> QED
    BY <1>3, <1>4, <2>2, <2>3, <2>5 DEF IInv, TypeOK, Push
<1> QED
  BY <1>5, <1>6

\* smls_ringbuf_pop keeps the invariant.
LEMMA PopKeepsIInv ==
  ASSUME IInv, Pop
  PROVE  IInv'
<1>1. /\ Capacity \in Nat \ {0}
      /\ head = IF tail + size < Capacity THEN tail + size
                                          ELSE tail + size - Capacity
  BY HeadIs
<1>2. head \in Index /\ tail \in Index /\ size \in 0 .. Capacity
      /\ data \in [Index -> Value]
  BY DEF IInv, TypeOK
<1>3. /\ size # 0 /\ size' = size - 1 /\ head' = head /\ data' = data
      /\ tail' = After(tail) /\ popped' = <<data[tail]>>
  BY DEF Pop
<1>4. tail' = (IF tail = Capacity - 1 THEN 0 ELSE tail + 1) /\ tail' \in Index
  BY <1>1, <1>2, <1>3, AfterIs DEF Index
<1>5. size' \in 0 .. Capacity
  BY <1>1, <1>2, <1>3
<1>6. head' = IF tail' + size' < Capacity THEN tail' + size'
                                          ELSE tail' + size' - Capacity
  BY <1>1, <1>2, <1>3, <1>4 DEF Index
<1>7. HeadFollowsTail'
  BY <1>4, <1>5, <1>6, HeadFollowsIf DEF HeadFollowsTail
<1> QED
  BY <1>2, <1>3, <1>4, <1>5, <1>7 DEF IInv, TypeOK

\* So does every operation.
LEMMA NextKeepsIInv == IInv /\ [Next]_vars => IInv'
<1> SUFFICES ASSUME IInv, [Next]_vars PROVE IInv'
  OBVIOUS
<1>1. ASSUME NEW v \in Value, Push(v) PROVE IInv'
  BY <1>1, PushKeepsIInv
<1>2. CASE Pop
  BY <1>2, PopKeepsIInv
<1>3. CASE InitAgain
  <2>1. Capacity \in Nat \ {0} /\ Zero \in Value
    BY CapacityAssumption, ZeroAssumption
  <2>2. 0 % Capacity = 0
    BY <2>1, ModOnce
  <2> QED
    BY <1>3, <2>1, <2>2 DEF InitAgain, IInv, TypeOK, HeadFollowsTail, Index
<1>4. CASE UNCHANGED vars
  BY <1>4 DEF vars, IInv, TypeOK, HeadFollowsTail
<1> QED
  BY <1>1, <1>2, <1>3, <1>4 DEF Next, PopEmpty

\* The indices stay inside the storage and size cells apart.
THEOREM Invariance == Spec => [](TypeOK /\ HeadFollowsTail)
<1>1. IInv <=> TypeOK /\ HeadFollowsTail
  BY DEF IInv
<1> QED
  BY <1>1, InitIInv, NextKeepsIInv, PTL DEF Spec

\* head, tail and size never leave the storage smls_ringbuf_init was given,
\* so that push, pop and the plot's walk index inside it.
THEOREM TypeCorrect == Spec => []TypeOK
  BY Invariance, PTL

-----------------------------------------------------------------------------
(* The readers.                                                            *)

\* head - 1 - age, wrapped around, is the cell age samples before the newest.
LEMMA AgeCell ==
  ASSUME IInv, NEW age \in 0 .. size - 1
  PROVE  (head + Capacity - 1 - age) % Capacity = Cell(tail, size - age)
<1>1. /\ Capacity \in Nat \ {0}
      /\ head = IF tail + size < Capacity THEN tail + size
                                          ELSE tail + size - Capacity
  BY HeadIs
<1>2. head \in Index /\ tail \in Index /\ size \in 0 .. Capacity
  BY DEF IInv, TypeOK
<1> DEFINE x == head + Capacity - 1 - age
<1>3. x \in 0 .. 2 * Capacity - 1
  BY <1>1, <1>2 DEF Index
<1>4. x % Capacity = IF x < Capacity THEN x ELSE x - Capacity
  <2> HIDE DEF x
  <2> QED
    BY <1>3, ModOnce
<1>5. size - age \in 1 .. Capacity
  BY <1>1, <1>2
<1>6. Cell(tail, size - age) =
        IF tail + (size - age) - 1 < Capacity THEN tail + (size - age) - 1
        ELSE tail + (size - age) - 1 - Capacity
  BY <1>2, <1>5, CellIs
<1> QED
  BY <1>1, <1>2, <1>4, <1>6 DEF Index

\* Under the invariant, indexing back from head and forward from tail meet.
LEMMA IInvReadersAgree == IInv => ReadersAgree
<1> SUFFICES ASSUME IInv PROVE ReadersAgree
  OBVIOUS
<1>1. /\ Capacity \in Nat \ {0} /\ head \in Index /\ size \in 0 .. Capacity
  BY CapacityAssumption DEF IInv, TypeOK
<1>2. Latest = At(0)
  <2>1. CASE size = 0
    BY <2>1 DEF Latest, At
  <2>2. CASE size # 0
    <3> DEFINE x == head + Capacity - 1 - 0
    <3>1. x \in 0 .. 2 * Capacity - 1
      BY <1>1 DEF Index
    <3>2. x % Capacity = IF x < Capacity THEN x ELSE x - Capacity
      <4> HIDE DEF x
      <4> QED
        BY <3>1, ModOnce
    <3>3. x % Capacity = IF head = 0 THEN Capacity - 1 ELSE head - 1
      BY <1>1, <3>2 DEF Index
    <3>4. ~(0 >= size)
      BY <1>1, <2>2
    <3> QED
      BY <2>2, <3>3, <3>4 DEF Latest, At
  <2> QED
    BY <2>1, <2>2
<1>3. ASSUME NEW age \in 0 .. Capacity
      PROVE  At(age) = IF age < size THEN <<PlotRingbuf[size - age]>> ELSE <<>>
  <2>1. CASE age >= size
    BY <1>1, <2>1 DEF At
  <2>2. CASE age < size
    <3>1. age \in 0 .. size - 1 /\ size - age \in 1 .. size /\ ~(age >= size)
      BY <1>1, <2>2
    <3>2. PlotRingbuf[size - age] = data[Cell(tail, size - age)]
      BY <3>1 DEF PlotRingbuf, Cell
    <3>3. At(age) = <<data[Cell(tail, size - age)]>>
      BY <3>1, AgeCell DEF At
    <3> QED
      BY <2>2, <3>2, <3>3
  <2> QED
    BY <1>1, <2>1, <2>2
<1> QED
  BY <1>2, <1>3 DEF ReadersAgree

\* Whatever was pushed and popped, latest, at and plot_ringbuf agree.
THEOREM ReadersAlwaysAgree == Spec => []ReadersAgree
<1>1. TypeOK /\ HeadFollowsTail => ReadersAgree
  BY IInvReadersAgree DEF IInv
<1> QED
  BY <1>1, Invariance, PTL

-----------------------------------------------------------------------------
(* The buffer implements SampleWindow. The window grows at the end when a  *)
(* sample goes into a free cell; when the buffer is full the new sample    *)
(* takes the cell of the oldest, and every other sample keeps its cell     *)
(* while its rank drops by one.                                            *)

\* A sequence is the function of its elements.
LEMMA SeqByElements ==
  ASSUME NEW S, NEW s \in Seq(S), NEW n, Len(s) = n
  PROVE  s = [i \in 1 .. n |-> s[i]]
<1>1. s \in [1 .. n -> S]
  BY LenProperties
<1> QED
  BY <1>1

\* The plotted sequence is well-typed and reads the live cells in order.
LEMMA PlotFacts ==
  ASSUME IInv
  PROVE  /\ PlotRingbuf \in Seq(Value) /\ Len(PlotRingbuf) = size
         /\ \A i \in 1 .. size : PlotRingbuf[i] = data[Cell(tail, i)]
<1>1. /\ tail \in Index /\ size \in 0 .. Capacity /\ data \in [Index -> Value]
      /\ Capacity \in Nat \ {0}
  BY CapacityAssumption DEF IInv, TypeOK
<1>2. \A i \in 1 .. size : Cell(tail, i) \in Index
  BY <1>1, CellIs
<1>3. \A i \in 1 .. size : data[Cell(tail, i)] \in Value
  BY <1>1, <1>2
<1>4. PlotRingbuf = [i \in 1 .. size |-> data[Cell(tail, i)]]
  BY DEF PlotRingbuf, Cell
<1> QED
  BY <1>1, <1>3, <1>4

\* The cell after a shorter window's read index.
LEMMA CellShift ==
  ASSUME NEW t \in Index, NEW i \in 1 .. Capacity - 1
  PROVE  Cell(After(t), i) = Cell(t, i + 1)
<1>1. Capacity \in Nat \ {0}
  BY CapacityAssumption
<1>2. After(t) = (IF t = Capacity - 1 THEN 0 ELSE t + 1) /\ After(t) \in Index
  BY <1>1, AfterIs DEF Index
<1>3. Cell(After(t), i) = IF After(t) + i - 1 < Capacity THEN After(t) + i - 1
                                               ELSE After(t) + i - 1 - Capacity
  BY <1>1, <1>2, CellIs
<1>4. i + 1 \in 1 .. Capacity
  BY <1>1
<1>5. Cell(t, i + 1) = IF t + (i + 1) - 1 < Capacity THEN t + (i + 1) - 1
                                               ELSE t + (i + 1) - 1 - Capacity
  BY <1>4, CellIs
<1> QED
  BY <1>1, <1>2, <1>3, <1>5 DEF Index

\* The cell Push writes is the one behind the newest sample, which is the
\* oldest sample's when the buffer is full.
LEMMA WrittenCell ==
  ASSUME IInv
  PROVE  /\ size < Capacity => head = Cell(tail, size + 1)
         /\ size = Capacity => head = tail /\ tail = Cell(tail, 1)
<1>1. /\ Capacity \in Nat \ {0}
      /\ head = IF tail + size < Capacity THEN tail + size
                                          ELSE tail + size - Capacity
  BY HeadIs
<1>2. tail \in Index /\ size \in 0 .. Capacity
  BY DEF IInv, TypeOK
<1>3. size < Capacity => head = Cell(tail, size + 1)
  <2> SUFFICES ASSUME size < Capacity PROVE head = Cell(tail, size + 1)
    OBVIOUS
  <2>1. size + 1 \in 1 .. Capacity
    BY <1>1, <1>2
  <2>2. Cell(tail, size + 1) =
          IF tail + (size + 1) - 1 < Capacity THEN tail + (size + 1) - 1
          ELSE tail + (size + 1) - 1 - Capacity
    BY <1>2, <2>1, CellIs
  <2> QED
    BY <1>1, <1>2, <2>2 DEF Index
<1>4. 1 \in 1 .. Capacity
  BY <1>1
<1>5. Cell(tail, 1) = IF tail + 1 - 1 < Capacity THEN tail + 1 - 1
                                                 ELSE tail + 1 - 1 - Capacity
  BY <1>2, <1>4, CellIs
<1> QED
  BY <1>1, <1>2, <1>3, <1>5 DEF Index

\* smls_ringbuf_push is the Push of the window: it appends, and forgets the
\* oldest sample when the storage is full.
LEMMA PushRefines ==
  ASSUME IInv, NEW v \in Value, Push(v)
  PROVE  Samples!Push(v)
<1> DEFINE w == PlotRingbuf
<1>1. /\ Capacity \in Nat \ {0} /\ tail \in Index /\ size \in 0 .. Capacity
      /\ data \in [Index -> Value] /\ head \in Index
  BY CapacityAssumption DEF IInv, TypeOK
<1>2. IInv'
  BY PushKeepsIInv
<1>3. /\ w \in Seq(Value) /\ Len(w) = size
      /\ \A i \in 1 .. size : w[i] = data[Cell(tail, i)]
  BY PlotFacts
<1>4. w' = [i \in 1 .. size' |-> data'[Cell(tail', i)]]
  BY DEF PlotRingbuf, Cell
<1>5. /\ data' = [data EXCEPT ![head] = v] /\ popped' = popped
      /\ size < Capacity => size' = size + 1 /\ tail' = tail
      /\ ~(size < Capacity) => size' = size /\ tail' = After(tail)
  BY DEF Push
<1>6. /\ Append(w, v) \in Seq(Value) /\ Len(Append(w, v)) = size + 1
      /\ \A i \in 1 .. size : Append(w, v)[i] = w[i]
      /\ Append(w, v)[size + 1] = v
  BY <1>1, <1>3
<1>7. CASE size < Capacity
  <2>1. head = Cell(tail, size + 1)
    BY <1>7, WrittenCell
  <2>2. ASSUME NEW i \in 1 .. size + 1
        PROVE  data'[Cell(tail, i)] = Append(w, v)[i]
    <3>1. i \in 1 .. Capacity /\ size + 1 \in 1 .. Capacity
      BY <1>1, <1>7
    <3>2. Cell(tail, i) \in Index
      BY <1>1, <3>1, CellIs
    <3>3. CASE i = size + 1
      BY <1>1, <1>5, <1>6, <2>1, <3>3
    <3>4. CASE i # size + 1
      <4>1. Cell(tail, i) # head
        BY <1>1, <2>1, <3>1, <3>4, CellsDiffer
      <4>2. i \in 1 .. size
        BY <1>1, <3>4
      <4> QED
        BY <1>1, <1>3, <1>5, <1>6, <3>2, <4>1, <4>2
    <3> QED
      BY <3>3, <3>4
  <2>3. w' = [i \in 1 .. size + 1 |-> data'[Cell(tail, i)]]
    BY <1>4, <1>5, <1>7
  <2> HIDE DEF w
  <2>4. w' = Append(w, v)
    <3>1. Append(w, v) = [i \in 1 .. size + 1 |-> Append(w, v)[i]]
      BY <1>6, SeqByElements
    <3> QED
      BY <2>2, <2>3, <3>1
  <2>5. ~(Len(Append(w, v)) > Capacity)
    BY <1>1, <1>6, <1>7
  <2> QED
    BY <1>5, <2>4, <2>5 DEF Samples!Push, Samples!Newest, w
<1>8. CASE ~(size < Capacity)
  <2>1. size = Capacity /\ head = tail /\ tail = Cell(tail, 1)
    BY <1>1, <1>8, WrittenCell
  <2> DEFINE a == Append(w, v)
  <2>2. Tail(a) \in Seq(Value) /\ Len(Tail(a)) = size
        /\ \A i \in 1 .. size : Tail(a)[i] = a[i + 1]
    <3>1. a \in Seq(Value) /\ Len(a) = size + 1 /\ a # <<>>
      <4> HIDE DEF w
      <4>1. Len(a) # 0
        BY <1>1, <1>6
      <4> QED
        BY <1>6, <4>1
    <3> HIDE DEF a
    <3> QED
      BY <1>1, <3>1, HeadTailProperties
  <2>3. ASSUME NEW i \in 1 .. size
        PROVE  data'[Cell(After(tail), i)] = a[i + 1]
    <3>1. CASE i = size
      <4>1. Cell(After(tail), i) = head
        <5>1. After(tail) = (IF tail = Capacity - 1 THEN 0 ELSE tail + 1)
              /\ After(tail) \in Index
          BY <1>1, AfterIs DEF Index
        <5>2. Cell(After(tail), i) =
                IF After(tail) + i - 1 < Capacity THEN After(tail) + i - 1
                ELSE After(tail) + i - 1 - Capacity
          BY <1>1, <5>1, CellIs
        <5> QED
          BY <1>1, <2>1, <3>1, <5>1, <5>2 DEF Index
      <4> QED
        BY <1>1, <1>5, <1>6, <3>1, <4>1
    <3>2. CASE i # size
      <4>1. i \in 1 .. Capacity - 1 /\ i + 1 \in 1 .. size /\ i + 1 # 1
            /\ i + 1 \in 1 .. Capacity /\ 1 \in 1 .. Capacity
        BY <1>1, <2>1, <3>2
      <4>2. Cell(After(tail), i) = Cell(tail, i + 1)
        BY <1>1, <4>1, CellShift
      <4>3. Cell(tail, i + 1) # Cell(tail, 1) /\ Cell(tail, i + 1) \in Index
        BY <1>1, <4>1, CellsDiffer, CellIs
      <4>4. data'[Cell(tail, i + 1)] = data[Cell(tail, i + 1)]
        BY <1>1, <1>5, <2>1, <4>3
      <4> QED
        BY <1>3, <1>6, <4>1, <4>2, <4>4
    <3> QED
      BY <3>1, <3>2
  <2>4. w' = [i \in 1 .. size |-> data'[Cell(After(tail), i)]]
    BY <1>4, <1>5, <1>8
  <2> HIDE DEF w
  <2>5. w' = Tail(a)
    <3>1. Tail(a) = [i \in 1 .. size |-> Tail(a)[i]]
      <4> HIDE DEF a
      <4> QED
        BY <2>2, SeqByElements
    <3> QED
      BY <2>2, <2>3, <2>4, <3>1
  <2>6. Len(a) > Capacity
    BY <1>1, <1>6, <2>1
  <2> QED
    BY <1>5, <2>5, <2>6 DEF Samples!Push, Samples!Newest, w
<1> QED
  BY <1>7, <1>8

\* smls_ringbuf_pop is the Pop of the window.
LEMMA PopRefines ==
  ASSUME IInv, Pop
  PROVE  Samples!Pop
<1> DEFINE w == PlotRingbuf
<1>1. /\ Capacity \in Nat \ {0} /\ tail \in Index /\ size \in 0 .. Capacity
  BY CapacityAssumption DEF IInv, TypeOK
<1>2. /\ w \in Seq(Value) /\ Len(w) = size
      /\ \A i \in 1 .. size : w[i] = data[Cell(tail, i)]
  BY PlotFacts
<1>3. /\ size # 0 /\ size' = size - 1 /\ data' = data
      /\ tail' = After(tail) /\ popped' = <<data[tail]>>
  BY DEF Pop
<1>4. w' = [i \in 1 .. size - 1 |-> data[Cell(After(tail), i)]]
  BY <1>3 DEF PlotRingbuf, Cell
<1> HIDE DEF w
<1>5. w # <<>> /\ 1 \in 1 .. size
  BY <1>1, <1>2, <1>3
<1>6. Head(w) = data[tail]
  <2>1. 1 \in 1 .. Capacity
    BY <1>1
  <2>2. Cell(tail, 1) = IF tail + 1 - 1 < Capacity THEN tail + 1 - 1
                                                   ELSE tail + 1 - 1 - Capacity
    BY <1>1, <2>1, CellIs
  <2>3. Cell(tail, 1) = tail
    BY <1>1, <2>2 DEF Index
  <2> QED
    BY <1>2, <1>5, <2>3
<1>7. w' = Tail(w)
  <2>1. Tail(w) \in Seq(Value) /\ Len(Tail(w)) = size - 1
        /\ \A i \in 1 .. size - 1 : Tail(w)[i] = w[i + 1]
    BY <1>1, <1>2, <1>5, HeadTailProperties
  <2>2. ASSUME NEW i \in 1 .. size - 1
        PROVE  data[Cell(After(tail), i)] = Tail(w)[i]
    <3>1. i \in 1 .. Capacity - 1 /\ i + 1 \in 1 .. size
      BY <1>1
    <3>2. Cell(After(tail), i) = Cell(tail, i + 1)
      BY <1>1, <3>1, CellShift
    <3> QED
      BY <1>2, <2>1, <3>1, <3>2
  <2>3. Tail(w) = [i \in 1 .. size - 1 |-> Tail(w)[i]]
    BY <2>1, SeqByElements
  <2> QED
    BY <1>4, <2>2, <2>3
<1> QED
  BY <1>3, <1>5, <1>6, <1>7 DEF Samples!Pop, w

\* An empty buffer is the empty window.
LEMMA ClearedWindow ==
  ASSUME size = 0
  PROVE  PlotRingbuf = <<>>
  BY DEF PlotRingbuf

\* smls_ringbuf.h's "Overwrites oldest sample if full": the buffer is the
\* sequence of its newest samples, at every capacity.
THEOREM ImplementsWindow == Spec => RefinesWindow
<1>1. Init => Samples!Init
  BY ClearedWindow DEF Init, Samples!Init
<1>2. IInv /\ [Next]_vars => [Samples!Next]_<<PlotRingbuf, popped>>
  <2> SUFFICES ASSUME IInv, [Next]_vars
               PROVE  [Samples!Next]_<<PlotRingbuf, popped>>
    OBVIOUS
  <2>1. ASSUME NEW v \in Value, Push(v) PROVE Samples!Next
    BY <2>1, PushRefines DEF Samples!Next
  <2>2. CASE Pop
    BY <2>2, PopRefines DEF Samples!Next
  <2>3. CASE PopEmpty \/ UNCHANGED vars
    BY <2>3 DEF PopEmpty, vars, PlotRingbuf
  <2>4. CASE InitAgain
    <3>1. size' = 0 /\ popped' = popped
      BY <2>4 DEF InitAgain
    <3>2. PlotRingbuf' = <<>>
      BY <3>1 DEF PlotRingbuf
    <3> QED
      BY <3>1, <3>2 DEF Samples!Next, Samples!Clear
  <2> QED
    BY <2>1, <2>2, <2>3, <2>4 DEF Next
<1> QED
  BY <1>1, <1>2, InitIInv, NextKeepsIInv, PTL DEF Spec, RefinesWindow, Samples!Spec

=============================================================================
