------------------------------ MODULE RingBuf ------------------------------
(***************************************************************************)
(* smls_ringbuf.c: a circular array of samples with a write index head, a  *)
(* read index tail and a fill level size. Indices count from 0 as in the   *)
(* code. The storage belongs to the caller and init zeroes it.             *)
(***************************************************************************)
EXTENDS Integers, Sequences

CONSTANTS
  Capacity,          \* number of elements of the storage
  Value,             \* samples
  Zero               \* 0.0f

\* smls_ringbuf_push computes % rb->capacity: capacity 0 is not usable.
ASSUME CapacityAssumption == Capacity \in Nat \ {0}
ASSUME ZeroAssumption == Zero \in Value

VARIABLES
  data, head, tail, size,   \* smls_ringbuf_t
  popped                    \* *out of the last successful pop

vars == <<data, head, tail, size, popped>>

Index == 0 .. Capacity - 1

\* Faulty variant: no wrap at the end of the storage.
AfterUnwrapped(i) == i + 1

\* (i + 1) % rb->capacity
After(i) == (i + 1) % Capacity

-----------------------------------------------------------------------------

\* smls_ringbuf_init
Init ==
  /\ data = [i \in Index |-> Zero]
  /\ head = 0 /\ tail = 0 /\ size = 0
  /\ popped = <<>>

\* smls_ringbuf_init again, on storage of the same size.
InitAgain ==
  /\ data' = [i \in Index |-> Zero]
  /\ head' = 0 /\ tail' = 0 /\ size' = 0
  /\ UNCHANGED popped

\* Faulty variant: tail stays behind when the oldest sample is overwritten.
PushKeepsTail(v) ==
  /\ data' = [data EXCEPT ![head] = v]
  /\ head' = After(head)
  /\ size' = IF size < Capacity THEN size + 1 ELSE size
  /\ UNCHANGED <<tail, popped>>

\* smls_ringbuf_push: on a full buffer the write goes over the oldest sample.
Push(v) ==
  /\ data' = [data EXCEPT ![head] = v]
  /\ head' = After(head)
  /\ IF size < Capacity
     THEN size' = size + 1 /\ UNCHANGED tail
     ELSE tail' = After(tail) /\ UNCHANGED size
  /\ UNCHANGED popped

\* smls_ringbuf_pop
Pop ==
  /\ size # 0
  /\ popped' = <<data[tail]>>
  /\ tail' = After(tail)
  /\ size' = size - 1
  /\ UNCHANGED <<data, head>>

\* smls_ringbuf_pop returns false and leaves *out alone.
PopEmpty == size = 0 /\ UNCHANGED vars

Next == (\E v \in Value : Push(v)) \/ Pop \/ PopEmpty \/ InitAgain

Spec == Init /\ [][Next]_vars

-----------------------------------------------------------------------------
(* The readers. Each gives <<>> where the code returns false.              *)

\* smls_ringbuf_latest
Latest ==
  IF size = 0 THEN <<>>
  ELSE <<data[IF head = 0 THEN Capacity - 1 ELSE head - 1]>>

\* Faulty variant: head taken for the newest sample.
AtOffByOne(age) ==
  IF age >= size THEN <<>> ELSE <<data[(head + Capacity - age) % Capacity]>>

\* smls_ringbuf_at
At(age) ==
  IF age >= size THEN <<>>
  ELSE <<data[(head + Capacity - 1 - age) % Capacity]>>

\* The samples gnuplotter_plot_ringbuf writes, in its order: the contents of
\* the buffer from the oldest to the newest.
PlotRingbuf == [i \in 1 .. size |-> data[(tail + i - 1) % Capacity]]

\* The samples gnuplotter_plot_ringbuf_n writes for one channel.
PlotRingbufN == [i \in 1 .. size |-> data[(head + i - 1) % size]]

-----------------------------------------------------------------------------

TypeOK ==
  /\ data \in [Index -> Value]
  /\ head \in Index /\ tail \in Index
  /\ size \in 0 .. Capacity
  /\ popped \in {<<>>} \cup {<<v>> : v \in Value}

\* head and tail are size apart: the size cells between them are the live ones.
HeadFollowsTail == head = (tail + size) % Capacity

\* The buffer is the window of its newest samples, for every order of
\* pushes, pops and wraps around the end of the storage.
Samples == INSTANCE SampleWindow WITH window <- PlotRingbuf
RefinesWindow == Samples!Spec

\* All readers see the same samples: age a is the a-th from the newest, for
\* smls_ringbuf_latest (a = 0), smls_ringbuf_at and gnuplotter_plot_ringbuf,
\* which index from head and from tail.
ReadersAgree ==
  /\ Latest = At(0)
  /\ \A age \in 0 .. Capacity :
       At(age) = IF age < size THEN <<PlotRingbuf[size - age]>> ELSE <<>>

\* "Plot multiple ring buffers" (gnuplotter.h): a channel of the plot of many
\* is the plot of that ring buffer.
ChannelIsRingbuf == PlotRingbufN = PlotRingbuf

=============================================================================
