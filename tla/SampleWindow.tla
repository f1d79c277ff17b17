---------------------------- MODULE SampleWindow ----------------------------
(***************************************************************************)
(* What smls_ringbuf.h promises: the newest samples, at most Capacity of   *)
(* them, oldest first. Pushing onto a full window forgets the oldest.      *)
(***************************************************************************)
EXTENDS Integers, Sequences

CONSTANTS Capacity, Value

VARIABLES
  window,            \* the samples held, oldest first
  popped             \* what the last pop stored in *out, if it succeeded

Newest(s) == IF Len(s) > Capacity THEN Tail(s) ELSE s

Init == window = <<>> /\ popped = <<>>

Push(v) == window' = Newest(Append(window, v)) /\ UNCHANGED popped

Pop ==
  \/ window # <<>> /\ popped' = <<Head(window)>> /\ window' = Tail(window)
  \/ window = <<>> /\ UNCHANGED <<window, popped>>

Clear == window' = <<>> /\ UNCHANGED popped

Next == (\E v \in Value : Push(v)) \/ Pop \/ Clear

Spec == Init /\ [][Next]_<<window, popped>>

=============================================================================
