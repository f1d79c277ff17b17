------------------------------- MODULE Edges -------------------------------
(***************************************************************************)
(* smls_edge.h, smls_edge.c: descriptions of signals whose storage belongs *)
(* to the caller. What no code of the library reads or advances            *)
(* (timestamp_us, sequence) is left out.                                   *)
(***************************************************************************)
EXTENDS Rational, Sequences

CONSTANTS
  Edge, Buffer,          \* the caller's edge objects and float arrays
  BufferLen,             \* elements of each array
  NULL,
  MaxDim,                \* SMLS_EDGE_SIGNAL_MAX_DIM
  CountMod               \* 2^32: element counts are uint32_t

ASSUME EdgesAssumption ==
  /\ NULL \notin Buffer /\ NULL \notin Edge
  /\ BufferLen \in [Buffer -> Nat]
  /\ MaxDim \in Nat /\ CountMod \in Nat \ {0}

VARIABLES edge, mem

Dim == 0 .. MaxDim - 1
Dtype == {"BOOL", "FLOAT32", "UINT32", "INT32"}
EdgeType ==
  [signal : Buffer \cup {NULL}, type : Dtype, rank : 0 .. MaxDim, shape : [Dim -> Nat]]

\* smls_edge_init does not touch rank.
Initialized(s) == [s EXCEPT !.signal = NULL, !.type = "FLOAT32", !.shape = [d \in Dim |-> 1]]

EdgeInit(e) == edge' = [edge EXCEPT ![e] = Initialized(@)]

\* smls_edge_signal_bind
SignalBind(e, b, t) == edge' = [edge EXCEPT ![e] = [@ EXCEPT !.signal = b, !.type = t]]

\* The caller sets rank and the first rank dimensions, as the tests do.
Reshaped(s, dims) ==
  [s EXCEPT !.rank = Len(dims),
            !.shape = [d \in Dim |-> IF d < Len(dims) THEN dims[d + 1] ELSE @[d]]]

Reshape(e, dims) == edge' = [edge EXCEPT ![e] = Reshaped(@, dims)]

\* smls_dtype_element_count: a product of all dimensions, whatever the rank.
ElementCount(s) ==
  LET product[d \in -1 .. MaxDim - 1] ==
        IF d = -1 THEN 1 ELSE (product[d - 1] * s.shape[d]) % CountMod
  IN  product[MaxDim - 1]

\* Faulty variant: one dimension too few.
ShapedShort(out, in) ==
  [out EXCEPT !.type = in.type, !.rank = in.rank,
              !.shape = [d \in Dim |-> IF d < in.rank - 1 THEN in.shape[d] ELSE @[d]]]

\* What the three infer_shape callbacks do to the output edge: the memcpy takes
\* rank dimensions and leaves the others as they were.
ShapedLike(out, in) ==
  [out EXCEPT !.type = in.type, !.rank = in.rank,
              !.shape = [d \in Dim |-> IF d < in.rank THEN in.shape[d] ELSE @[d]]]

\* The shapes of the doc: {3,1,1,1} for a vector of 3, {1,1,1,1} for a scalar.
Proper(s) == \A d \in Dim : d >= s.rank => s.shape[d] = 1

\* The caller's side of "pointer to signal storage": it is large enough.
StorageFits(s) == s.signal # NULL => ElementCount(s) <= BufferLen[s.signal]

=============================================================================
