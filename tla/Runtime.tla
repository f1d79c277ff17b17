------------------------------ MODULE Runtime ------------------------------
(***************************************************************************)
(* smls_node.c and the operators behind it (smls_gain.c, smls_integrator.c,*)
(* smls_diff_eq.c): one node, the edges it may be bound to, the operators' *)
(* states, and a caller who makes every call of smls_node.h and            *)
(* smls_edge.h. The node was created and the edges set up before.          *)
(***************************************************************************)
EXTENDS Edges

CONSTANTS
  MaxSlots,              \* SMLS_NODE_MAX_INPUTS, SMLS_NODE_MAX_OUTPUTS
  OpType,                \* values of smls_op_type_t the caller passes
  K, Dt,                 \* gain parameter, sample period of the node
  Num, Den,              \* coefficients of the difference equation, from 0
  NumOrder, DenOrder,    \* how many of each: uint8_t
  StateLen,              \* elements of the integrator's state array
  InEdge, OutEdge,       \* the edges bound at first
  VectorLen,             \* lengths the signals have at first
  Shapes, Signals,       \* shapes the caller declares, arrays it writes
  MaxChanges, MaxSteps   \* bounds: calls other than step; steps

ASSUME RuntimeAssumption ==
  /\ MaxSlots \in Nat \ {0}
  /\ NumOrder \in Nat \ {0} /\ DenOrder \in Nat \ {0}
  /\ InEdge \in Edge /\ OutEdge \in Edge /\ InEdge # OutEdge /\ StateLen \in Nat
  /\ 1 <= MaxDim /\ VectorLen \subseteq Nat
  /\ \A dims \in Shapes : dims \in Seq(Nat) /\ Len(dims) <= MaxDim
  /\ NULL \notin {"GAIN", "INTEGRATOR", "DIFF_EQ"}
  /\ MaxChanges \in Nat /\ MaxSteps \in Nat

\* Parameters and samples are numbers; the sample period is finite.
ASSUME SampleAssumption ==
  /\ K \in Fraction /\ Dt \in Fraction /\ IsNumber(Dt)
  /\ Num \in [0 .. NumOrder - 1 -> Fraction] /\ Den \in [0 .. DenOrder - 1 -> Fraction]
  /\ \A s \in Signals, b \in Buffer : \A i \in 0 .. BufferLen[b] - 1 : s[i] \in Fraction

VARIABLES
  node,                  \* smls_node_t
  acc,                   \* state->state of the integrator
  input_hist, output_hist,   \* smls_diff_eq_state_t
  result,                \* the last call and what it returned
  changes, steps         \* bounded calls made so far

\* History: samples of the difference equation since its reset, arrays the
\* integrator took, bindings made since the node was created, whether the shapes
\* are those of an inference, and whether a step left its storage.
VARIABLES x, y, taken, bound, inferred, overrun

opState == <<acc, input_hist, output_hist, x, y, taken>>
vars == <<edge, mem, node, opState, result, changes, steps, bound, inferred, overrun>>

Ops == {"GAIN", "INTEGRATOR", "DIFF_EQ"}
Slot == 0 .. MaxSlots - 1
Unbound == [s \in Slot |-> NULL]

\* smls_op_get_ops
GetOps(type) == IF type \in Ops THEN type ELSE NULL

Created(type, param, state) ==
  [ops |-> GetOps(type), param |-> param, state |-> state, inputs |-> Unbound, outputs |-> Unbound]

In == node.inputs[0]
Out == node.outputs[0]

-----------------------------------------------------------------------------
(* Verdicts: "OK" or the error of smls_node_err_t a call returns.          *)

SignalMissing == edge[In].signal = NULL \/ edge[Out].signal = NULL
NotFloat == edge[In].type # "FLOAT32" \/ edge[Out].type # "FLOAT32"

\* smls_gain_validate
GainValidate ==
  IF ~node.param THEN "PARAM_NULL"
  ELSE IF In = NULL THEN "INPUT_MISSING"
  ELSE IF Out = NULL THEN "OUTPUT_MISSING"
  ELSE "OK"

\* smls_integrator_validate
IntegratorValidate ==
  IF In = NULL THEN "INPUT_MISSING"
  ELSE IF Out = NULL THEN "OUTPUT_MISSING"
  ELSE IF edge[In].rank > 1 \/ edge[Out].rank > 1 THEN "UNSUPPORTED_SHAPE"
  ELSE IF NotFloat THEN "SHAPE_MISMATCH"
  ELSE "OK"

\* smls_diff_eq_validate, for a parameter block and a state with their arrays
\* and den[0] # 0.
DiffEqValidate ==
  IF ~node.param THEN "PARAM_NULL"
  ELSE IF ~node.state THEN "NULL_PTR"
  ELSE IF In = NULL THEN "INPUT_MISSING"
  ELSE IF Out = NULL THEN "OUTPUT_MISSING"
  ELSE IF SignalMissing THEN "NULL_PTR"
  ELSE IF NotFloat THEN "SHAPE_MISMATCH"
  ELSE IF ElementCount(edge[In]) # 1 \/ ElementCount(edge[Out]) # 1 THEN "UNSUPPORTED_SHAPE"
  ELSE "OK"

\* smls_node_validate
ValidateVerdict ==
  CASE node.ops = "GAIN" -> GainValidate
    [] node.ops = "INTEGRATOR" -> IntegratorValidate
    [] OTHER -> DiffEqValidate

\* The tests a step makes after validate.
GainStepVerdict ==
  IF GainValidate # "OK" THEN GainValidate
  ELSE IF SignalMissing THEN "NULL_PTR"
  ELSE IF NotFloat THEN "SHAPE_MISMATCH"
  ELSE "OK"

IntegratorStepVerdict ==
  IF IntegratorValidate # "OK" THEN IntegratorValidate
  ELSE IF ~node.param THEN "PARAM_NULL"
  ELSE IF SignalMissing \/ ~node.state THEN "NULL_PTR"
  ELSE "OK"

StepVerdict ==
  CASE node.ops = "GAIN" -> GainStepVerdict
    [] node.ops = "INTEGRATOR" -> IntegratorStepVerdict
    [] OTHER -> DiffEqValidate

\* smls_*_infer_shape
InferVerdict ==
  IF In = NULL THEN "INPUT_MISSING"
  ELSE IF Out = NULL THEN "OUTPUT_MISSING"
  ELSE IF \/ node.ops = "INTEGRATOR" /\ edge[In].rank > 1
          \/ node.ops = "DIFF_EQ" /\ ElementCount(edge[In]) # 1
       THEN "UNSUPPORTED_SHAPE"
  ELSE "OK"

-----------------------------------------------------------------------------
(* Calls that configure. Each counts as a change.                          *)

Change == changes < MaxChanges /\ changes' = changes + 1 /\ UNCHANGED <<steps, overrun>>

\* smls_edge_init, on an edge the node may be bound to.
InitEdge(e) ==
  /\ Change /\ EdgeInit(e)
  /\ result' = <<"edge_init", "OK">> /\ inferred' = FALSE
  /\ UNCHANGED <<mem, node, opState, bound>>

BindSignal(e, b, t) ==
  /\ Change /\ SignalBind(e, b, t)
  /\ result' = <<"signal_bind", "OK">>
  /\ UNCHANGED <<mem, node, opState, bound, inferred>>

DeclareShape(e, dims) ==
  /\ Change /\ Reshape(e, dims)
  /\ result' = <<"shape", "OK">> /\ inferred' = FALSE
  /\ UNCHANGED <<mem, node, opState, bound>>

\* Faulty variant: the node is not cleared, its slots survive.
CreateUncleared(type, param, state) ==
  /\ Change
  /\ IF GetOps(type) = NULL
     THEN result' = <<"create", "NULL_PTR">> /\ UNCHANGED <<node, bound, inferred>>
     ELSE /\ node' = [Created(type, param, state) EXCEPT !.inputs = node.inputs, !.outputs = node.outputs]
          /\ bound' = {} /\ inferred' = FALSE
          /\ result' = <<"create", "OK">>
  /\ UNCHANGED <<edge, mem, opState>>

\* smls_node_create: clears the node and leaves the operator's state alone.
Create(type, param, state) ==
  /\ Change
  /\ IF GetOps(type) = NULL
     THEN result' = <<"create", "NULL_PTR">> /\ UNCHANGED <<node, bound, inferred>>
     ELSE /\ node' = Created(type, param, state)
          /\ bound' = {} /\ inferred' = FALSE
          /\ result' = <<"create", "OK">>
  /\ UNCHANGED <<edge, mem, opState>>

\* smls_node_bind_input
BindInput(e, slot) ==
  /\ Change
  /\ IF slot >= MaxSlots
     THEN result' = <<"bind", "NULL_PTR">> /\ UNCHANGED <<node, bound, inferred>>
     ELSE /\ node' = [node EXCEPT !.inputs[slot] = e]
          /\ bound' = bound \cup {<<"input", slot>>}
          /\ inferred' = FALSE /\ result' = <<"bind", "OK">>
  /\ UNCHANGED <<edge, mem, opState>>

\* smls_node_bind_output
BindOutput(e, slot) ==
  /\ Change
  /\ IF slot >= MaxSlots
     THEN result' = <<"bind", "NULL_PTR">> /\ UNCHANGED <<node, bound, inferred>>
     ELSE /\ node' = [node EXCEPT !.outputs[slot] = e]
          /\ bound' = bound \cup {<<"output", slot>>}
          /\ inferred' = FALSE /\ result' = <<"bind", "OK">>
  /\ UNCHANGED <<edge, mem, opState>>

\* smls_node_validate, smls_node_init: the operators have no init callback.
Validate ==
  /\ Change /\ result' = <<"validate", ValidateVerdict>>
  /\ UNCHANGED <<edge, mem, node, opState, bound, inferred>>

NodeInit ==
  /\ Change /\ result' = <<"init", "OK">>
  /\ UNCHANGED <<edge, mem, node, opState, bound, inferred>>

\* Faulty variant: the output is shaped before the input is looked at.
InferShapeEager ==
  /\ Change
  /\ result' = <<"infer_shape", InferVerdict>>
  /\ edge' = IF In = NULL \/ Out = NULL THEN edge ELSE [edge EXCEPT ![Out] = ShapedLike(@, edge[In])]
  /\ inferred' = IF InferVerdict = "OK" THEN Proper(edge[In]) ELSE inferred
  /\ UNCHANGED <<mem, node, opState, bound>>

\* smls_node_infer_shape
InferShape ==
  /\ Change
  /\ result' = <<"infer_shape", InferVerdict>>
  /\ IF InferVerdict = "OK"
     THEN edge' = [edge EXCEPT ![Out] = ShapedLike(@, edge[In])] /\ inferred' = Proper(edge[In])
     ELSE UNCHANGED <<edge, inferred>>
  /\ UNCHANGED <<mem, node, opState, bound>>

\* Faulty variant: clears den_order outputs where one fewer are stored.
DiffEqResetWide ==
  /\ input_hist' = [i \in 0 .. NumOrder - 1 |-> Zero]
  /\ output_hist' = [j \in 0 .. DenOrder - 1 |-> Zero]
  /\ x' = <<>> /\ y' = <<>>

\* smls_diff_eq_reset
DiffEqReset ==
  /\ input_hist' = [i \in 0 .. NumOrder - 1 |-> Zero]
  /\ output_hist' = [j \in 0 .. DenOrder - 2 |-> Zero]
  /\ x' = <<>> /\ y' = <<>>

\* smls_node_reset: only the difference equation has a reset callback.
Reset ==
  /\ Change /\ result' = <<"reset", "OK">>
  /\ IF node.ops = "DIFF_EQ" /\ node.param /\ node.state
     THEN DiffEqReset
     ELSE UNCHANGED <<input_hist, output_hist, x, y>>
  /\ UNCHANGED <<edge, mem, node, acc, taken, bound, inferred>>

-----------------------------------------------------------------------------
(* smls_node_step                                                          *)

\* The step of each operator, on arrays of count elements.
Elements == 0 .. ElementCount(edge[In]) - 1
Input == mem[edge[In].signal]
Written(f) ==
  mem' = [mem EXCEPT ![edge[Out].signal] = [i \in DOMAIN @ |-> IF i \in Elements THEN f[i] ELSE @[i]]]

\* smls_gain_step
GainStep ==
  /\ Written([i \in Elements |-> Mul(K, Input[i])])
  /\ UNCHANGED opState

\* Faulty variant: the first element takes every element's input.
IntegratorStepScalar ==
  /\ acc' = [i \in DOMAIN acc |-> IF i \in Elements THEN Add(acc[i], Mul(Input[0], Dt)) ELSE acc[i]]
  /\ Written(acc')
  /\ taken' = Append(taken, [i \in Elements |-> Input[i]])
  /\ UNCHANGED <<input_hist, output_hist, x, y>>

\* smls_integrator_step
IntegratorStep ==
  /\ acc' = [i \in DOMAIN acc |-> IF i \in Elements THEN Add(acc[i], Mul(Input[i], Dt)) ELSE acc[i]]
  /\ Written(acc')
  /\ taken' = Append(taken, [i \in Elements |-> Input[i]])
  /\ UNCHANGED <<input_hist, output_hist, x, y>>

\* Faulty variant: shifts from the front, which drags one sample through.
DraggedIn(hist, v) == [i \in DOMAIN hist |-> IF i = 0 THEN v ELSE hist[0]]

\* The loops that shift a history by one, then the store at its front.
ShiftedIn(hist, v) == [i \in DOMAIN hist |-> IF i = 0 THEN v ELSE hist[i - 1]]

\* Faulty variant: the feedback reads one output too old.
RecursionLate(inputs) ==
  LET forward[i \in -1 .. NumOrder - 1] ==
        IF i = -1 THEN Zero ELSE Add(forward[i - 1], Mul(Num[i], inputs[i]))
      feedback[i \in 0 .. DenOrder - 1] ==
        IF i = 0 THEN forward[NumOrder - 1]
        ELSE Sub(feedback[i - 1], Mul(Den[i], output_hist[DenOrder - 2]))
  IN  Div(feedback[DenOrder - 1], Den[0])

\* y of smls_diff_eq_step: feedforward added, feedback subtracted term by term.
Recursion(inputs) ==
  LET forward[i \in -1 .. NumOrder - 1] ==
        IF i = -1 THEN Zero ELSE Add(forward[i - 1], Mul(Num[i], inputs[i]))
      feedback[i \in 0 .. DenOrder - 1] ==
        IF i = 0 THEN forward[NumOrder - 1]
        ELSE Sub(feedback[i - 1], Mul(Den[i], output_hist[i - 1]))
  IN  Div(feedback[DenOrder - 1], Den[0])

\* smls_diff_eq_step
DiffEqStep ==
  LET inputs == ShiftedIn(input_hist, Input[0])
      out == Recursion(inputs)
  IN  /\ input_hist' = inputs
      /\ output_hist' = ShiftedIn(output_hist, out)
      /\ Written([i \in {0} |-> out])
      /\ x' = Append(x, Input[0]) /\ y' = Append(y, out)
      /\ UNCHANGED <<acc, taken>>

Effect ==
  CASE node.ops = "GAIN" -> GainStep
    [] node.ops = "INTEGRATOR" -> IntegratorStep
    [] OTHER -> DiffEqStep

OneStep ==
  /\ steps < MaxSteps /\ steps' = steps + 1 /\ result' = <<"step", StepVerdict>>
  /\ UNCHANGED <<edge, node, changes, bound, inferred>>

\* No step looks at the output's element count before it writes that many.
StepRefused == StepVerdict # "OK" /\ OneStep /\ UNCHANGED <<mem, opState, overrun>>

Inside == ElementCount(edge[In]) <= BufferLen[edge[Out].signal]

StepTaken == StepVerdict = "OK" /\ Inside /\ OneStep /\ Effect /\ UNCHANGED overrun

\* Past the end of the output's storage: undefined behaviour, the run ends.
StepOverruns ==
  /\ StepVerdict = "OK" /\ ~Inside /\ OneStep
  /\ overrun' = TRUE /\ UNCHANGED <<mem, opState>>

\* A caller steps only over storage as large as the edges say, and with a
\* state array of dim = number of signal elements.
Step ==
  /\ ~overrun
  /\ In # NULL => StorageFits(edge[In])
  /\ In # NULL /\ node.ops = "INTEGRATOR" => ElementCount(edge[In]) <= StateLen
  /\ Out # NULL => StorageFits(edge[Out])
  /\ StepRefused \/ StepTaken \/ StepOverruns

\* The caller writes its samples where the input is read from.
WriteSignal(s) ==
  /\ ~overrun /\ steps < MaxSteps
  /\ In # NULL /\ edge[In].signal # NULL
  /\ mem' = [mem EXCEPT ![edge[In].signal] = [i \in DOMAIN @ |-> s[i]]]
  /\ result' = <<"write", "OK">>
  /\ UNCHANGED <<edge, node, opState, changes, steps, bound, inferred, overrun>>

-----------------------------------------------------------------------------

\* Edges set up as vectors of n, the input stored in b1 and the output in b2.
Wired(b1, b2, n) ==
  [e \in Edge |-> [signal |-> IF e = InEdge THEN b1 ELSE b2, type |-> "FLOAT32", rank |-> 1,
                   shape |-> [d \in Dim |-> IF d = 0 THEN n ELSE 1]]]

\* A node created with its parameters and state, not yet or already bound.
Prepared(type, i, o) == [Created(type, TRUE, TRUE) EXCEPT !.inputs[0] = i, !.outputs[0] = o]

Init ==
  /\ \E b1, b2 \in Buffer, type \in Ops, n \in VectorLen, i \in {InEdge, NULL}, o \in {OutEdge, NULL} :
       /\ b1 # b2
       /\ type = "DIFF_EQ" => n = 1
       /\ edge = Wired(b1, b2, n) /\ node = Prepared(type, i, o)
       /\ bound = (IF i = NULL THEN {} ELSE {<<"input", 0>>}) \cup
                  (IF o = NULL THEN {} ELSE {<<"output", 0>>})
  /\ mem = [b \in Buffer |-> [i \in 0 .. BufferLen[b] - 1 |-> Zero]]
  /\ acc = [i \in 0 .. StateLen - 1 |-> Zero]
  /\ input_hist = [i \in 0 .. NumOrder - 1 |-> Zero]
  /\ output_hist = [j \in 0 .. DenOrder - 2 |-> Zero]
  /\ x = <<>> /\ y = <<>> /\ taken = <<>>
  /\ inferred = FALSE /\ overrun = FALSE
  /\ result = <<"create", "OK">>
  /\ changes = 0 /\ steps = 0

Configure ==
  /\ ~overrun
  /\ \/ \E e \in Edge : InitEdge(e)
     \/ \E e \in Edge, b \in Buffer, t \in {"FLOAT32", "INT32"} : BindSignal(e, b, t)
     \/ \E e \in Edge, dims \in Shapes : DeclareShape(e, dims)
     \/ \E type \in OpType, param, state \in BOOLEAN : Create(type, param, state)
     \/ \E e \in Edge, slot \in 0 .. MaxSlots : BindInput(e, slot) \/ BindOutput(e, slot)
     \/ Validate \/ NodeInit \/ InferShape \/ Reset

Next == Configure \/ Step \/ \E s \in Signals : WriteSignal(s)

Spec == Init /\ [][Next]_vars

-----------------------------------------------------------------------------

SlotType == [Slot -> Edge \cup {NULL}]

TypeOK ==
  /\ edge \in [Edge -> EdgeType]
  /\ DOMAIN mem = Buffer /\ \A b \in Buffer : mem[b] \in [0 .. BufferLen[b] - 1 -> Fraction]
  /\ node \in [ops : Ops, param : BOOLEAN, state : BOOLEAN, inputs : SlotType, outputs : SlotType]
  /\ acc \in [0 .. StateLen - 1 -> Fraction]
  /\ \A k \in 1 .. Len(taken) : \E n \in 0 .. StateLen : taken[k] \in [0 .. n - 1 -> Fraction]
  /\ input_hist \in [0 .. NumOrder - 1 -> Fraction] /\ output_hist \in [0 .. DenOrder - 2 -> Fraction]
  /\ x \in Seq(Fraction) /\ y \in Seq(Fraction)
  /\ inferred \in BOOLEAN /\ overrun \in BOOLEAN

Law == INSTANCE Recurrence

\* The history buffers of a difference equation are its latest samples,
\* newest first and zero before the first since the reset, whatever refused
\* steps, re-creations and other operators' steps came between.
HistoryIsPast ==
  /\ \A i \in 0 .. NumOrder - 1 : input_hist[i] = Law!Past(x, i)
  /\ \A j \in 0 .. DenOrder - 2 : output_hist[j] = Law!Past(y, j)

\* smls_diff_eq_step computes the recurrence over the whole past, with two
\* short buffers and a reset that clears them.
RefinesRecurrence == Law!Spec

\* smls_integrator_step: element i of the state is the sum of element i of
\* every array taken times dt, also across changes of the signals' length. No
\* call clears the sum, smls_node_reset included: the integrator has no reset
\* callback. What the headers say of a reset is ResetStartsAnew.
IntegratorIsSum ==
  \A i \in DOMAIN acc :
    acc[i] = Mul(Dt, SumOver(1, Len(taken),
                   LAMBDA k : IF i \in DOMAIN taken[k] THEN taken[k][i] ELSE Zero))

\* "Reset runtime mutable state" (smls_node.h): after smls_node_reset of a node
\* with its parameters and state, the operator's state is that of the start.
ResetStartsAnew ==
  result = <<"reset", "OK">> /\ node.param /\ node.state =>
    /\ node.ops = "INTEGRATOR" => \A i \in DOMAIN acc : acc[i] = Zero
    /\ node.ops = "DIFF_EQ" =>
         /\ \A i \in DOMAIN input_hist : input_hist[i] = Zero
         /\ \A j \in DOMAIN output_hist : output_hist[j] = Zero

\* smls_node_create clears the node: no slot holds an edge that was bound to
\* the node it was before.
NoStaleBinding ==
  \A s \in Slot : /\ node.inputs[s] # NULL => <<"input", s>> \in bound
                  /\ node.outputs[s] # NULL => <<"output", s>> \in bound

\* A call that returns an error has changed no edge, signal, node or state:
\* the caller may repair what was wrong and go on.
FailedCallChangesNothing ==
  [][result'[2] # "OK" => UNCHANGED <<edge, mem, node, opState>>]_vars

\* Where the output's shape comes from smls_node_infer_shape of a proper input
\* and nothing was declared or bound since, a step stays inside the output's
\* storage, although inference leaves old trailing dimensions in place.
InferredStepStaysInside == overrun => ~inferred

=============================================================================
