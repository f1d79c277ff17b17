# Simuless: specifications, model checking, proofs

TLA+ modules for Simuless, a C library for telemetry, signal blocks and small
IO on PCs and microcontrollers. Each module is written from the source it
names; `PROJECT.json` maps every definition to its lines. TLC checks the
modules on small instances (`*.cfg`), TLAPS proves the theorems of the
`*_proofs` modules for every value of the constants.

## The system

| Component | State | Operations | Uses |
|---|---|---|---|
| Frame format, encoder (`telemetry/inc/smls_frame.h`, `src/smls_frame_encoder.c`) | none | `smls_frame_encode` | |
| Frame parser (`telemetry/src/smls_frame_parser.c`) | byte buffer of `sizeof(frame_t)`, fill index | `init`, `input`, `get` | frame format |
| Ring buffer (`smls_runtime/src/smls_ringbuf.c`) | storage of the caller, `head`, `tail`, `size` | `init`, `push`, `pop`; readers `latest`, `at`, `empty`, `full`, `size` | |
| Gnuplot scope (`smls_runtime/src/gnuplotter.c`) | a pipe, `initialized` | `init`, `close`, `set_yrange`, `plot_*` | ring buffer |
| IO object (`smls_io/src/smls_io.c`) | `ops`, `kind`, `priv` | `create`, `destroy`, `push`, `pop`, `poll` | a backend |
| TCP backend (`smls_io/src/smls_io_tcp.c`) | `sock`, `listen_sock`, `is_server`, `nonblock`, host, port | the five callbacks | socket port |
| Socket ports (`smls_io/src/port/*`) | none; the descriptor table of the system | BSD calls, `set_nonblock`, `socket_poll` | the system |
| URI parser (`smls_io/src/smls_uri.c`) | none | `smls_uri_parse_scheme` | |
| Edges (`smls_runtime/src/smls_edge.c`) | pointer to the caller's array, type, rank, shape | `init`, `signal_bind`; the caller sets rank and shape | |
| Nodes (`smls_node.c`, `smls_op*.h`) | operator table, parameter and state pointers, slots, `dt` | `create`, `bind_input`, `bind_output`, `validate`, `infer_shape`, `init`, `step`, `reset` | an operator, edges |
| Operators (`smls_gain.c`, `smls_integrator.c`, `smls_diff_eq.c`) | integrator sum; input and output history | the callbacks of the table | element count |
| Linear algebra (`smls_math`) | caller's arrays; a Cholesky factor that is updated in place | solvers, factorizations, spectrum, block moves, nonlinear solver | each other |
| OSAL (`osal`) | none | time, network start-up | |

How they interact. A program encodes frames and hands the bytes to a stream,
an IO object for instance; at the other end it pops bytes, feeds them to the
parser in the pieces in which they arrive, and asks for frames until there is
none. The IO object calls its backend through `ops`; the backend calls the
socket port. Nodes read their input edges and write their output edges when
they are stepped; samples go to ring buffers, which the scope plots. Nothing
in the library starts a thread or takes a lock: concurrency comes from the
other end of a connection, from the line, and from the rest of the process,
which shares the descriptor table.

What makes each component correct:

* Parser: no frame lost, invented, repeated or reordered, wherever chunks
  end; back in step after noise; no endless loop; no unwritten cell read.
* Ring buffer: it is the window of the newest samples, for every reader.
* IO over TCP: no leaked and no doubly closed descriptor on any path; popped
  bytes are one peer's stream; readiness that can be relied on; a waiting
  peer is accepted.
* Nodes and operators: the histories hold the samples the recurrence names,
  whatever calls come between two steps; a reset of the difference equation
  clears both histories (the integrator has none, see `runtime_reset`); a refused
  call leaves everything as it was; a node created again remembers no edge; after
  inference a step stays inside the output's array.
* Linear algebra: each routine returns what it is for, judged by its
  definition (the equation, the product of the factors, the characteristic
  polynomial) and not by how it is computed; in-place updates may follow each
  other.

What is hard is the list `hazards` of `PROJECT.json`, each at its line, with
the properties that would catch it.

## Modules

| Module | Models | Notes |
|---|---|---|
| `FrameFormat` | frame sizes, the tests a frame must pass | constants `Byte`, `Magic`, `HeaderLen`, `MaxPayload`, `PayloadLen(_)`, `Checksum(_)` |
| `FrameParser` | the parser, one step per call | `Input(chunk)`, `Get` |
| `FrameParserLoop` | the parser, one step per loop iteration, over the array | implements `FrameParser` |
| `TelemetryLink` | encoder, line, parser and receiver loop | extends `FrameParser` |
| `SampleWindow` | what a ring buffer promises | abstract |
| `RingBuf` | the ring buffer, its readers, the samples of the plots | implements `SampleWindow` |
| `Sockets` | descriptor table, connections, listen queue, peers | environment |
| `TcpIo` | one IO object on the TCP backend | extends `Sockets` |
| `Rational` | float arithmetic without rounding | fractions, one NaN, `for` loops |
| `Edges` | edges, element counts, shape inference | extends `Rational` |
| `Recurrence` | what a difference equation promises | abstract |
| `Runtime` | a node, its edges and arrays, the three operators, their caller | extends `Edges`, implements `Recurrence` |
| `Matrix` | sums, products, norms, block moves, Hankel matrices | arrays row after row, as stored |
| `LinearSolve` | `lup`, `det`, `inv`, `chol`, `cholupdate`, `qr`, `dlyap`, all `linsolve_*` | extends `Matrix` |
| `Spectral` | `balance`, `eig`, one-sided Jacobi, sorting, `pinv`, `expm` | extends `LinearSolve` |
| `NonlinSolve` | `smls_nonlinsolve`, one step per iteration | |
| `MathCalls` | a caller of all of them, and what it may expect | extends `Spectral`, `NonlinSolve` |
| `FrameFormat_proofs` | lemmas about byte strings and frames | used by the two below |
| `TelemetryLink_proofs`, `FrameParserLoop_proofs` | theorems of the parser, the link, and the parser's loops | |
| `Matrix_proofs` | the algebra of fractions, loops, sums and matrices | used by the two below |
| `Runtime_proofs`, `MathCalls_proofs` | theorems of the nodes and of linear algebra | |
| `RingBuf_proofs`, `TcpIo_proofs` | theorems of these modules | |
| `MC*` | values of the operator constants for TLC | |

Definitions called a *faulty variant* are mistakes somebody could make in the
code; each property is known to be violated when one of them replaces the
definition it precedes.

**Parser.** `buffer` is `parser->buffer[0 .. index-1]`, so `index` is its
length. `Input` appends a chunk and keeps the newest `BufSize` bytes, which is
what the loop of `smls_frame_parser_input` amounts to. `Get` discards a number
`n` of false syncs (no magic, impossible length, wrong checksum) and then
returns a frame or nothing. `fed`, `base`, `overrun` and `out` are history:
everything fed, how much has left the buffer, which positions fell to an
overflow, which frames came out where. `FrameParserLoop` has the array and the
index, unwritten cells included, and one action per way through the loop body.
The header fields the parser does not read are one opaque tag; the checksum is
a parameter of the proofs and exclusive or in the runs.

**Link.** `Send` is `smls_frame_encode`, `Noise` and `Damage` are what the
tests do to the stream, `Read` and `Drain` are `feed_stream_random_chunks`.

**Ring buffer.** Variables and actions have the names of the code. The readers
are operators; `Samples` maps the live cells, oldest first, to the window.

**TCP.** `ctx`, `kind` and the calls are those of the code; `result` is the
last call and its value; `got` is the history of popped bytes. A call is one
step, since nothing else in the process touches the object, and the world
(`World`) moves between calls: peers connect, send and close, connects in
progress are answered, other parts of the process open and close descriptors,
which are numbered lowest first, as POSIX has it. A blocking call that has
to wait is a step that is not enabled. `Readable` is `select` for reading. Any
call after `socket` may fail, `MaxFaults` times. A send to a peer that has
closed provokes a reset, and the next one SIGPIPE, since `send` has no flags
and nothing in the library ignores the signal. The caller creates before it uses
the object and destroys before it creates again, as the tests do: `create` on an
open object forgets the sockets it held, which `smls_tcp_ctx_reset` does not
close.

**Nodes.** `node` is one `smls_node_t`, `edge` and `mem` are the edges and
arrays a caller owns, `acc`, `input_hist` and `output_hist` the states of the
operators. They outlive the node: `Create` clears slots and pointers and leaves
the states, as the code does. Each verdict (`GainValidate`,
`IntegratorStepVerdict`, ...) is the sequence of tests of one callback, in its
order, and yields the error of the first that fails. Calls that configure are
counted by `changes`, steps by `steps`. `StepOverruns` is a step whose input has
more elements than the array behind the output holds: undefined behaviour, at
which the run ends. `x`, `y`, `taken`, `bound` and `inferred` are history.

**Linear algebra.** A routine is an operator from arrays to arrays. `For` is a
C loop, so in-place updates keep the order the code gives them; loops whose
iterations do not touch each other are written as one function. Values are exact
fractions: the tests against `FLT_EPSILON` are tests against zero, and the
inputs are chosen so that the roots a routine takes are roots of squares. What
rounding does to a result is not in the model.

The library does some things that the properties have to leave room for. They
are listed with their lines under `hazards`: the sign of a determinant of four
rows and more is derived from the number of displaced rows, which is wrong for
two exchanged pairs (`SpectrumKept` asks for the determinant up to three rows,
`matrices_det` shows four); `cat` side by side copies two rows whatever the number of
rows, and a Hankel matrix narrower than the signal gets rows that are too short
(`BlocksMove` asks for the first two rows and for the wider ones); one-sided Jacobi
divides zero by zero for orthogonal columns of one length; `norm` takes the first row without absolute values, which ends the series
of `expm` early; `tikhonov` clears too much where there are more rows than
columns; `lup` keeps row numbers in bytes; `nonlinsolve` returns uninitialised
memory when no residual is finite. A property that excludes such a case says so in
its comment.

## Runs

| Run | Instance | Shows |
|---|---|---|
| `parser` | bytes 0..3, magic 3, header of 2, payload up to 2 (buffer of 5), chunks up to 3, 8 bytes | `BufferIsStreamSuffix`, `ReturnedFramesWereSent`, `ReturnedInOrder`, `NoFrameSkipped`; no deadlock |
| `parser_loop` | the same, 6 bytes | `FilledIsStream`, `EveryCallReturns`, `RefinesCalls` |
| `link` | header of 3, payload up to 3 (buffer of 7), frames of 1 and 2 (4 is refused by the encoder), 3 frames, 1 noise byte (not the magic byte; streams with stray ones are in `parser`), 1 damaged byte anywhere but in the length field, chunks up to 2 | undamaged: `ReceivedIsPrefixOfSent`, `DrainedMeansDelivered`; damaged: `DamageIsContained` |
| `ringbuf` | capacity 4, 3 samples | `HeadFollowsTail`, `ReadersAgree`, `RefinesWindow` |
| `tcp` | server and client, 3 descriptors, 2 connections, 2 bytes each, 2 foreign descriptors, 1 fault | `HoldsItsSockets`, `ForeignStaysOpen`, `PoppedIsOneStream`, `ReadyMeansPopReturns`; with a caller that polls: `WaitingPeerIsAccepted` |
| `runtime` | 2 edges, arrays of 2 and 4 elements, shapes `<<>>`, `<<2>>`, `<<2, 2>>`, 1 slot, a filter of second order over second order, 2 configuring calls and 3 steps in every order | `HistoryIsPast`, `IntegratorIsSum`, `NoStaleBinding`, `InferredStepStaysInside`, `FailedCallChangesNothing`, `RefinesRecurrence` |
| `matrices` | families of matrices of 2 to 4 rows, blocks of 1 or 2 rows and columns in matrices of 2 to 4 rows, Hankel matrices of 1 or 2 signals of up to 5 samples, up to 6 columns (as wide as the signal or wider) and 6 blocks and shifts up to 2, 2 updates of a factor, 4 iterations of each loop of the nonlinear solver | `SolversSolve`, `AnswersWhereItCan`, `InverseInverts`, `FactorFollowsUpdates`, `QrFactors`, `SpectrumKept`, `ColumnsFollowValues`, `BlocksMove`, `ExponentialIsSeries`, `ReturnsBestPointMet` |

Why the bounds suffice. Two-bit bytes make magic bytes, plausible lengths and
matching checksums appear by chance everywhere in the stream, which with real
bytes is rare. A stream of 8 bytes into a buffer of 5 overflows, holds a whole
frame after the overflow, and holds frames inside frames. In `link`, chunks of
2 and frames of at most 6 bytes fit the buffer of 7 whatever was left in it,
the condition under which nothing overflows; `link_overflow` shows the other
side. Capacity 4 has every distance between head and tail, and the sequences
of operations are not bounded. Three descriptors and two foreign ones let the
table be full when `socket` or `accept` wants one, and let a number the library
gave back be somebody else's before its next call; two connections are what it
takes to confuse one with the other or to leave one waiting, and two bytes each
to repeat or reorder what one of them sent.

In `runtime`, two histories of more than one cell tell a shift from a copy, and
the third step is the first whose recurrence reads every cell; two configuring
calls make a reset, a re-creation, a new shape and the inference after it fall
between steps. A vector of 2 fits both arrays and a matrix of 2 by 2 only the
larger one, so that a step can leave its storage. `CountMod` is too large to wrap
here: wrapping counts need arrays no instance has. Nothing but the NULL tests
depends on the number of slots.

In `matrices`, three rows are the fewest with a permutation that is not its own
inverse, four the fewest with two exchanged pairs (in `matrices_det`). Eight rows, combined in threes,
give regular and singular systems with every order of pivots, a zero last pivot and
ties; the 3, 4, 5 rotations give orthogonal factors without roots. Factors
with two elements below the diagonal and an update after another reach the use
of an overwritten value. The nonlinear solver gets every sequence of two finite
residuals, an infinite one and a NaN.

Deadlock is checked where the system must always have a step (`parser`,
`parser_loop`, `ringbuf`). A link whose sender has reached its bounds and a
process killed by SIGPIPE do stop, so the other
runs do not check it, nor do `runtime` and `matrices`, whose callers stop at
their bounds.

### What the code does against its words

Each of these runs ends in a violation that TLC finds; `findings` quotes the
line that says otherwise.

| Run | Behaviour |
|---|---|
| `link_overflow` | a chunk with the last byte of a largest frame and the first of the next loses the frame |
| `ringbuf_plot_n` | the plot of several ring buffers indexes from `head` modulo `size` |
| `tcp_sigpipe` | the second push after the peer has closed ends the process |
| `runtime_reset` | `smls_node_reset` leaves the sum of an integrator as it was |
| `matrices_det` | the determinant of a 4 by 4 matrix whose rows are exchanged in two pairs has the wrong sign |

The other disagreements met have no run of their own; the properties that leave them out
say so, and so do the notes of their hazards: the encoder makes frames with an empty
payload, which the parser discards; a nonblocking connect that was refused is
reported as open, then as ready, and only a pop or push fails; `cat` side by side writes two
rows only; the rows of a Hankel matrix narrower than the signal are cut short.

## Fairness

* `FrameParserLoop`: weak fairness of the iteration of a call that is running.
  A C loop goes on; calls themselves are not fair.
* `TcpIo`, `PollingSpec`: weak fairness of `Poll`, the loop of
  `wait_until_ready` in `tests/smls_io_tcp_test.c`. Peers, and the number of
  failing calls, are arbitrary, the latter within its bound. All other runs
  over TCP assume no fairness.
* `TelemetryLink` has none: its properties are about what has been drained.

## Proofs

The theorems hold for every value of the constants the assumptions admit.
Unless said otherwise a theorem `T` is `Spec => []P` for the property `P`, proved
from an invariant `IInv` that the initial states satisfy, every step keeps, and
that implies `P`; the proof that steps keep it has a lemma for every action.

**Parser** (first part of `TelemetryLink_proofs`; byte strings in `FrameFormat_proofs`). Assumed:
sizes are positive, the length field is a natural number, the magic byte is a
byte. Nothing is assumed of the checksum. `NoFrameSkipped` is not inductive: that
no frame starts at a position now does not say that none will when more bytes
have arrived. `IInv` has `Settled` instead: a position before `base` is a false
sync of the whole stream, or fell to an overflow, or lies in a frame returned. A
false sync is stable: every test the parser fails looks only at bytes that are
there, which is `FalseSyncStable`. Proved: `TypeCorrect`, `BufferFollowsStream`,
`ReturnsStreamFramesOnly`, `ReturnsInOrder`, `SkipsNoFrame`.

**Parser, loop by loop** (`FrameParserLoop_proofs`). Assumed besides: an
unwritten cell is told from a byte. The array is compared with the parser
the caller saw last (`seen`). In a `get`, everything discarded since is a false
sync of that parser's buffer; in an `input`, what is stored and what is still to
be stored make up one chunk, and bytes have left the array only since it was full.
This is what makes every step of a loop a stutter of `FrameParser` and every return
one call of it: `ImplementsCalls`, with `TypeCorrect` and `ReadsStreamOnly` (no
unwritten cell below `index`, in the middle of a call too).

**Link** (second part of `TelemetryLink_proofs`). Assumed: `LinkAssumption` gives the constants
their types; `ChecksumAssumption` says that the checksum is a byte and differs for
two strings that differ in one byte, which an exclusive or does;
`DamageAssumption`, that damage spares the length field, as the runs have it. The
theorems have a hypothesis, `CleanLine`: frames are not empty, noise has no
magic byte, and a header or a frame short of one byte leaves room for a chunk. The
telemetry tests satisfy it (header of 16, payloads up to 128, chunks up to 16,
a buffer of 273), and so does run `link`; `link_overflow` shows what happens
where a chunk finds no room, and an empty frame is discarded. The invariant says where the bytes
of each frame are, on the line or in the buffer; that on an undamaged line
no other byte looks like a frame start; and that a parser that was drained
holds less than one frame and so has room for the next chunk, so that nothing is
ever pushed out. From it: `DeliversPrefix`, `DeliversAtOnce`, and, with
`MaxDamage <= 1`, `DamageStaysContained`; two damaged bytes of one frame may cancel
each other in an exclusive or. `LinkTypeCorrect` needs no hypothesis: whatever the caller asks
for, what the encoder returns fits the caller's `frame_t`.

**Ring buffer** (`RingBuf_proofs`). Assumed: a positive capacity. All remainders in
the code are of numbers below twice the capacity, so `ModOnce` replaces them by a
case distinction; `Invariance` is types and `head = (tail + size) % capacity`;
`ImplementsWindow` maps every step to a step of `SampleWindow`. Also `TypeCorrect`
and `ReadersAlwaysAgree`.

**TCP** (`TcpIo_proofs`). Assumed: finitely many descriptors and connections.
The three properties need each other and more: which entry of the table
each handle names at each stage of the object's life (`ObjectInv`), that a
descriptor of a connection names a live one and no other does (`TableInv`), that
the listen queue has every waiting peer once and exists only while somebody listens
(`BacklogInv`), that nothing is read from a connection that is not up
(`UnreadInv`), and that what was popped is exactly what was read of the connection
the object holds (`StreamInv`, the inductive form of `PoppedIsOneStream`). Every
failing path of `create`, `push`, `pop`, `poll` and `destroy` is a case of its lemma.
Proved: `TypeCorrect`, `OwnsItsSockets`, `PopsOneStream`, `ReadyIsReady` as
invariants, `LeavesOthersAlone` as an action property.

**Arithmetic** (`Matrix_proofs`). Nothing is assumed: the module proves what the
next two need of the definitions of `Rational` and `Matrix`. `Gcd` is a recursive
function on pairs; that there is such a function, that it yields a divisor and a
combination of its arguments (Bezout) is proved by induction over sets of numbers
(`Induct`), hence a fraction has one form in lowest terms, `Quotient` returns it
(`QuotientStands`), and addition and multiplication are associative, commutative
and distributive, NaN included (`AddAssociative`, `Distributes`, `SubtractsSum`,
...); numbers are an ordered field, and a fraction whose terms are squares is the
square of its root (`RootSquared`). Loops are functions that satisfy their equation
(`LoopExists`), so that an invariant that holds at the start and is kept by each
pass holds at the end; sums are the last of their partial sums (`Sums`,
`SumsAgree`) and may be taken in either order. Hence the laws of matrices: products
are associative (`ProductAssociative`), the transpose of a product is the product of
the transposes, and where a cell of an array of rows lies (`CellOf`, `PartsOf`).

**Nodes and operators** (`Runtime_proofs`). Assumed: the constants have their types,
the first edges differ, `NULL` is no edge, each polynomial has a coefficient;
parameters, coefficients and the caller's samples are fractions (or NaN), and the
sample period is one that is not NaN. The arithmetic is that of `Matrix_proofs`.

* `TypeCorrect`: every history, slot and array keeps its length, and every
  sample is a fraction in lowest terms.
* `ErrorsChangeNothing` needs no invariant: each action that answers an error
  leaves its state, by its own disjuncts. `SlotsAreFresh` is inductive as it stands.
* `HistoriesArePast`: the buffers hold the latest of `x` and `y`, because shifting
  a sample in keeps up with appending it (`ShiftHolds`).
* `ImplementsRecurrence` is `Spec => RefinesRecurrence`: with buffers that hold the
  past, the code's loop that subtracts the feedback term by term
  computes the difference of two sums (`RecursionIsDifference`), which is the
  recurrence; every other call is a stutter or a reset of `Recurrence`.
* `IntegratesSums`: what the code adds up sample by sample is dt times a sum, for
  arrays of any length and of lengths that change (`SumInv`).
* `InferredStaysInside` has a hypothesis, `NoWrap`: no declared dimension is zero, and
  the products of the largest dimensions stay below 2^32. Under it element counts
  grow with the dimensions (`CountMonotone`), and the old trailing dimensions an
  inference leaves in the output can only make its count larger. The instance of
  `runtime` satisfies it (dimensions up to 2 and 2, counts modulo 64); shapes of
  up to four dimensions below 256 do. With a zero left in a trailing dimension, or a
  count that wraps, the output's storage may be smaller than what is written.

**Linear algebra** (`MathCalls_proofs`). Assumed, as `CallsAssumption`: arrays have
the lengths their callers name and hold numbers; `inv` and `linsolve_lup` get at most
256 rows (`P` is an array of bytes), `qr`, which inverts and squares its number of rows
in 16 bits, at most 255, and `dlyap`, whose system has the square of its rows, at most
16; `linsolve_gauss` gets no more rows than columns; a matrix for Cholesky is `L L'` for
some factor `L` (the constant `Roots`); a matrix for `expm` has no negative entry and
a third power of zeros, and its loop at least three passes (`Turns`). There is no bound
besides, and no choice of matrices.

* A state of `Spec` after a call holds what the routine computes from the arguments of
  the call (`AnswersInv`); everything else is about the routines, one section each.
* `lup`: after column `i`, and for every vector `x`, each row of the matrix times `x`
  is what the multipliers stored so far and the rest of the array, rows taken
  through `P`, make of `x` (`Factored`); `P` stays a permutation and the pivots
  chosen are not zero (`LupRuns`). The search finds a non-zero element where there is one
  (`PivotScan`); where there is none, or the last pivot is zero, a vector other than
  zero is mapped to zero, and only there: `inv` gives up exactly on singular
  matrices (`UnsolvableIsSingular`, `SolvableIsRegular`).
* Substitution forward and backward solves what is left, element by element
  (`ForwardRuns`, `BackwardRuns`), for a right-hand side permuted by `P`. Hence
  `RegularSystemsSolved` for `linsolve_lup`. For `inv` it is done once for each unit
  vector and the rows are transposed: `InverseIsExact` is `InverseInverts`, and
  `InverseWhereRegular` says when it succeeds.
* `triu` exchanges nothing; its pivots are not zero where no leading block is
  singular (`TriuPivot`). For `alpha > 0` the regularized matrix `M'M + alpha I` is
  positive definite, and so are its leading blocks (`RegularizedIsDefinite`, from `Adjoint`:
  `x'(M'y) = (M x)'y`). `RegularizedSystemsSolved` says both of `linsolve_gauss`.

* Blocks: `cut`, `insert` and each block row of `hankel` copy rows (`RowsCopied`). Copies
  no wider than the distance of two rows do not overlap, so a row stays as it was copied
  (`CopyRuns`); the rest says which row and column a cell is (`InsertedBack`,
  `StackedAgain`, `JoinedAgain`, `HankelStep`). `BlocksKeepTheirPlace` is `BlocksMove`.
  Assumed: the block lies in the matrix, which has two rows or more (with one, `cat` side
  by side leaves the arrays), and `hankel` stays inside its arrays
  (`HankelStaysInside`: no load is negative, reads past the signal or writes past `H`);
  where it does and is as wide as the signal, every load ends with the signal or with the
  row (`SafeHankelFits`). Of matrices side by side the theorem is about the first two rows,
  of Hankel matrices about those as wide as the signal or wider: the rest of what the
  headers promise the code does not do.

* What is made of numbers solves: wherever a substitution ends in numbers no divisor
  was zero (`UpperNumbers`, `NumbersAreSolvable`), and a zero pivot of `triu`
  stays one (`StuckStays`). So `AnswersAreSolutions`, which is `SolversSolve`, needs no
  notion of regular. Its parts: `LupNumbersSolve`, `GaussNumbersSolve`, `CholSolves`,
  `QrNumbersSolve`, `LyapunovSolves`.
* `dlyap`: the blocks inserted so far are multiples of `A` (`KroneckerStage`), the
  whole is one less `A` times `A` in the sense of Kronecker, and that matrix applied to
  the rows of `P` is `P - A P A'` (`KroneckerImage`).
* `qr`: a reflection of a column of numbers with a root is its own transpose and its
  own inverse (`ReflectionTwice`), and clears the column below the diagonal. After
  column `k`, `H` is orthogonal, `H A = R`, and `R` is zero under its diagonal up to column
  `k`; or a column could not be normalized, and no cell of `R` is a number ever after
  (`QrStage`). `H` is invertible, so the inversion at the end succeeds, and its result
  is the transpose. `ReflectionsFactor` is `QrFactors`.
* `chol`, cell after cell, takes the roots of squares: what it computes of `L L'` is `L`
  (`CholIs`). An update keeps, after column `k`, that `L L' + sign x x'` restricted to the
  rest of `x` is the matrix aimed at (`Follows`); or it has stopped, or a root
  was not a fraction, and a cell of `L` shows it (`UpdateStage`). `FollowInv` carries it from
  call to call: `sum` is the matrix of which `result.L` is the factor, as long
  as no downdate stopped. `FactorIsExact` is `FactorFollowsUpdates`.
* The sort of singular values: after place `i`, one permutation says where each value, its
  column of `U` and its column of `V` came from, and the values up to `i` are the largest,
  in order (`SortStage`). The columns may hold anything.
* `svd`: a rotation of two columns of `A`, and of the same columns of `V`, changes two terms of
  every cell of `A V'` and keeps their sum (`RotationKeeps`), because the cosine and
  sine `Angle` finds lie on the unit circle (`AngleIs`); or no angle was found and a column
  of `A` has no number in it ever after (`Stays`). So does an exchange of the bubble sort,
  whose every pass puts one more of the smallest values in its place (`BubbleStage`).
  Where the columns divided by their lengths are numbers, multiplying undoes it
  (`SvdIs`). Nothing depends on the number of sweeps: more of them make `U` orthogonal, which
  is not claimed. `ColumnsKeepTheirValues`, which is `ColumnsFollowValues`, says this of `svd`
  and of the sort.
* `expm`: the loop goes on while the norm of the last term is positive. Without negative
  entries no term has any (`ProductUnsigned`), so its norm is positive if an entry is
  (`NormPositive`), and the loop does not end before the term that is zero; where `A A` is
  zero already it ends earlier, with the same sum (`SeriesStage`). `SeriesIsExponential` is
  `ExponentialIsSeries`.

Roots are exact in the model, and NaN where a number is not the square of a fraction:
the theorems about `qr`, `svd`, `chol` and its updates are about the matrices for which no such
root is met, which they say as "made of numbers". The families of the run are such matrices.

The theorems call a matrix `Singular` when it maps a vector other than zero to zero;
`AnswersWhereItCan` asks whether its sum of Leibniz is zero. That the two are the same for
every size is a fact about determinants that is not proved here. `InverseWhereRegular`,
`RegularSystemsSolved` and `RegularizedSystemsSolved` are what is proved of
`AnswersWhereItCan`, with the former notion.

**Nonlinear solver** (last section of `MathCalls_proofs`). Assumed: residuals are
natural numbers, an infinity or a NaN, and the loops run at least once.
`ReturnsBest`, of `SolverSpec`, the solver alone, and `ReturnsBestInCalls`, of the calls: at
every moment the solver keeps the earliest of the best points met (`BestInv`), and the
point it will evaluate next is a new one, or one met before, whose residual cannot
beat the best any more (`PointInv`).

Only model-checked:

* Liveness (`EveryCallReturns`, `WaitingPeerIsAccepted`), out of the prover's
  reach.
* `AnswersWhereItCan`, except what is said above of `lup`, `inv` and `gauss`, and
  `SpectrumKept`: sums over permutations and subsets by the folds of the community
  modules, which the provers cannot induct over.

## Not modelled

* Rounding, overflow and denormals of floats, and what is decided by them: the
  shifted QR iteration of `eig` on blocks of three rows and more, `eig_sym`, both
  reductions of `svd_golub_reinsch` (its sort is modelled). They iterate
  until rounding absorbs the rest; exact fractions have no such end.
* `sum`, `mean`, `stddev`, `constrain`, `sign`: one expression each. `print`
  and `randn`: output, and random numbers.
* The Windows and lwIP ports, which wrap the same calls; the URI scheme
  comparison; text, axes and styles sent to gnuplot; the OSAL.
* Headers without an implementation: `smls_graph.h`, `smls_expr.h`.
* A bind that fails because the port is in TIME_WAIT is one of the faults. Calls
  with NULL arguments return before they do anything and are left out.
* `timestamp_us` and `sequence` of an edge, which no code advances or reads.

## Plan

Done: telemetry, the ring buffer, IO over TCP, edges, nodes and operators, linear
algebra, with theorems for every invariant, action property and refinement the
runs check, except those listed as only model-checked. Left, in this order:

1. Gnuplot scope, beside `RingBuf`: life of the pipe, guards of
   `plot_ringbuf_n`.
2. Telemetry over the IO object: frames cut by `push` and `pop`, reconnects,
   a sender that must tell "would block" (-1) from an error.
3. A chain of two nodes over a shared edge.
