-------------------------- MODULE FrameParserLoop --------------------------
(***************************************************************************)
(* smls_frame_parser.c at the grain of its loops: the array                *)
(* parser->buffer with the fill level parser->index, one step per byte     *)
(* Input stores and per iteration of the while (1) of Get. memmove leaves  *)
(* the cells behind the new fill level as they were, and cells nothing was *)
(* ever written to hold Uninit: smls_frame_parser_init clears only index.  *)
(*                                                                         *)
(* seen is what the caller finds between two calls, and the refinement     *)
(* mapping: it takes the live values when a call returns and keeps those   *)
(* from before the call while one runs.                                    *)
(***************************************************************************)
EXTENDS FrameFormat

CONSTANTS MaxChunk, StreamLen, Uninit

ASSUME UninitAssumption == Uninit \notin Byte

VARIABLES
  mem, index,             \* parser->buffer and parser->index
  pc,                     \* the loop that runs, "input" or "get", or "idle"
  todo,                   \* what Input has not stored of data[0 .. len-1]
  fed, base, overrun,     \* history, as in FrameParser
  seen                    \* history: the state as of the last return

live == <<mem, index, fed, base, overrun>>
vars == <<live, pc, todo, seen>>

Chunk == UNION {[1 .. n -> Byte] : n \in 1 .. MaxChunk}

Filled == SubSeq(mem, 1, index)

Init ==
  /\ mem = [i \in 1 .. BufSize |-> Uninit]
  /\ index = 0
  /\ pc = "idle"
  /\ todo = <<>>
  /\ fed = <<>>
  /\ base = 0
  /\ overrun = {}
  /\ seen = [buffer |-> <<>>, result |-> 0, fed |-> <<>>, base |-> 0,
             overrun |-> {}, out |-> <<>>]

\* Faulty variant: one byte too few is moved.
SlideShort(n) == [i \in 1 .. BufSize |-> IF i < index - n THEN mem[i + n] ELSE mem[i]]

\* memmove(buffer, &buffer[n], index - n)
Slide(n) == [i \in 1 .. BufSize |-> IF i <= index - n THEN mem[i + n] ELSE mem[i]]

\* Faulty variant: the loop is not left.
ReturnStays(result, out) ==
  /\ seen' = [buffer |-> Filled', result |-> result, fed |-> fed',
              base |-> base', overrun |-> overrun', out |-> out]
  /\ UNCHANGED pc

Return(result, out) ==
  /\ pc' = "idle"
  /\ seen' = [buffer |-> Filled', result |-> result, fed |-> fed',
              base |-> base', overrun |-> overrun', out |-> out]

-----------------------------------------------------------------------------

CallInput(chunk) ==
  /\ pc = "idle"
  /\ Len(fed) + Len(chunk) <= StreamLen
  /\ pc' = "input"
  /\ todo' = chunk
  /\ UNCHANGED <<live, seen>>

CallGet ==
  /\ pc = "idle"
  /\ pc' = "get"
  /\ UNCHANGED <<live, todo, seen>>

\* One iteration of smls_frame_parser_input.
InputByte ==
  LET full == index >= BufSize
      room == IF full THEN Slide(1) ELSE mem
      next == IF full THEN index ELSE index + 1
  IN  /\ pc = "input"
      /\ mem' = [room EXCEPT ![next] = Head(todo)]
      /\ index' = next
      /\ fed' = Append(fed, Head(todo))
      /\ base' = IF full THEN base + 1 ELSE base
      /\ overrun' = IF full THEN overrun \cup {base} ELSE overrun
      /\ todo' = Tail(todo)
      /\ IF Len(todo) = 1 THEN Return(seen.result, seen.out)
                          ELSE UNCHANGED <<pc, seen>>

\* Faulty variant: `continue` without discarding the byte.
DiscardNothing ==
  /\ pc = "get"
  /\ HasHeader(Filled)
  /\ GoodHeader(Filled) => HasFrame(Filled) /\ ~GoodChecksum(Filled)
  /\ UNCHANGED vars

\* One iteration of smls_frame_parser_get that ends in `continue`.
DiscardByte ==
  /\ pc = "get"
  /\ HasHeader(Filled)
  /\ GoodHeader(Filled) => HasFrame(Filled) /\ ~GoodChecksum(Filled)
  /\ mem' = Slide(1)
  /\ index' = index - 1
  /\ base' = base + 1
  /\ UNCHANGED <<pc, todo, fed, overrun, seen>>

\* The two early returns for want of bytes.
ReturnNothing ==
  /\ pc = "get"
  /\ HasHeader(Filled) => GoodHeader(Filled) /\ ~HasFrame(Filled)
  /\ UNCHANGED <<live, todo>>
  /\ Return(0, seen.out)

\* Steps 6 and 7: copy the frame to out_frame, remove it, return 1.
ReturnFrame ==
  LET total == FrameSize(ClaimedLen(Filled))
  IN  /\ pc = "get"
      /\ FrameAtFront(Filled)
      /\ mem' = Slide(total)
      /\ index' = index - total
      /\ base' = base + total
      /\ UNCHANGED <<todo, fed, overrun>>
      /\ Return(1, Append(seen.out, [at |-> base, bytes |-> SubSeq(mem, 1, total)]))

Call == CallGet \/ \E chunk \in Chunk : CallInput(chunk)
Iterate == InputByte \/ DiscardByte \/ ReturnNothing \/ ReturnFrame

Next == Call \/ Iterate

\* A call that is running goes on running; whether there is another call is
\* the caller's business.
Spec == Init /\ [][Next]_vars /\ WF_vars(Iterate)

-----------------------------------------------------------------------------

TypeOK ==
  /\ mem \in [1 .. BufSize -> Byte \cup {Uninit}]
  /\ index \in 0 .. BufSize
  /\ pc \in {"idle", "input", "get"}
  /\ todo \in Seq(Byte)
  /\ (todo = <<>>) = (pc # "input")
  /\ fed \in Seq(Byte) /\ base \in Nat /\ overrun \subseteq Nat

\* No test of the parser and no copy to the caller reads a cell nobody wrote:
\* the bytes up to index are stream bytes in stream order, at every iteration
\* and not only between calls.
FilledIsStream == Filled = Drop(fed, base)

\* "Always makes forward progress (never stuck)": every call returns,
\* whatever bytes the buffer holds.
EveryCallReturns == pc # "idle" ~> pc = "idle"

\* The loops compute what the one-step calls of FrameParser say.
Calls == INSTANCE FrameParser WITH
  buffer <- seen.buffer, result <- seen.result, fed <- seen.fed,
  base <- seen.base, overrun <- seen.overrun, out <- seen.out

RefinesCalls == Calls!Spec

=============================================================================
