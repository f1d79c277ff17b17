----------------------- MODULE FrameParserLoop_proofs -----------------------
(***************************************************************************)
(* For every byte alphabet, frame size, checksum function and chunking:    *)
(* the loops of smls_frame_parser.c read no cell nobody wrote, and compute *)
(* what the one-step calls of FrameParser say.                             *)
(***************************************************************************)
EXTENDS FrameParserLoop, FrameFormat_proofs

-----------------------------------------------------------------------------
(* The inductive invariant: what an iteration in the middle of a call owes *)
(* to the state the caller last saw.                                       *)

\* The parser as the caller last saw it was in order.
SeenInv ==
  /\ seen.fed \in Seq(Byte) /\ seen.base \in 0 .. Len(seen.fed)
  /\ seen.buffer = Drop(seen.fed, seen.base)
  /\ Len(seen.fed) - seen.base <= BufSize

\* The array holds the last index bytes of the stream.
LiveInv ==
  /\ base <= Len(fed) /\ index = Len(fed) - base
  /\ FilledIsStream

IdleInv ==
  pc = "idle" => /\ fed = seen.fed /\ base = seen.base /\ overrun = seen.overrun

\* A get has discarded false syncs and nothing else.
GetInv ==
  pc = "get" =>
    /\ fed = seen.fed /\ overrun = seen.overrun /\ seen.base <= base
    /\ \A k \in 0 .. base - seen.base - 1 : Calls!FalseSync(Drop(seen.buffer, k))

\* An input has stored a part of its chunk, and pushed out bytes only from the
\* moment the array was full.
InputInv ==
  pc = "input" =>
    /\ \E chunk \in Chunk : seen.fed \o chunk = fed \o todo
    /\ Len(fed) + Len(todo) <= StreamLen
    /\ seen.base <= base
    /\ index = BufSize \/ base = seen.base
    /\ overrun = seen.overrun \cup (seen.base .. base - 1)

IInv == TypeOK /\ SeenInv /\ LiveInv /\ IdleInv /\ GetInv /\ InputInv

-----------------------------------------------------------------------------
(* FrameParser reads the same format.                                      *)

LEMMA SameDrop ==
  ASSUME NEW b, NEW n
  PROVE  Calls!Drop(b, n) = Drop(b, n) /\ Calls!Take(b, n) = Take(b, n)
  BY DEF Drop, Take, Calls!Drop, Calls!Take

LEMMA SameSize ==
  ASSUME NEW b
  PROVE  /\ Calls!ClaimedLen(b) = ClaimedLen(b)
         /\ Calls!FrameSize(ClaimedLen(b)) = FrameSize(ClaimedLen(b))
  BY SameDrop DEF ClaimedLen, Calls!ClaimedLen, FrameSize, Calls!FrameSize

LEMMA SameTests ==
  ASSUME NEW b
  PROVE  /\ Calls!FrameAtFront(b) <=> FrameAtFront(b)
         /\ Calls!FalseSync(b) <=>
              HasHeader(b) /\ (GoodHeader(b) => HasFrame(b) /\ ~GoodChecksum(b))
<1>1. Calls!HasHeader(b) <=> HasHeader(b)
  BY DEF HasHeader, Calls!HasHeader
<1>2. Calls!GoodHeader(b) <=> GoodHeader(b)
  BY SameSize DEF GoodHeader, Calls!GoodHeader
<1>3. Calls!HasFrame(b) <=> HasFrame(b)
  BY SameSize DEF HasFrame, Calls!HasFrame
<1>4. Calls!GoodChecksum(b) <=> GoodChecksum(b)
  <2> DEFINE t == FrameSize(ClaimedLen(b))
  <2>1. Calls!GoodChecksum(b) <=> b[t] = Checksum(Calls!Take(b, t - 1))
    BY SameSize DEF Calls!GoodChecksum
  <2>2. Calls!Take(b, t - 1) = Take(b, t - 1)
    BY SameDrop
  <2> QED
    BY <2>1, <2>2 DEF GoodChecksum
<1> QED
  BY <1>1, <1>2, <1>3, <1>4 DEF FrameAtFront, Calls!FrameAtFront, Calls!FalseSync

LEMMA SameBufSize == Calls!BufSize = BufSize
  BY DEF BufSize, FrameSize, Calls!BufSize, Calls!FrameSize

-----------------------------------------------------------------------------
(* The array.                                                              *)

LEMMA BufSizeIs == BufSize \in Nat \ {0}
  BY SizesAssumption DEF BufSize, FrameSize

\* The filled part of the array is a byte string of the stream.
LEMMA FilledFacts ==
  ASSUME TypeOK, LiveInv
  PROVE  /\ base \in 0 .. Len(fed) /\ fed \in Seq(Byte)
         /\ Filled \in Seq(Byte) /\ Len(Filled) = index /\ Filled = Drop(fed, base)
         /\ mem \in Seq(Byte \cup {Uninit}) /\ Len(mem) = BufSize
         /\ \A i \in 1 .. index : i \in 1 .. BufSize /\ Filled[i] = mem[i]
<1>1. base \in 0 .. Len(fed) /\ fed \in Seq(Byte) /\ index \in 0 .. BufSize
  BY DEF TypeOK, LiveInv
<1>2. Filled = Drop(fed, base)
  BY DEF LiveInv, FilledIsStream
<1>3. Filled \in Seq(Byte) /\ Len(Filled) = index
  BY <1>1, <1>2, DropFacts DEF LiveInv
<1>4. mem \in Seq(Byte \cup {Uninit}) /\ Len(mem) = BufSize
  BY BufSizeIs DEF TypeOK
<1>5. ASSUME NEW i \in 1 .. index
      PROVE  i \in 1 .. BufSize /\ Filled[i] = mem[i]
  BY <1>1, <1>4, BufSizeIs DEF Filled
<1> QED
  BY <1>1, <1>2, <1>3, <1>4, <1>5

\* memmove by n bytes leaves the filled part without its first n bytes.
LEMMA SlideDrops ==
  ASSUME TypeOK, LiveInv, NEW n \in 0 .. index
  PROVE  /\ Slide(n) \in [1 .. BufSize -> Byte \cup {Uninit}]
         /\ SubSeq(Slide(n), 1, index - n) = Drop(Filled, n)
<1>1. index \in 0 .. BufSize /\ BufSize \in Nat
  BY BufSizeIs DEF TypeOK
<1>2. Slide(n) \in [1 .. BufSize -> Byte \cup {Uninit}]
  <2>1. \A i \in 1 .. BufSize : i <= index - n => i + n \in 1 .. BufSize
    BY <1>1
  <2> QED
    BY <2>1 DEF Slide, TypeOK
<1> DEFINE t == Slide(n)
<1>3. t \in Seq(Byte \cup {Uninit}) /\ Len(t) = BufSize
  BY <1>1, <1>2
<1>4. \A i \in 1 .. index - n : t[i] = mem[i + n] /\ i \in 1 .. BufSize
  BY <1>1 DEF Slide
<1> HIDE DEF t
<1>5. /\ SubSeq(t, 1, index - n) \in Seq(Byte \cup {Uninit})
      /\ Len(SubSeq(t, 1, index - n)) = index - n
      /\ \A i \in 1 .. index - n : SubSeq(t, 1, index - n)[i] = t[i]
  BY <1>1, <1>3
<1>6. /\ Drop(Filled, n) \in Seq(Byte) /\ Len(Drop(Filled, n)) = index - n
      /\ \A i \in 1 .. index - n : Drop(Filled, n)[i] = Filled[n + i]
  <2>1. Filled \in Seq(Byte) /\ Len(Filled) = index
    BY FilledFacts
  <2> QED
    BY <2>1, DropFacts
<1>7. Drop(Filled, n) \in Seq(Byte \cup {Uninit})
  BY <1>6
<1>8. ASSUME NEW i \in 1 .. index - n
      PROVE  SubSeq(t, 1, index - n)[i] = Drop(Filled, n)[i]
  <2>1. n + i \in 1 .. index /\ i + n = n + i
    BY <1>1
  <2>2. Filled[n + i] = mem[n + i]
    BY <2>1, FilledFacts
  <2> QED
    BY <1>4, <1>5, <1>6, <2>1, <2>2
<1>9. SubSeq(t, 1, index - n) = Drop(Filled, n)
  BY <1>5, <1>6, <1>7, <1>8, SeqEqual
<1> QED
  BY <1>2, <1>9 DEF t

\* A byte stored behind the filled part lengthens it by that byte.
LEMMA StoreAppends ==
  ASSUME NEW m \in [1 .. BufSize -> Byte \cup {Uninit}], NEW n \in 0 .. BufSize - 1,
         NEW b \in Byte
  PROVE  /\ [m EXCEPT ![n + 1] = b] \in [1 .. BufSize -> Byte \cup {Uninit}]
         /\ SubSeq([m EXCEPT ![n + 1] = b], 1, n + 1) = Append(SubSeq(m, 1, n), b)
<1> DEFINE B == Byte \cup {Uninit}
           t == [m EXCEPT ![n + 1] = b]
<1>1. t \in [1 .. BufSize -> B] /\ BufSize \in Nat /\ n + 1 \in 1 .. BufSize /\ b \in B
  BY BufSizeIs
<1>2. t[n + 1] = b /\ \A i \in 1 .. n : i \in 1 .. BufSize /\ t[i] = m[i]
  BY <1>1
<1>3. m \in Seq(B) /\ t \in Seq(B) /\ Len(m) = BufSize /\ Len(t) = BufSize
  BY <1>1
<1> HIDE DEF t, B
<1>4. /\ SubSeq(t, 1, n + 1) \in Seq(B) /\ Len(SubSeq(t, 1, n + 1)) = n + 1
      /\ \A i \in 1 .. n + 1 : SubSeq(t, 1, n + 1)[i] = t[i]
  BY <1>1, <1>3
<1>5. /\ SubSeq(m, 1, n) \in Seq(B) /\ Len(SubSeq(m, 1, n)) = n
      /\ \A i \in 1 .. n : SubSeq(m, 1, n)[i] = m[i]
  BY <1>1, <1>3
<1>6. /\ Append(SubSeq(m, 1, n), b) \in Seq(B) /\ Len(Append(SubSeq(m, 1, n), b)) = n + 1
      /\ \A i \in 1 .. n : Append(SubSeq(m, 1, n), b)[i] = m[i]
      /\ Append(SubSeq(m, 1, n), b)[n + 1] = b
  BY <1>1, <1>5
<1>7. ASSUME NEW i \in 1 .. n + 1
      PROVE  SubSeq(t, 1, n + 1)[i] = Append(SubSeq(m, 1, n), b)[i]
  <2>1. i \in 1 .. n \/ i = n + 1
    OBVIOUS
  <2> QED
    BY <1>2, <1>4, <1>6, <2>1
<1>8. SubSeq(t, 1, n + 1) = Append(SubSeq(m, 1, n), b)
  BY <1>4, <1>6, <1>7, SeqEqual
<1> QED
  BY <1>1, <1>8 DEF t, B

\* One byte more of the stream, behind the bytes that are kept.
LEMMA DropAppend ==
  ASSUME NEW s \in Seq(Byte), NEW b \in Byte, NEW n \in 0 .. Len(s)
  PROVE  Drop(Append(s, b), n) = Append(Drop(s, n), b)
<1>1. Append(s, b) = s \o <<b>> /\ <<b>> \in Seq(Byte)
  OBVIOUS
<1>2. Drop(s, n) \in Seq(Byte)
  BY DropFacts
<1>3. Append(Drop(s, n), b) = Drop(s, n) \o <<b>>
  BY <1>2
<1> QED
  BY <1>1, <1>3, DropConcat

-----------------------------------------------------------------------------
(* The calls.                                                              *)

\* The caller sees nothing of a step inside a call.
LEMMA CallKeeps ==
  ASSUME IInv, Call
  PROVE  IInv' /\ UNCHANGED seen
<1>1. UNCHANGED <<mem, index, fed, base, overrun, seen>> /\ pc = "idle"
  BY DEF Call, CallGet, CallInput, live
<1>2. SeenInv' /\ LiveInv'
  BY <1>1 DEF IInv, SeenInv, LiveInv, FilledIsStream, Filled
<1>3. CASE CallGet
  <2>1. pc' = "get" /\ todo' = todo
    BY <1>3 DEF CallGet
  <2>2. TypeOK'
    BY <1>1, <2>1 DEF IInv, TypeOK
  <2>3. GetInv'
    BY <1>1, <2>1 DEF IInv, IdleInv, TypeOK, GetInv
  <2> QED
    BY <1>1, <1>2, <2>1, <2>2, <2>3 DEF IInv, IdleInv, InputInv
<1>4. ASSUME NEW chunk \in Chunk, CallInput(chunk)
      PROVE  IInv'
  <2>1. pc' = "input" /\ todo' = chunk /\ Len(fed) + Len(chunk) <= StreamLen
    BY <1>4 DEF CallInput
  <2>2. chunk \in Seq(Byte) /\ chunk # <<>>
    BY DEF Chunk
  <2>3. TypeOK'
    BY <1>1, <2>1, <2>2 DEF IInv, TypeOK
  <2>4. InputInv'
    <3>1. fed = seen.fed /\ base = seen.base /\ overrun = seen.overrun /\ base \in Nat
      BY <1>1 DEF IInv, IdleInv, TypeOK
    <3>2. seen.base .. base - 1 = {}
      BY <3>1
    <3>3. UNCHANGED <<index, fed, base, overrun, seen>>
      BY <1>1
    <3>4. seen.fed \o chunk = fed' \o todo'
      BY <2>1, <3>1, <3>3
    <3>5. Len(fed') + Len(todo') <= StreamLen
      BY <2>1, <3>3
    <3>6. overrun' = seen.overrun \cup (seen.base .. base - 1)
      BY <3>1, <3>2, <3>3
    <3>7. seen.base <= base /\ base = seen.base
      BY <3>1
    <3> QED
      BY <3>3, <3>4, <3>5, <3>6, <3>7 DEF InputInv
  <2> QED
    BY <1>2, <2>1, <2>3, <2>4 DEF IInv, IdleInv, GetInv
<1> QED
  BY <1>1, <1>3, <1>4 DEF Call

-----------------------------------------------------------------------------
(* smls_frame_parser_get.                                                  *)

\* While a get runs the filled part is the rest of what the caller last saw.
LEMMA GetRest ==
  ASSUME IInv, pc = "get"
  PROVE  LET n == base - seen.base
         IN  /\ n \in 0 .. Len(seen.buffer) /\ seen.buffer \in Seq(Byte)
             /\ Filled = Drop(seen.buffer, n) /\ base = seen.base + n
<1> DEFINE n == base - seen.base
<1>1. /\ seen.fed \in Seq(Byte) /\ seen.base \in 0 .. Len(seen.fed)
      /\ seen.buffer = Drop(seen.fed, seen.base)
      /\ fed = seen.fed /\ seen.base <= base
  BY DEF IInv, SeenInv, GetInv
<1>2. base \in 0 .. Len(fed) /\ Filled = Drop(fed, base)
  BY FilledFacts DEF IInv
<1>3. n \in 0 .. Len(seen.fed) - seen.base /\ seen.base + n = base
  BY <1>1, <1>2
<1>4. Len(seen.buffer) = Len(seen.fed) - seen.base /\ seen.buffer \in Seq(Byte)
  BY <1>1, DropFacts
<1> HIDE DEF n
<1>5. Drop(seen.buffer, n) = Drop(fed, base)
  BY <1>1, <1>3, DropDrop
<1> QED
  BY <1>2, <1>3, <1>4, <1>5 DEF n

\* The front of the array moves up by n bytes, the stream stays.
LEMMA SlideKeepsLive ==
  ASSUME TypeOK, LiveInv, NEW n \in 0 .. index,
         mem' = Slide(n), index' = index - n, base' = base + n, fed' = fed
  PROVE  /\ mem' \in [1 .. BufSize -> Byte \cup {Uninit}] /\ index' \in 0 .. BufSize
         /\ base' \in Nat /\ LiveInv' /\ Filled' = Drop(Filled, n)
<1>1. /\ base \in 0 .. Len(fed) /\ fed \in Seq(Byte)
      /\ Filled = Drop(fed, base) /\ index = Len(fed) - base
  BY FilledFacts DEF LiveInv
<1>2. mem' \in [1 .. BufSize -> Byte \cup {Uninit}] /\ Filled' = Drop(Filled, n)
  BY SlideDrops DEF Filled
<1>3. Drop(Filled, n) = Drop(fed, base + n)
  BY <1>1, DropDrop
<1>4. index \in 0 .. BufSize /\ BufSize \in Nat
  BY BufSizeIs DEF TypeOK
<1> QED
  BY <1>1, <1>2, <1>3, <1>4 DEF LiveInv, FilledIsStream

LEMMA DiscardByteKeeps ==
  ASSUME IInv, DiscardByte
  PROVE  IInv' /\ UNCHANGED seen
<1>1. /\ pc = "get" /\ mem' = Slide(1) /\ index' = index - 1 /\ base' = base + 1
      /\ UNCHANGED <<pc, todo, fed, overrun, seen>> /\ Calls!FalseSync(Filled)
  BY SameTests DEF DiscardByte
<1>2. 1 \in 0 .. index
  <2>1. Len(Filled) = index /\ HasHeader(Filled)
    BY FilledFacts DEF IInv, DiscardByte
  <2> QED
    BY <2>1, SizesAssumption DEF HasHeader, IInv, TypeOK
<1>3. /\ mem' \in [1 .. BufSize -> Byte \cup {Uninit}] /\ index' \in 0 .. BufSize
      /\ base' \in Nat /\ LiveInv'
  BY <1>1, <1>2, SlideKeepsLive DEF IInv
<1>4. TypeOK'
  BY <1>1, <1>3 DEF IInv, TypeOK
<1>5. GetInv'
  <2> DEFINE n == base - seen.base
  <2>1. n \in Nat /\ Filled = Drop(seen.buffer, n) /\ base = seen.base + n
    BY <1>1, GetRest
  <2>2. base \in Int /\ seen.base \in Int
    BY DEF IInv, TypeOK, SeenInv
  <2> HIDE DEF n
  <2>3. ASSUME NEW k \in 0 .. base' - seen.base - 1
        PROVE  Calls!FalseSync(Drop(seen.buffer, k))
    <3>1. k \in 0 .. base - seen.base - 1 \/ k = n
      BY <1>1, <2>1, <2>2
    <3> QED
      BY <1>1, <2>1, <3>1 DEF IInv, GetInv
  <2> QED
    BY <1>1, <2>2, <2>3 DEF IInv, GetInv
<1>6. SeenInv' /\ IdleInv' /\ InputInv'
  BY <1>1 DEF IInv, SeenInv, IdleInv, InputInv
<1> QED
  BY <1>1, <1>3, <1>4, <1>5, <1>6 DEF IInv

\* A call that returns shows the caller the live state.
LEMMA ReturnShows ==
  ASSUME IInv, TypeOK', LiveInv', NEW r, NEW o, Return(r, o)
  PROVE  /\ IInv'
         /\ seen'.buffer = Filled' /\ seen'.result = r /\ seen'.fed = fed'
         /\ seen'.base = base' /\ seen'.overrun = overrun' /\ seen'.out = o
<1>1. /\ seen'.buffer = Filled' /\ seen'.result = r /\ seen'.fed = fed'
      /\ seen'.base = base' /\ seen'.overrun = overrun' /\ seen'.out = o /\ pc' = "idle"
  BY DEF Return
<1>2. SeenInv'
  BY <1>1 DEF SeenInv, LiveInv, FilledIsStream, TypeOK
<1> QED
  BY <1>1, <1>2 DEF IInv, IdleInv, GetInv, InputInv

LEMMA ReturnNothingKeeps ==
  ASSUME IInv, ReturnNothing
  PROVE  IInv' /\ Calls!Next
<1> DEFINE n == base - seen.base
<1>1. pc = "get" /\ UNCHANGED <<mem, index, fed, base, overrun, todo>> /\ Return(0, seen.out)
  BY DEF ReturnNothing, live
<1>2. Filled' = Filled /\ pc' = "idle"
  BY <1>1 DEF Filled, Return
<1>3. TypeOK' /\ LiveInv'
  BY <1>1, <1>2 DEF IInv, TypeOK, LiveInv, FilledIsStream
<1>4. /\ IInv'
      /\ seen'.buffer = Filled' /\ seen'.result = 0 /\ seen'.fed = fed'
      /\ seen'.base = base' /\ seen'.overrun = overrun' /\ seen'.out = seen.out
  BY <1>1, <1>3, ReturnShows
<1>5. /\ n \in 0 .. Len(seen.buffer)
      /\ Filled = Drop(seen.buffer, n) /\ base = seen.base + n
  BY <1>1, GetRest
<1>6. ~FrameAtFront(Filled) /\ ~Calls!FalseSync(Filled)
  BY SameTests DEF ReturnNothing, FrameAtFront
<1>7. fed = seen.fed /\ overrun = seen.overrun
      /\ \A k \in 0 .. n - 1 : Calls!FalseSync(Drop(seen.buffer, k))
  BY <1>1 DEF IInv, GetInv
<1> HIDE DEF n
<1>8. Calls!GetNothing(n)
  <2>1. Calls!ScansOver(seen.buffer, n)
    BY <1>5, <1>6, <1>7, SameDrop DEF Calls!ScansOver
  <2>2. ~Calls!FrameAtFront(Calls!Drop(seen.buffer, n))
    BY <1>5, <1>6, SameDrop, SameTests
  <2>3. seen'.buffer = Calls!Drop(seen.buffer, n)
    BY <1>2, <1>4, <1>5, SameDrop
  <2>4. /\ seen'.base = seen.base + n /\ seen'.result = 0
        /\ seen'.fed = seen.fed /\ seen'.overrun = seen.overrun /\ seen'.out = seen.out
    BY <1>1, <1>4, <1>5, <1>7
  <2> HIDE DEF n
  <2> QED
    BY <2>1, <2>2, <2>3, <2>4 DEF Calls!GetNothing
<1> QED
  BY <1>4, <1>5, <1>8 DEF Calls!Next, Calls!Get

LEMMA ReturnFrameKeeps ==
  ASSUME IInv, ReturnFrame
  PROVE  IInv' /\ Calls!Next
<1> DEFINE n == base - seen.base
           total == FrameSize(ClaimedLen(Filled))
           frame == SubSeq(mem, 1, total)
<1>1. /\ pc = "get" /\ FrameAtFront(Filled) /\ mem' = Slide(total)
      /\ index' = index - total /\ base' = base + total
      /\ UNCHANGED <<todo, fed, overrun>>
      /\ Return(1, Append(seen.out, [at |-> base, bytes |-> frame]))
  BY DEF ReturnFrame
<1>2. total \in 0 .. index /\ frame = Take(Filled, total)
  <2>1. Filled \in Seq(Byte) /\ Len(Filled) = index /\ index \in Nat
    BY FilledFacts DEF IInv, TypeOK
  <2>2. total \in 1 .. Len(Filled)
    BY <1>1, <2>1, TakenFrame
  <2> HIDE DEF total
  <2>3. /\ mem \in Seq(Byte \cup {Uninit}) /\ Len(mem) = BufSize /\ index \in 0 .. BufSize
        /\ \A i \in 1 .. index : Filled[i] = mem[i]
    BY FilledFacts DEF IInv, TypeOK
  <2>4. total \in 0 .. Len(mem) /\ BufSize \in Nat
    BY <2>1, <2>2, <2>3, BufSizeIs
  <2>5. /\ Take(mem, total) \in Seq(Byte \cup {Uninit}) /\ Len(Take(mem, total)) = total
        /\ \A i \in 1 .. total : Take(mem, total)[i] = mem[i]
    BY <2>3, <2>4, TakeFacts
  <2>6. /\ Take(Filled, total) \in Seq(Byte) /\ Len(Take(Filled, total)) = total
        /\ \A i \in 1 .. total : Take(Filled, total)[i] = Filled[i]
    <3>1. total \in 0 .. Len(Filled)
      BY <2>1, <2>2
    <3> QED
      BY <2>1, <3>1, TakeFacts
  <2>7. Take(Filled, total) \in Seq(Byte \cup {Uninit})
    BY <2>6
  <2>8. \A i \in 1 .. total : Take(mem, total)[i] = Take(Filled, total)[i]
    BY <2>1, <2>2, <2>3, <2>5, <2>6
  <2>9. Take(mem, total) = Take(Filled, total)
    BY <2>5, <2>6, <2>7, <2>8, SeqEqual
  <2> QED
    BY <2>1, <2>2, <2>9 DEF Take
<1> HIDE DEF total, frame
<1>3. /\ mem' \in [1 .. BufSize -> Byte \cup {Uninit}] /\ index' \in 0 .. BufSize
      /\ base' \in Nat /\ LiveInv' /\ Filled' = Drop(Filled, total)
  BY <1>1, <1>2, SlideKeepsLive DEF IInv
<1>4. TypeOK'
  BY <1>1, <1>3 DEF IInv, TypeOK, Return
<1> DEFINE o == Append(seen.out, [at |-> base, bytes |-> frame])
<1>5. /\ IInv'
      /\ seen'.buffer = Filled' /\ seen'.result = 1 /\ seen'.fed = fed'
      /\ seen'.base = base' /\ seen'.overrun = overrun' /\ seen'.out = o
  <2>1. Return(1, o)
    BY <1>1
  <2> HIDE DEF o
  <2> QED
    BY <1>3, <1>4, <2>1, ReturnShows
<1>6. /\ n \in 0 .. Len(seen.buffer)
      /\ Filled = Drop(seen.buffer, n) /\ base = seen.base + n
  BY <1>1, GetRest
<1>7. ~Calls!FalseSync(Filled)
  BY <1>1, SameTests DEF FrameAtFront
<1>8. fed = seen.fed /\ overrun = seen.overrun
      /\ \A k \in 0 .. n - 1 : Calls!FalseSync(Drop(seen.buffer, k))
  BY <1>1 DEF IInv, GetInv
<1>9. Calls!GetFrame(n)
  <2> DEFINE rest == Calls!Drop(seen.buffer, n)
             size == Calls!FrameSize(Calls!ClaimedLen(rest))
  <2>1. rest = Filled
    BY <1>6, SameDrop
  <2>2. Calls!ScansOver(seen.buffer, n)
    BY <1>6, <1>7, <1>8, SameDrop DEF Calls!ScansOver
  <2> HIDE DEF rest
  <2>3. Calls!FrameAtFront(rest) /\ size = total
    BY <1>1, <2>1, SameTests, SameSize DEF total
  <2> HIDE DEF size
  <2>4. seen'.buffer = Calls!Drop(rest, size)
    BY <1>3, <1>5, <2>1, <2>3, SameDrop
  <2>5. seen'.base = seen.base + n + size
    BY <1>1, <1>5, <1>6, <2>3
  <2>6. Calls!Take(rest, size) = frame
    BY <1>2, <2>1, <2>3, SameDrop
  <2>7. seen'.out = Append(seen.out, [at |-> seen.base + n, bytes |-> Calls!Take(rest, size)])
    BY <1>5, <1>6, <2>6
  <2>8. seen'.result = 1 /\ seen'.fed = seen.fed /\ seen'.overrun = seen.overrun
    BY <1>1, <1>5, <1>8
  <2> HIDE DEF n
  <2> QED
    BY <2>2, <2>3, <2>4, <2>5, <2>7, <2>8 DEF Calls!GetFrame, rest, size
<1> QED
  BY <1>5, <1>6, <1>9 DEF Calls!Next, Calls!Get

-----------------------------------------------------------------------------
(* smls_frame_parser_input.                                                *)

\* What is stored and what is left to store make up the same bytes.
LEMMA HeadMoves ==
  ASSUME NEW s \in Seq(Byte), NEW t \in Seq(Byte), t # <<>>
  PROVE  /\ Head(t) \in Byte /\ Tail(t) \in Seq(Byte) /\ Len(Tail(t)) = Len(t) - 1
         /\ Append(s, Head(t)) \o Tail(t) = s \o t
<1>1. /\ Head(t) \in Byte /\ Tail(t) \in Seq(Byte) /\ Len(Tail(t)) = Len(t) - 1
      /\ <<Head(t)>> \o Tail(t) = t
  <2>1. Head(t) \in Byte /\ Tail(t) \in Seq(Byte) /\ Len(Tail(t)) = Len(t) - 1
        /\ \A i \in 1 .. Len(t) - 1 : Tail(t)[i] = t[i + 1]
        /\ Head(t) = t[1] /\ Len(t) \in Nat \ {0}
    BY HeadTailProperties
  <2> DEFINE u == <<Head(t)>> \o Tail(t)
  <2>2. /\ u \in Seq(Byte) /\ Len(u) = Len(t)
        /\ \A i \in 1 .. Len(t) : u[i] = IF i <= 1 THEN Head(t) ELSE Tail(t)[i - 1]
    <3>1. <<Head(t)>> \in Seq(Byte) /\ Len(<<Head(t)>>) = 1 /\ <<Head(t)>>[1] = Head(t)
      BY <2>1
    <3> QED
      BY <2>1, <3>1, ConcatProperties
  <2> HIDE DEF u
  <2>3. \A i \in 1 .. Len(t) : u[i] = t[i]
    BY <2>1, <2>2
  <2>4. u = t
    BY <2>2, <2>3, SeqEqual
  <2> QED
    BY <2>1, <2>4 DEF u
<1>2. Append(s, Head(t)) = s \o <<Head(t)>> /\ <<Head(t)>> \in Seq(Byte)
  BY <1>1
<1>3. (s \o <<Head(t)>>) \o Tail(t) = s \o (<<Head(t)>> \o Tail(t))
  BY <1>1, <1>2, ConcatAssociative
<1> QED
  BY <1>1, <1>2, <1>3

\* An iteration keeps the newest bytes of the stream in the array, and gives
\* up the oldest one only when there is no room.
LEMMA InputByteStores ==
  ASSUME IInv, InputByte
  PROVE  /\ mem' \in [1 .. BufSize -> Byte \cup {Uninit}] /\ index' \in 0 .. BufSize
         /\ fed' \in Seq(Byte) /\ base' \in Nat /\ LiveInv'
         /\ \/ base' = base /\ overrun' = overrun
            \/ base' = base + 1 /\ index' = BufSize /\ overrun' = overrun \cup {base}
<1> DEFINE x == Head(todo)
<1>1. todo \in Seq(Byte) /\ x \in Byte
  <2>1. todo \in Seq(Byte) /\ todo # <<>>
    BY DEF IInv, TypeOK, InputByte
  <2> QED
    BY <2>1
<1>2. /\ base \in 0 .. Len(fed) /\ fed \in Seq(Byte) /\ index \in 0 .. BufSize
      /\ BufSize \in Nat \ {0} /\ mem \in [1 .. BufSize -> Byte \cup {Uninit}]
      /\ Filled = Drop(fed, base) /\ index = Len(fed) - base
  BY FilledFacts, BufSizeIs DEF IInv, TypeOK, LiveInv
<1>3. fed' = Append(fed, x)
  BY DEF InputByte
<1> HIDE DEF x
<1>4. fed' \in Seq(Byte) /\ Len(fed') = Len(fed) + 1
  BY <1>1, <1>2, <1>3
<1>5. CASE index >= BufSize
  <2>1. /\ mem' = [Slide(1) EXCEPT ![index] = x] /\ index' = index
        /\ base' = base + 1 /\ overrun' = overrun \cup {base}
    BY <1>5 DEF InputByte, x
  <2>2. index = BufSize /\ index - 1 \in 0 .. BufSize - 1 /\ index = (index - 1) + 1
        /\ 1 \in 0 .. index
    BY <1>2, <1>5
  <2>3. /\ Slide(1) \in [1 .. BufSize -> Byte \cup {Uninit}]
        /\ SubSeq(Slide(1), 1, index - 1) = Drop(Filled, 1)
    BY <2>2, SlideDrops DEF IInv
  <2>4. /\ mem' \in [1 .. BufSize -> Byte \cup {Uninit}]
        /\ SubSeq(mem', 1, index) = Append(Drop(Filled, 1), x)
    <3> DEFINE m == Slide(1)
               k == index - 1
    <3>1. m \in [1 .. BufSize -> Byte \cup {Uninit}] /\ k \in 0 .. BufSize - 1 /\ k + 1 = index
          /\ SubSeq(m, 1, k) = Drop(Filled, 1) /\ mem' = [m EXCEPT ![k + 1] = x]
      BY <2>1, <2>2, <2>3
    <3> HIDE DEF m, k
    <3>2. /\ [m EXCEPT ![k + 1] = x] \in [1 .. BufSize -> Byte \cup {Uninit}]
          /\ SubSeq([m EXCEPT ![k + 1] = x], 1, k + 1) = Append(SubSeq(m, 1, k), x)
      BY <1>1, <3>1, StoreAppends
    <3> QED
      BY <3>1, <3>2
  <2>5. Drop(Filled, 1) = Drop(fed, base + 1) /\ base + 1 \in 0 .. Len(fed)
    <3>1. 1 \in 0 .. Len(fed) - base
      BY <1>2, <2>2
    <3> QED
      BY <1>2, <3>1, DropDrop
  <2>6. Filled' = Drop(fed', base')
    <3>1. Filled' = Append(Drop(Filled, 1), x)
      BY <2>1, <2>4 DEF Filled
    <3>2. Append(Drop(fed, base + 1), x) = Drop(Append(fed, x), base + 1)
      BY <1>1, <1>2, <2>5, DropAppend
    <3> QED
      BY <1>3, <2>1, <2>5, <3>1, <3>2
  <2> QED
    BY <1>2, <1>4, <2>1, <2>2, <2>4, <2>5, <2>6 DEF LiveInv, FilledIsStream
<1>6. CASE ~(index >= BufSize)
  <2>1. /\ mem' = [mem EXCEPT ![index + 1] = x] /\ index' = index + 1
        /\ base' = base /\ overrun' = overrun
    BY <1>6 DEF InputByte, x
  <2>2. index \in 0 .. BufSize - 1
    BY <1>2, <1>6
  <2>3. /\ mem' \in [1 .. BufSize -> Byte \cup {Uninit}]
        /\ SubSeq(mem', 1, index + 1) = Append(Filled, x)
    BY <1>1, <1>2, <2>1, <2>2, StoreAppends DEF Filled
  <2>4. Filled' = Drop(fed', base')
    <3>1. Filled' = Append(Filled, x)
      BY <2>1, <2>3 DEF Filled
    <3>2. Append(Drop(fed, base), x) = Drop(Append(fed, x), base)
      BY <1>1, <1>2, DropAppend
    <3>3. Filled = Drop(fed, base) /\ base' = base
      BY <1>2, <2>1
    <3> QED
      BY <1>3, <3>1, <3>2, <3>3
  <2> QED
    BY <1>2, <1>4, <2>1, <2>2, <2>3, <2>4 DEF LiveInv, FilledIsStream
<1> QED
  BY <1>5, <1>6

\* The bytes pushed out one by one are those the one-step Input drops.
LEMMA InputDrops ==
  ASSUME IInv, pc = "input", TypeOK', LiveInv', NEW chunk \in Chunk,
         fed' = seen.fed \o chunk, seen.base <= base', index' = BufSize \/ base' = seen.base
  PROVE  LET all     == seen.buffer \o chunk
             dropped == IF Len(all) > BufSize THEN Len(all) - BufSize ELSE 0
         IN  /\ dropped \in Nat /\ base' = seen.base + dropped
             /\ Filled' = Drop(all, dropped)
<1> DEFINE all     == seen.buffer \o chunk
           dropped == IF Len(all) > BufSize THEN Len(all) - BufSize ELSE 0
<1>1. /\ seen.fed \in Seq(Byte) /\ seen.base \in 0 .. Len(seen.fed)
      /\ seen.buffer = Drop(seen.fed, seen.base)
  BY DEF IInv, SeenInv
<1>2. chunk \in Seq(Byte) /\ BufSize \in Nat
  <2>1. PICK n \in 1 .. MaxChunk : chunk \in [1 .. n -> Byte]
    BY DEF Chunk
  <2> QED
    BY <2>1, BufSizeIs
<1>3. /\ base' \in Nat /\ base' <= Len(fed') /\ index' = Len(fed') - base'
      /\ index' \in 0 .. BufSize /\ Filled' = Drop(fed', base')
  BY DEF TypeOK, LiveInv, FilledIsStream
<1>4. all = Drop(fed', seen.base)
  BY <1>1, <1>2, DropConcat
<1>5. fed' \in Seq(Byte) /\ Len(fed') = Len(seen.fed) + Len(chunk) /\ Len(chunk) \in Nat
      /\ Len(seen.fed) \in Nat
  BY <1>1, <1>2, ConcatProperties
<1>6. seen.base \in 0 .. Len(fed')
  BY <1>1, <1>5
<1> HIDE DEF all
<1>7. Len(all) = Len(fed') - seen.base
  BY <1>4, <1>5, <1>6, DropFacts
<1>t. /\ base' \in Nat /\ Len(fed') \in Nat /\ seen.base \in Nat /\ BufSize \in Nat
      /\ base' <= Len(fed') /\ seen.base <= base' /\ Len(fed') - base' <= BufSize
      /\ Len(fed') - base' = BufSize \/ base' = seen.base
  BY <1>1, <1>2, <1>3, <1>5
<1>8. dropped = base' - seen.base
  BY <1>7, <1>t
<1> HIDE DEF dropped
<1>9. dropped \in 0 .. Len(fed') - seen.base /\ seen.base + dropped = base'
  BY <1>8, <1>t
<1>10. Drop(all, dropped) = Drop(fed', base')
  BY <1>4, <1>5, <1>6, <1>9, DropDrop
<1> QED
  BY <1>3, <1>9, <1>10 DEF all, dropped

LEMMA InputByteKeeps ==
  ASSUME IInv, InputByte
  PROVE  IInv' /\ (Calls!Next \/ UNCHANGED seen)
<1>1. pc = "input" /\ todo \in Seq(Byte) /\ todo # <<>> /\ fed \in Seq(Byte)
  BY DEF IInv, TypeOK, InputByte
<1>2. /\ todo' = Tail(todo) /\ fed' = Append(fed, Head(todo))
      /\ IF Len(todo) = 1 THEN Return(seen.result, seen.out) ELSE UNCHANGED <<pc, seen>>
  BY DEF InputByte
<1>3. PICK chunk \in Chunk : seen.fed \o chunk = fed \o todo
  BY <1>1 DEF IInv, InputInv
<1>4. /\ mem' \in [1 .. BufSize -> Byte \cup {Uninit}] /\ index' \in 0 .. BufSize
      /\ fed' \in Seq(Byte) /\ base' \in Nat /\ LiveInv'
      /\ \/ base' = base /\ overrun' = overrun
         \/ base' = base + 1 /\ index' = BufSize /\ overrun' = overrun \cup {base}
  BY InputByteStores
<1>5. /\ todo' \in Seq(Byte) /\ Len(todo') = Len(todo) - 1
      /\ fed' \o todo' = seen.fed \o chunk
  BY <1>1, <1>2, <1>3, HeadMoves
<1>6. /\ seen.base <= base' /\ overrun' = seen.overrun \cup (seen.base .. base' - 1)
      /\ index' = BufSize \/ base' = seen.base
  <2>1. /\ seen.base <= base /\ overrun = seen.overrun \cup (seen.base .. base - 1)
        /\ index = BufSize \/ base = seen.base
        /\ base \in Nat /\ seen.base \in Nat /\ index \in 0 .. BufSize /\ BufSize \in Nat
    BY <1>1, BufSizeIs DEF IInv, InputInv, TypeOK, SeenInv
  <2>2. CASE base' = base /\ overrun' = overrun
    <3>1. index' = BufSize \/ base' = seen.base
      <4>1. index = BufSize => base' = base + 1
        BY <2>1 DEF InputByte
      <4> QED
        BY <2>1, <2>2, <4>1
    <3> QED
      BY <2>1, <2>2, <3>1
  <2>3. CASE base' = base + 1 /\ index' = BufSize /\ overrun' = overrun \cup {base}
    <3>1. seen.base .. base' - 1 = (seen.base .. base - 1) \cup {base}
      BY <2>1, <2>3
    <3> QED
      BY <2>1, <2>3, <3>1
  <2> QED
    BY <1>4, <2>2, <2>3
<1>7. overrun' \subseteq Nat
  BY <1>4 DEF IInv, TypeOK
<1>8. Len(fed') + Len(todo') <= StreamLen
  <2>1. Len(fed') = Len(fed) + 1 /\ Len(todo) \in Nat /\ Len(fed) \in Nat
    BY <1>1, <1>2
  <2>2. Len(fed') + Len(todo') = Len(fed) + Len(todo)
    BY <1>5, <2>1
  <2> QED
    BY <1>1, <2>2 DEF IInv, InputInv
<1>9. CASE Len(todo) = 1
  <2>1. todo' = <<>> /\ fed' = seen.fed \o chunk
    <3>1. Len(todo') = 0
      BY <1>5, <1>9
    <3>2. todo' = <<>>
      BY <1>5, <3>1, EmptySeq
    <3>3. fed' \o todo' = fed'
      BY <1>4, <3>2, ConcatEmptySeq
    <3> QED
      BY <1>5, <3>2, <3>3
  <2>2. Return(seen.result, seen.out) /\ pc' = "idle"
    BY <1>2, <1>9 DEF Return
  <2>3. TypeOK'
    BY <1>4, <1>7, <2>1, <2>2 DEF TypeOK
  <2>4. /\ IInv'
        /\ seen'.buffer = Filled' /\ seen'.result = seen.result /\ seen'.fed = fed'
        /\ seen'.base = base' /\ seen'.overrun = overrun' /\ seen'.out = seen.out
    BY <1>4, <2>2, <2>3, ReturnShows
  <2> DEFINE all     == seen.buffer \o chunk
             dropped == IF Len(all) > BufSize THEN Len(all) - BufSize ELSE 0
  <2>5. dropped \in Nat /\ base' = seen.base + dropped /\ Filled' = Drop(all, dropped)
    BY <1>1, <1>4, <1>6, <2>1, <2>3, InputDrops
  <2>6. Len(seen.fed) + Len(chunk) <= StreamLen
    <3>1. chunk \in Seq(Byte) /\ seen.fed \in Seq(Byte)
      BY DEF Chunk, IInv, SeenInv
    <3>2. Len(fed') = Len(seen.fed) + Len(chunk)
      BY <2>1, <3>1, ConcatProperties
    <3>3. Len(todo') = 0 /\ Len(fed') \in Nat
      BY <1>4, <2>1
    <3> QED
      BY <1>8, <3>2, <3>3
  <2>7. Calls!Input(chunk)
    <3> DEFINE lost == IF Len(all) > Calls!BufSize THEN Len(all) - Calls!BufSize ELSE 0
    <3>1. lost = dropped
      BY SameBufSize
    <3> HIDE DEF dropped, lost
    <3>2. seen'.buffer = Calls!Drop(all, lost)
      BY <2>4, <2>5, <3>1, SameDrop
    <3>3. seen'.base = seen.base + lost
      BY <2>4, <2>5, <3>1
    <3>4. seen'.overrun = seen.overrun \cup (seen.base .. seen.base + lost - 1)
      <4>1. lost \in Nat /\ seen.base \in Nat
        BY <2>5, <3>1 DEF IInv, SeenInv
      <4>2. base' = seen.base + lost
        BY <2>4, <3>3
      <4>3. base' - 1 = seen.base + lost - 1
        BY <4>1, <4>2
      <4>4. overrun' = seen.overrun \cup (seen.base .. base' - 1)
        BY <1>6
      <4> QED
        BY <2>4, <4>3, <4>4
    <3> QED
      BY <2>1, <2>4, <2>6, <3>2, <3>3, <3>4 DEF Calls!Input, lost
  <2>8. chunk \in Calls!Chunk
    BY DEF Chunk, Calls!Chunk
  <2> QED
    BY <2>4, <2>7, <2>8 DEF Calls!Next
<1>10. CASE Len(todo) # 1
  <2>1. UNCHANGED <<pc, seen>>
    BY <1>2, <1>10
  <2>2. todo' # <<>>
    BY <1>1, <1>5, <1>10
  <2>3. TypeOK'
    BY <1>1, <1>4, <1>5, <1>7, <2>1, <2>2 DEF TypeOK
  <2>4. SeenInv' /\ IdleInv' /\ GetInv'
    BY <1>1, <2>1 DEF IInv, SeenInv, IdleInv, GetInv
  <2>5. InputInv'
    BY <1>5, <1>6, <1>8, <2>1 DEF InputInv
  <2> QED
    BY <1>4, <2>1, <2>3, <2>4, <2>5 DEF IInv
<1> QED
  BY <1>9, <1>10

-----------------------------------------------------------------------------
(* The theorems.                                                           *)

LEMMA InitIInv == Init => IInv
<1> SUFFICES ASSUME Init
             PROVE  IInv
  OBVIOUS
<1>1. BufSize \in Nat \ {0}
  BY BufSizeIs
<1>2. TypeOK
  BY <1>1 DEF Init, TypeOK
<1>3. Filled = <<>>
  BY <1>1 DEF Init, Filled
<1>4. Drop(<<>>, 0) = <<>>
  BY DEF Drop
<1>5. LiveInv
  BY <1>3, <1>4 DEF Init, LiveInv, FilledIsStream
<1>6. SeenInv
  <2>1. /\ seen.fed = <<>> /\ seen.base = 0 /\ seen.buffer = <<>>
    BY DEF Init
  <2> QED
    BY <1>1, <1>4, <2>1 DEF SeenInv
<1>7. IdleInv /\ GetInv /\ InputInv
  BY DEF Init, IdleInv, GetInv, InputInv
<1> QED
  BY <1>2, <1>5, <1>6, <1>7 DEF IInv

\* Every step keeps the invariant, and is a call of FrameParser that returns
\* or nothing the caller can see.
LEMMA NextKeepsIInv ==
  IInv /\ [Next]_vars => IInv' /\ (Calls!Next \/ UNCHANGED seen)
<1> SUFFICES ASSUME IInv, [Next]_vars
             PROVE  IInv' /\ (Calls!Next \/ UNCHANGED seen)
  OBVIOUS
<1>1. CASE Call
  BY <1>1, CallKeeps
<1>2. CASE InputByte
  BY <1>2, InputByteKeeps
<1>3. CASE DiscardByte
  BY <1>3, DiscardByteKeeps
<1>4. CASE ReturnNothing
  BY <1>4, ReturnNothingKeeps
<1>5. CASE ReturnFrame
  BY <1>5, ReturnFrameKeeps
<1>6. CASE UNCHANGED vars
  BY <1>6 DEF vars, live, IInv, TypeOK, SeenInv, LiveInv, FilledIsStream, Filled,
              IdleInv, GetInv, InputInv
<1> QED
  BY <1>1, <1>2, <1>3, <1>4, <1>5, <1>6 DEF Next, Iterate

LEMMA Invariance == Spec => []IInv
  BY InitIInv, NextKeepsIInv, PTL DEF Spec

\* index stays inside the array at every iteration: no byte is written past
\* the end of parser->buffer.
THEOREM TypeCorrect == Spec => []TypeOK
<1>1. IInv => TypeOK
  BY DEF IInv
<1> QED
  BY <1>1, Invariance, PTL

\* At every iteration the bytes up to index are stream bytes in stream order:
\* no test reads a cell that nobody wrote.
THEOREM ReadsStreamOnly == Spec => []FilledIsStream
<1>1. IInv => FilledIsStream
  BY DEF IInv, LiveInv
<1> QED
  BY <1>1, Invariance, PTL

\* The loops of Input and Get do what FrameParser says their calls do.
THEOREM ImplementsCalls == Spec => RefinesCalls
<1>1. Init => Calls!Init
  BY DEF Init, Calls!Init
<1>2. IInv /\ [Next]_vars => [Calls!Next]_(Calls!vars)
  BY NextKeepsIInv DEF Calls!vars
<1> QED
  BY <1>1, <1>2, Invariance, PTL DEF Spec, RefinesCalls, Calls!Spec

=============================================================================
