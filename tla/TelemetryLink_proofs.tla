------------------------ MODULE TelemetryLink_proofs ------------------------
(***************************************************************************)
(* For every number of frames and noise bytes, every payload, chunk size,  *)
(* header layout and checksum that tells two strings apart that differ in  *)
(* one byte: the parser returns the frames of its stream, what an          *)
(* undamaged line delivers is a prefix of what was sent, a drained         *)
(* receiver has every frame that has arrived, and one damaged byte costs   *)
(* at most the frame it hits.                                              *)
(***************************************************************************)
EXTENDS TelemetryLink, FrameFormat_proofs, FiniteSetTheorems

-----------------------------------------------------------------------------
(* The parser, for every byte alphabet, frame size, checksum function and  *)
(* chunking: its buffer is the unread suffix of the stream, what it        *)
(* returns are frames of the stream in stream order, and it skips no frame *)
(* except through an overflow or inside a frame it returned.               *)

\* A byte discarded as a false sync stays one: no byte that arrives later
\* makes it the start of a frame.
LEMMA FalseSyncStable ==
  ASSUME NEW b \in Seq(Byte), NEW c \in Seq(Byte), FalseSync(b)
  PROVE  FalseSync(b \o c)
<1>1. HasHeader(b) /\ HasHeader(b \o c) /\ ClaimedLen(b \o c) = ClaimedLen(b)
  BY ClaimStable DEF FalseSync
<1>2. b[1] = (b \o c)[1]
  BY <1>1, SizesAssumption DEF HasHeader
<1>3. GoodHeader(b \o c) <=> GoodHeader(b)
  BY <1>1, <1>2 DEF GoodHeader
<1>4. CASE ~GoodHeader(b)
  BY <1>1, <1>3, <1>4 DEF FalseSync
<1>5. CASE GoodHeader(b)
  <2> DEFINE total == FrameSize(ClaimedLen(b))
  <2>1. HasFrame(b) /\ ~GoodChecksum(b)
    BY <1>5 DEF FalseSync
  <2>2. total \in 1 .. Len(b)
    BY <1>1, <2>1, ClaimIsLength, SizesAssumption DEF HasFrame, FrameSize
  <2> HIDE DEF total
  <2>3. Len(b \o c) >= total
    BY <2>2
  <2>4. (b \o c)[total] = b[total] /\ Take(b \o c, total - 1) = Take(b, total - 1)
    BY <2>2, TakeConcat
  <2>5. HasFrame(b \o c) /\ ~GoodChecksum(b \o c)
    BY <1>1, <2>1, <2>3, <2>4 DEF HasFrame, GoodChecksum, total
  <2> QED
    BY <1>1, <2>5 DEF FalseSync
<1> QED
  BY <1>4, <1>5

-----------------------------------------------------------------------------
(* The inductive invariant. NoFrameSkipped is not inductive: that no frame *)
(* starts at a position now does not say that none will when more bytes    *)
(* have arrived. What the parser has established is more: the position     *)
(* failed a test that no later byte can change.                            *)

Settled ==
  \A p \in 0 .. base - 1 :
    \/ FalseSync(Drop(fed, p))
    \/ p \in overrun
    \/ \E i \in DOMAIN out : p \in Extent(out[i])

IInv ==
  /\ TypeOK
  /\ BufferIsStreamSuffix
  /\ ReturnedFramesWereSent
  /\ ReturnedInOrder
  /\ Settled

\* The frames returned so far have a place and bytes.
LEMMA ReturnedTyped ==
  ASSUME TypeOK
  PROVE  /\ Len(out) \in Nat /\ DOMAIN out = 1 .. Len(out)
         /\ \A i \in DOMAIN out :
              /\ out[i].at \in Nat
              /\ out[i].bytes \in Seq(Byte)
              /\ Len(out[i].bytes) \in Nat
<1>1. out \in Seq([at : Nat, bytes : Seq(Byte)])
  BY DEF TypeOK
<1>2. Len(out) \in Nat /\ DOMAIN out = 1 .. Len(out)
  BY <1>1
<1>3. ASSUME NEW i \in DOMAIN out
      PROVE  out[i] \in [at : Nat, bytes : Seq(Byte)]
  BY <1>1, <1>2, ElementOfSeq
<1>4. ASSUME NEW i \in DOMAIN out
      PROVE  out[i].at \in Nat /\ out[i].bytes \in Seq(Byte)
  BY <1>3
<1> QED
  BY <1>2, <1>4

\* smls_frame_parser_init establishes the invariant.
LEMMA InitIInv == Init => IInv
<1> SUFFICES ASSUME Init PROVE IInv
  OBVIOUS
<1>1. BufSize \in Nat
  BY SizesAssumption DEF BufSize, FrameSize
<1>2. TypeOK
  BY <1>1 DEF Init, TypeOK
<1>3. BufferIsStreamSuffix
  BY DEF Init, BufferIsStreamSuffix, Drop
<1>4. ReturnedFramesWereSent /\ ReturnedInOrder /\ Settled
  BY DEF Init, ReturnedFramesWereSent, ReturnedInOrder, Settled
<1> QED
  BY <1>2, <1>3, <1>4 DEF IInv

\* Input lengthens the stream and moves the front of the buffer over the
\* positions it adds to overrun.
LEMMA InputKeepsIInv ==
  ASSUME IInv, NEW chunk \in Chunk, Input(chunk)
  PROVE  IInv'
<1> DEFINE all     == buffer \o chunk
           dropped == IF Len(all) > BufSize THEN Len(all) - BufSize ELSE 0
<1>1. BufSize \in Nat
  BY SizesAssumption DEF BufSize, FrameSize
<1>2. chunk \in Seq(Byte)
  BY DEF Chunk
<1>3. /\ buffer \in Seq(Byte) /\ fed \in Seq(Byte) /\ base \in 0 .. Len(fed)
      /\ buffer = Drop(fed, base)
      /\ overrun \subseteq 0 .. base - 1
  BY DEF IInv, TypeOK, BufferIsStreamSuffix
<1>4. all \in Seq(Byte) /\ Len(all) = Len(buffer) + Len(chunk)
  BY <1>2, <1>3
<1>5. /\ dropped \in 0 .. Len(all)
      /\ Len(all) - dropped <= BufSize
  BY <1>1, <1>4
<1>6. /\ buffer' = Drop(all, dropped)
      /\ fed' = fed \o chunk
      /\ base' = base + dropped
      /\ overrun' = overrun \cup (base .. base + dropped - 1)
      /\ result' = result /\ out' = out
  BY DEF Input
<1>7. all = Drop(fed', base)
  BY <1>2, <1>3, <1>6, DropConcat
<1> HIDE DEF all, dropped
<1>8. fed' \in Seq(Byte) /\ Len(fed') = Len(fed) + Len(chunk)
  BY <1>2, <1>3, <1>6
<1>9. Len(buffer) = Len(fed) - base
  BY <1>3, DropFacts
<1>10. buffer' = Drop(fed', base') /\ base' \in 0 .. Len(fed')
  <2>1. base \in 0 .. Len(fed') /\ dropped \in 0 .. Len(fed') - base
    BY <1>3, <1>4, <1>5, <1>8, <1>9
  <2>2. Drop(Drop(fed', base), dropped) = Drop(fed', base + dropped)
    BY <1>8, <2>1, DropDrop
  <2>3. base + dropped \in 0 .. Len(fed')
    BY <1>8, <1>3, <2>1
  <2> QED
    BY <1>6, <1>7, <2>2, <2>3
<1>11. TypeOK'
  <2>1. buffer' \in Seq(Byte) /\ Len(buffer') <= BufSize
    BY <1>4, <1>5, <1>6, DropFacts
  <2>2. overrun' \subseteq 0 .. base' - 1
    BY <1>3, <1>5, <1>6
  <2> QED
    BY <1>6, <1>8, <1>10, <2>1, <2>2 DEF IInv, TypeOK
<1>12. BufferIsStreamSuffix'
  BY <1>10 DEF BufferIsStreamSuffix
<1>13. ReturnedFramesWereSent'
  <2> SUFFICES ASSUME NEW i \in DOMAIN out
               PROVE  LET f == out[i]
                      IN  /\ FrameAtFront(f.bytes)
                          /\ Len(f.bytes) = FrameSize(ClaimedLen(f.bytes))
                          /\ f.at + Len(f.bytes) <= base'
                          /\ f.bytes = SubSeq(fed', f.at + 1, f.at + Len(f.bytes))
    BY <1>6 DEF ReturnedFramesWereSent
  <2> DEFINE f == out[i]
             n == Len(f.bytes)
  <2>1. /\ FrameAtFront(f.bytes)
        /\ n = FrameSize(ClaimedLen(f.bytes))
        /\ f.at + n <= base
        /\ f.bytes = SubSeq(fed, f.at + 1, f.at + n)
    BY DEF IInv, ReturnedFramesWereSent
  <2>2. f.at \in Nat /\ f.bytes \in Seq(Byte) /\ n \in Nat
    BY ReturnedTyped DEF IInv
  <2>3. SubSeq(fed', f.at + 1, f.at + n) = SubSeq(fed, f.at + 1, f.at + n)
    <3> DEFINE m == f.at
    <3>a. m \in Nat /\ n \in Nat /\ m + n <= base
      BY <2>1, <2>2
    <3>b. base \in Nat /\ Len(fed) \in Nat /\ base <= Len(fed)
      BY <1>3
    <3>c. Len(chunk) \in Nat
      BY <1>2
    <3> HIDE DEF f, n, m
    <3>1. m \in 0 .. Len(fed) /\ n \in 0 .. Len(fed) - m
      BY <3>a, <3>b
    <3>d. m \in 0 .. Len(fed') /\ n \in 0 .. Len(fed') - m
      BY <3>a, <3>b, <3>c, <1>8
    <3>2. SubSeq(fed, m + 1, m + n) = Take(Drop(fed, m), n)
      BY <1>3, <3>1, TakeOfDrop
    <3>3. SubSeq(fed', m + 1, m + n) = Take(Drop(fed', m), n)
      BY <1>8, <3>d, TakeOfDrop
    <3>4. Drop(fed', m) = Drop(fed, m) \o chunk
      BY <1>2, <1>3, <1>6, <3>1, DropConcat
    <3>5. Drop(fed, m) \in Seq(Byte) /\ Len(Drop(fed, m)) = Len(fed) - m
      BY <1>3, <3>1, DropFacts
    <3>6. Take(Drop(fed, m) \o chunk, n) = Take(Drop(fed, m), n)
      BY <1>2, <3>1, <3>5, TakeConcat
    <3> QED
      BY <3>2, <3>3, <3>4, <3>6 DEF m
  <2>4. f.at + n <= base'
    BY <1>3, <1>5, <1>6, <2>1, <2>2, <1>4
  <2> QED
    BY <2>1, <2>3, <2>4
<1>14. ReturnedInOrder'
  BY <1>6 DEF IInv, ReturnedInOrder
<1>15. Settled'
  <2> SUFFICES ASSUME NEW p \in 0 .. base' - 1
               PROVE  \/ FalseSync(Drop(fed', p))
                      \/ p \in overrun'
                      \/ \E i \in DOMAIN out : p \in Extent(out[i])
    BY <1>6 DEF Settled
  <2>1. CASE p >= base
    BY <1>3, <1>5, <1>6, <2>1
  <2>2. CASE p < base
    <3>1. p \in 0 .. base - 1 /\ p \in 0 .. Len(fed)
      BY <1>3, <2>2
    <3>2. CASE FalseSync(Drop(fed, p))
      <4>1. Drop(fed', p) = Drop(fed, p) \o chunk /\ Drop(fed, p) \in Seq(Byte)
        BY <1>2, <1>3, <1>6, <3>1, DropConcat, DropFacts
      <4> QED
        BY <1>2, <3>2, <4>1, FalseSyncStable
    <3>3. CASE p \in overrun \/ \E i \in DOMAIN out : p \in Extent(out[i])
      BY <1>6, <3>3
    <3> QED
      BY <3>1, <3>2, <3>3 DEF IInv, Settled
  <2> QED
    BY <1>3, <2>1, <2>2
<1> QED
  BY <1>11, <1>12, <1>13, <1>14, <1>15 DEF IInv

\* Both outcomes of Get discard the same way: what the scan has passed is
\* settled as far as the byte it stops at.
LEMMA ScanSettles ==
  ASSUME IInv, NEW n \in 0 .. Len(buffer), ScansOver(buffer, n)
  PROVE  /\ Drop(buffer, n) \in Seq(Byte)
         /\ Len(Drop(buffer, n)) = Len(buffer) - n
         /\ Drop(buffer, n) = Drop(fed, base + n)
         /\ base + n \in 0 .. Len(fed)
         /\ \A p \in base .. base + n - 1 : FalseSync(Drop(fed, p))
<1>1. /\ buffer \in Seq(Byte) /\ fed \in Seq(Byte) /\ base \in 0 .. Len(fed)
      /\ buffer = Drop(fed, base)
  BY DEF IInv, TypeOK, BufferIsStreamSuffix
<1>2. Len(buffer) = Len(fed) - base
  BY <1>1, DropFacts
<1>3. \A k \in 0 .. n : Drop(buffer, k) = Drop(fed, base + k)
  <2> SUFFICES ASSUME NEW k \in 0 .. n
               PROVE  Drop(Drop(fed, base), k) = Drop(fed, base + k)
    BY <1>1
  <2>1. k \in 0 .. Len(fed) - base
    BY <1>1, <1>2
  <2> QED
    BY <1>1, <2>1, DropDrop
<1>4. \A p \in base .. base + n - 1 : FalseSync(Drop(fed, p))
  <2> SUFFICES ASSUME NEW p \in base .. base + n - 1
               PROVE  FalseSync(Drop(fed, p))
    OBVIOUS
  <2>1. p - base \in 0 .. n - 1 /\ p - base \in 0 .. n /\ base + (p - base) = p
    BY <1>1
  <2> QED
    BY <1>3, <2>1 DEF ScansOver
<1>5. /\ Drop(buffer, n) \in Seq(Byte)
      /\ Len(Drop(buffer, n)) = Len(buffer) - n
  BY <1>1, DropFacts
<1>6. n \in 0 .. n
  OBVIOUS
<1>7. base + n \in 0 .. Len(fed)
  BY <1>1, <1>2
<1> QED
  BY <1>3, <1>4, <1>5, <1>6, <1>7

\* A get that returns 0 keeps the invariant: every byte it discards has failed
\* a test for good.
LEMMA GetNothingKeepsIInv ==
  ASSUME IInv, NEW n \in 0 .. Len(buffer), GetNothing(n)
  PROVE  IInv'
<1>1. /\ buffer' = Drop(buffer, n) /\ base' = base + n /\ result' = 0
      /\ fed' = fed /\ overrun' = overrun /\ out' = out
      /\ ScansOver(buffer, n)
  BY DEF GetNothing
<1>2. /\ Drop(buffer, n) \in Seq(Byte)
      /\ Len(Drop(buffer, n)) = Len(buffer) - n
      /\ Drop(buffer, n) = Drop(fed, base + n)
      /\ base + n \in 0 .. Len(fed)
      /\ \A p \in base .. base + n - 1 : FalseSync(Drop(fed, p))
  BY <1>1, ScanSettles
<1>3. BufSize \in Nat /\ base \in Nat /\ buffer \in Seq(Byte)
  BY SizesAssumption DEF BufSize, FrameSize, IInv, TypeOK
<1>4. TypeOK'
  <2>1. Len(buffer') <= BufSize
    BY <1>1, <1>2, <1>3 DEF IInv, TypeOK
  <2>2. overrun' \subseteq 0 .. base' - 1
    BY <1>1, <1>3 DEF IInv, TypeOK
  <2> QED
    BY <1>1, <1>2, <1>3, <2>1, <2>2 DEF IInv, TypeOK
<1>5. BufferIsStreamSuffix'
  BY <1>1, <1>2, <1>3 DEF IInv, TypeOK, BufferIsStreamSuffix
<1>6. ReturnedFramesWereSent'
  <2> SUFFICES ASSUME NEW i \in DOMAIN out
               PROVE  out[i].at + Len(out[i].bytes) <= base + n
    BY <1>1 DEF IInv, ReturnedFramesWereSent
  <2>1. out[i].at + Len(out[i].bytes) <= base
    BY DEF IInv, ReturnedFramesWereSent
  <2>2. out[i].at \in Nat /\ Len(out[i].bytes) \in Nat
    BY ReturnedTyped DEF IInv
  <2> QED
    BY <1>3, <2>1, <2>2
<1>7. ReturnedInOrder'
  BY <1>1 DEF IInv, ReturnedInOrder
<1>8. Settled'
  <2> SUFFICES ASSUME NEW p \in 0 .. base' - 1
               PROVE  \/ FalseSync(Drop(fed', p))
                      \/ p \in overrun'
                      \/ \E i \in DOMAIN out : p \in Extent(out[i])
    BY <1>1 DEF Settled
  <2>1. p \in 0 .. base - 1 \/ p \in base .. base + n - 1
    BY <1>1, <1>3
  <2>2. CASE p \in 0 .. base - 1
    BY <1>1, <2>2 DEF IInv, Settled
  <2>3. CASE p \in base .. base + n - 1
    BY <1>1, <1>2, <2>3
  <2> QED
    BY <2>1, <2>2, <2>3
<1> QED
  BY <1>4, <1>5, <1>6, <1>7, <1>8 DEF IInv

\* A frame that is returned covers the positions its bytes leave behind.
LEMMA GetFrameKeepsIInv ==
  ASSUME IInv, NEW n \in 0 .. Len(buffer), GetFrame(n)
  PROVE  IInv'
<1>0. /\ Drop(buffer, n) \in Seq(Byte)
      /\ Len(Drop(buffer, n)) = Len(buffer) - n
      /\ Drop(buffer, n) = Drop(fed, base + n)
      /\ base + n \in 0 .. Len(fed)
      /\ \A p \in base .. base + n - 1 : FalseSync(Drop(fed, p))
  <2>1. ScansOver(buffer, n)
    BY DEF GetFrame
  <2> QED
    BY <2>1, ScanSettles
<1> DEFINE rest  == Drop(buffer, n)
           total == FrameSize(ClaimedLen(rest))
           frame == Take(rest, total)
           at    == base + n
<1>1. /\ buffer' = Drop(rest, total) /\ base' = at + total /\ result' = 1
      /\ out' = Append(out, [at |-> at, bytes |-> frame])
      /\ fed' = fed /\ overrun' = overrun
      /\ ScansOver(buffer, n) /\ FrameAtFront(rest)
  BY DEF GetFrame
<1>2. /\ rest \in Seq(Byte)
      /\ Len(rest) = Len(buffer) - n
      /\ rest = Drop(fed, at)
      /\ at \in 0 .. Len(fed)
      /\ \A p \in base .. at - 1 : FalseSync(Drop(fed, p))
  <2>1. base \in Nat /\ n \in Nat
    BY DEF IInv, TypeOK
  <2> QED
    BY <1>0, <2>1
<1>3. /\ total \in 1 .. Len(rest)
      /\ frame \in Seq(Byte) /\ Len(frame) = total
      /\ FrameAtFront(frame) /\ ClaimedLen(frame) = ClaimedLen(rest)
  BY <1>1, <1>2, TakenFrame
<1>4. /\ BufSize \in Nat /\ base \in Nat /\ n \in Nat /\ at = base + n
      /\ buffer \in Seq(Byte) /\ Len(buffer) <= BufSize
      /\ fed \in Seq(Byte)
  BY SizesAssumption DEF BufSize, FrameSize, IInv, TypeOK
<1>5. Len(frame) = FrameSize(ClaimedLen(frame))
  BY <1>3
<1> HIDE DEF rest, total, frame, at
<1>6. Len(rest) = Len(fed) - at
  BY <1>2, <1>4, DropFacts
<1>t. total \in 0 .. Len(rest) /\ total \in 0 .. Len(fed) - at
  BY <1>3, <1>6
<1>7. frame = SubSeq(fed, at + 1, at + total)
  <2>1. Take(Drop(fed, at), total) = SubSeq(fed, at + 1, at + total)
    BY <1>2, <1>4, <1>t, TakeOfDrop
  <2> QED
    BY <1>2, <2>1 DEF frame
<1>8. Drop(rest, total) \in Seq(Byte) /\ Len(Drop(rest, total)) = Len(rest) - total
  BY <1>2, <1>t, DropFacts
<1>9. Drop(rest, total) = Drop(fed, at + total) /\ at + total \in 0 .. Len(fed)
  BY <1>2, <1>4, <1>t, DropDrop
<1>10. /\ out \in Seq([at : Nat, bytes : Seq(Byte)])
       /\ DOMAIN out' = 1 .. Len(out) + 1 /\ Len(out) \in Nat
       /\ DOMAIN out = 1 .. Len(out)
       /\ \A i \in DOMAIN out : out'[i] = out[i]
       /\ out'[Len(out) + 1].at = at
       /\ out'[Len(out) + 1].bytes = frame
  BY <1>1 DEF IInv, TypeOK
<1>11. \A i \in DOMAIN out :
         /\ out[i].at \in Nat /\ Len(out[i].bytes) \in Nat
         /\ out[i].at + Len(out[i].bytes) <= base
  BY ReturnedTyped DEF IInv, ReturnedFramesWereSent
<1>12. TypeOK'
  <2>1. Len(buffer') <= BufSize /\ buffer' \in Seq(Byte)
    BY <1>1, <1>2, <1>3, <1>4, <1>8
  <2>2. overrun' \subseteq 0 .. base' - 1
    BY <1>1, <1>2, <1>3, <1>4 DEF IInv, TypeOK
  <2>3. out' \in Seq([at : Nat, bytes : Seq(Byte)])
    BY <1>1, <1>2, <1>3, <1>10
  <2>4. base' \in Nat /\ result' \in {0, 1} /\ fed' \in Seq(Byte)
    BY <1>1, <1>4, <1>9
  <2> QED
    BY <2>1, <2>2, <2>3, <2>4 DEF TypeOK
<1>13. BufferIsStreamSuffix'
  BY <1>1, <1>9 DEF BufferIsStreamSuffix
<1>14. ReturnedFramesWereSent'
  <2> SUFFICES ASSUME NEW i \in DOMAIN out'
               PROVE  LET f == out'[i]
                      IN  /\ FrameAtFront(f.bytes)
                          /\ Len(f.bytes) = FrameSize(ClaimedLen(f.bytes))
                          /\ f.at + Len(f.bytes) <= base'
                          /\ f.bytes = SubSeq(fed, f.at + 1, f.at + Len(f.bytes))
    BY <1>1 DEF ReturnedFramesWereSent
  <2>1. CASE i \in DOMAIN out
    <3>1. out[i].at + Len(out[i].bytes) <= base'
      <4>1. out[i].at \in Nat /\ Len(out[i].bytes) \in Nat /\ out[i].at + Len(out[i].bytes) <= base
        BY <1>11, <2>1
      <4>2. base \in Nat /\ base' \in Nat /\ base <= base'
        BY <1>1, <1>2, <1>3, <1>4
      <4> QED
        BY <4>1, <4>2
    <3> QED
      BY <1>10, <2>1, <3>1 DEF IInv, ReturnedFramesWereSent
  <2>2. CASE i = Len(out) + 1
    <3>1. out'[i].at = at /\ out'[i].bytes = frame
      BY <1>10, <2>2
    <3>2. at + Len(frame) <= base'
      BY <1>1, <1>3, <1>9
    <3>3. frame = SubSeq(fed, at + 1, at + Len(frame))
      BY <1>3, <1>7
    <3> QED
      BY <1>3, <1>5, <3>1, <3>2, <3>3
  <2> QED
    BY <1>10, <2>1, <2>2
<1>15. ReturnedInOrder'
  <2> SUFFICES ASSUME NEW i \in DOMAIN out', NEW j \in DOMAIN out', i < j
               PROVE  out'[i].at + Len(out'[i].bytes) <= out'[j].at
    BY DEF ReturnedInOrder
  <2>1. i \in DOMAIN out
    BY <1>10
  <2>2. CASE j \in DOMAIN out
    BY <1>10, <2>1, <2>2 DEF IInv, ReturnedInOrder
  <2>3. CASE j = Len(out) + 1
    <3>1. out'[i] = out[i] /\ out'[j].at = at
      BY <1>10, <2>1, <2>3
    <3>2. out[i].at + Len(out[i].bytes) <= base /\ base <= at
      BY <1>4, <1>11, <2>1
    <3> QED
      BY <1>4, <1>11, <2>1, <3>1, <3>2
  <2> QED
    BY <1>10, <2>2, <2>3
<1>16. Settled'
  <2> SUFFICES ASSUME NEW p \in 0 .. base' - 1
               PROVE  \/ FalseSync(Drop(fed, p))
                      \/ p \in overrun
                      \/ \E i \in DOMAIN out' : p \in Extent(out'[i])
    BY <1>1 DEF Settled
  <2>1. CASE p \in 0 .. base - 1
    <3>1. \A i \in DOMAIN out : i \in DOMAIN out' /\ Extent(out'[i]) = Extent(out[i])
      BY <1>10
    <3> QED
      BY <2>1, <3>1 DEF IInv, Settled
  <2>2. CASE p \in base .. at - 1
    BY <1>2, <2>2
  <2>3. CASE p \in at .. at + total - 1
    <3>1. Extent(out'[Len(out) + 1]) = at .. at + total - 1
      BY <1>3, <1>10 DEF Extent
    <3>2. Len(out) + 1 \in DOMAIN out'
      BY <1>10
    <3> QED
      BY <2>3, <3>1, <3>2
  <2>4. base' = at + total /\ at \in Nat /\ total \in Nat
    BY <1>1, <1>2, <1>3
  <2> QED
    BY <1>4, <2>1, <2>2, <2>3, <2>4
<1> QED
  BY <1>12, <1>13, <1>14, <1>15, <1>16 DEF IInv

\* No step of the parser or of its caller breaks the invariant.
LEMMA NextKeepsIInv == IInv /\ [Next]_vars => IInv'
<1> SUFFICES ASSUME IInv, [Next]_vars PROVE IInv'
  OBVIOUS
<1>1. ASSUME NEW chunk \in Chunk, Input(chunk) PROVE IInv'
  BY <1>1, InputKeepsIInv
<1>2. ASSUME NEW n \in 0 .. Len(buffer), GetNothing(n) PROVE IInv'
  BY <1>2, GetNothingKeepsIInv
<1>3. ASSUME NEW n \in 0 .. Len(buffer), GetFrame(n) PROVE IInv'
  BY <1>3, GetFrameKeepsIInv
<1>4. CASE UNCHANGED vars
  BY <1>4 DEF vars, IInv, TypeOK, BufferIsStreamSuffix, ReturnedFramesWereSent,
              ReturnedInOrder, Settled
<1> QED
  BY <1>1, <1>2, <1>3, <1>4 DEF Next, Get

\* A position that is settled cannot be the start of a frame the parser moved
\* past without returning it.
LEMMA SettledMeansNotSkipped == IInv => NoFrameSkipped
  BY DEF IInv, Settled, NoFrameSkipped, FalseSync, FrameAtFront

\* The inductive invariant holds in every reachable state of the parser, for
\* every buffer size, chunk size, checksum and encoding of the length.
THEOREM Invariance == Spec => []IInv
<1> QED
  BY InitIInv, NextKeepsIInv, PTL DEF Spec

\* The parser's state stays well formed and its buffer, which is exactly
\* as large as the largest frame, is never written past its end.
THEOREM TypeCorrect == Spec => []TypeOK
<1>1. IInv => TypeOK
  BY DEF IInv
<1> QED
  BY <1>1, Invariance, PTL

\* Sliding and refilling the buffer neither loses, repeats nor reorders a
\* byte: what is left in it is the end of the stream it was fed.
THEOREM BufferFollowsStream == Spec => []BufferIsStreamSuffix
<1>1. IInv => BufferIsStreamSuffix
  BY DEF IInv
<1> QED
  BY <1>1, Invariance, PTL

\* smls_frame_parser_get returns only byte strings that stood in the stream
\* and pass every test, in stream order and each at most once.
THEOREM ReturnsStreamFramesOnly ==
  Spec => [](ReturnedFramesWereSent /\ ReturnedInOrder)
<1>1. IInv => ReturnedFramesWereSent /\ ReturnedInOrder
  BY DEF IInv
<1> QED
  BY <1>1, Invariance, PTL

\* No byte serves two frames and none is returned twice: every frame begins
\* behind the one returned before it.
THEOREM ReturnsInOrder == Spec => []ReturnedInOrder
<1>1. IInv => ReturnedInOrder
  BY DEF IInv
<1> QED
  BY <1>1, Invariance, PTL

\* "Never skips valid frames": every frame behind the parser's front was
\* returned, begins inside one that was, or fell to an overflow.
THEOREM SkipsNoFrame == Spec => []NoFrameSkipped
  BY Invariance, SettledMeansNotSkipped, PTL

-----------------------------------------------------------------------------
(* The line the telemetry tests use: no frame is empty (the parser throws  *)
(* an empty one away), noise does not look like a frame start, and what    *)
(* the drained parser may hold back, a header or a frame short of one      *)
(* byte, leaves room for a chunk (without that Input pushes bytes of the   *)
(* frame out, run link_overflow).                                          *)

CleanLine ==
  /\ 0 \notin SendLen
  /\ Magic \notin NoiseByte
  /\ HeaderLen - 1 + MaxChunk <= BufSize
  /\ \A len \in SendLen : len <= MaxPayload => FrameSize(len) - 1 + MaxChunk <= BufSize

-----------------------------------------------------------------------------
(* The inductive invariant.                                                *)

\* The bytes sent, where the receiver has read some and the line holds the rest.
Stream == fed \o wire

EndOf(f) == f.at + Len(f.bytes)

\* What is sent are frames, one behind the other, small enough for the parser
\* to hold all but one byte of one and still take a chunk.
FramesInv ==
  /\ \A i \in DOMAIN sent :
       /\ FrameAtFront(sent[i].bytes)
       /\ Len(sent[i].bytes) = FrameSize(ClaimedLen(sent[i].bytes))
       /\ Len(sent[i].bytes) - 1 + MaxChunk <= BufSize
       /\ EndOf(sent[i]) <= Len(Stream)
  /\ \A i, j \in DOMAIN sent : i < j => EndOf(sent[i]) <= sent[j].at

\* The stream has the bytes of the frames but for the damaged ones. What is
\* damaged once differs.
ContentInv ==
  /\ \A i \in DOMAIN sent : \A k \in 1 .. Len(sent[i].bytes) :
       <<i, k>> \notin damaged => Stream[sent[i].at + k] = sent[i].bytes[k]
  /\ IsFiniteSet(damaged)
  /\ \A hit \in damaged : hit[2] <= Len(sent[hit[1]].bytes)
  /\ MaxDamage <= 1 => \A hit \in damaged :
       /\ damaged = {hit}
       /\ Stream[sent[hit[1]].at + hit[2]] # sent[hit[1]].bytes[hit[2]]

\* On an undamaged line no byte outside the frames looks like a frame start.
GapInv ==
  damaged = {} =>
    \A p \in 1 .. Len(Stream) :
      Stream[p] = Magic => \E i \in DOMAIN sent : p \in sent[i].at + 1 .. EndOf(sent[i])

\* The receiver has met no byte that looks like a frame start and is none.
FedClean ==
  \A p \in 1 .. Len(fed) :
    fed[p] = Magic => \E i \in DOMAIN sent : sent[i].at = p - 1

\* Nothing on the line can pass for a frame that was not sent.
Honest == damaged = {} \/ (MaxDamage <= 1 /\ FedClean)

\* A frame that arrives as it was sent is returned or still ahead, and what is
\* returned arrived as it was sent.
DeliveryInv ==
  Honest =>
    /\ \A i \in DOMAIN sent : Intact(i) => Received(i) \/ base <= sent[i].at
    /\ \A j \in DOMAIN out : \E i \in DOMAIN sent : Intact(i) /\ out[j] = sent[i]

\* Between two chunks the parser holds no complete frame and has room for the
\* next chunk: nothing is ever pushed out of its buffer.
DrainedInv ==
  Honest /\ phase = "read" =>
    /\ \A i \in DOMAIN sent : Intact(i) /\ EndOf(sent[i]) <= Len(fed) => Received(i)
    /\ Len(buffer) + MaxChunk <= BufSize

LinkIInv ==
  /\ IInv
  /\ LinkTypeOK
  /\ FramesInv
  /\ ContentInv
  /\ GapInv
  /\ DeliveryInv
  /\ DrainedInv
  /\ ReceivedIsPrefixOfSent

-----------------------------------------------------------------------------
(* Frames, and byte strings that look like them.                           *)

\* A frame has a header with the magic byte, a payload and a checksum.
LEMMA FrameParts ==
  ASSUME NEW f \in Seq(Byte), FrameAtFront(f), Len(f) = FrameSize(ClaimedLen(f))
  PROVE  /\ ClaimedLen(f) \in 1 .. MaxPayload
         /\ Len(f) \in Nat /\ HeaderLen \in 1 .. Len(f) - 2
         /\ Len(f) - 1 \in HeaderLen .. HeaderLen + MaxPayload
         /\ f[1] = Magic
         /\ f[Len(f)] = Checksum(Take(f, Len(f) - 1))
<1>1. ClaimedLen(f) \in 1 .. MaxPayload /\ f[1] = Magic
  BY DEF FrameAtFront, GoodHeader
<1>2. Len(f) = HeaderLen + ClaimedLen(f) + 1
  BY DEF FrameSize
<1>3. f[Len(f)] = Checksum(Take(f, Len(f) - 1))
  BY DEF FrameAtFront, GoodChecksum
<1> QED
  BY <1>1, <1>2, <1>3, SizesAssumption

\* The parser does not throw away the first byte of a frame that arrives as it
\* was sent, and recognises the frame once it has arrived completely.
LEMMA FrameMatch ==
  ASSUME NEW f \in Seq(Byte), FrameAtFront(f), Len(f) = FrameSize(ClaimedLen(f)),
         NEW b \in Seq(Byte),
         \A k \in 1 .. Len(f) : k <= Len(b) => b[k] = f[k]
  PROVE  /\ ~FalseSync(b)
         /\ HasHeader(b) => ClaimedLen(b) = ClaimedLen(f)
         /\ Len(f) <= Len(b) => FrameAtFront(b) /\ Take(b, Len(f)) = f
<1>1. /\ ClaimedLen(f) \in 1 .. MaxPayload
      /\ Len(f) \in Nat /\ HeaderLen \in 1 .. Len(f) - 2
      /\ f[1] = Magic
      /\ f[Len(f)] = Checksum(Take(f, Len(f) - 1))
  BY FrameParts
<1>2. Len(b) \in Nat
  OBVIOUS
<1>3. \A n \in 0 .. Len(f) : n <= Len(b) => Take(b, n) = Take(f, n)
  <2> SUFFICES ASSUME NEW n \in 0 .. Len(f), n <= Len(b)
               PROVE  Take(b, n) = Take(f, n)
    OBVIOUS
  <2>1. n \in 0 .. Len(b)
    BY <1>2
  <2>2. /\ Take(b, n) \in Seq(Byte) /\ Len(Take(b, n)) = n
        /\ \A k \in 1 .. n : Take(b, n)[k] = b[k]
    BY <2>1, TakeFacts
  <2>3. /\ Take(f, n) \in Seq(Byte) /\ Len(Take(f, n)) = n
        /\ \A k \in 1 .. n : Take(f, n)[k] = f[k]
    BY TakeFacts
  <2>4. \A k \in 1 .. n : b[k] = f[k]
    BY <1>1, <1>2
  <2> QED
    BY <2>2, <2>3, <2>4, SeqEqual
<1>4. ASSUME HasHeader(b)
      PROVE  GoodHeader(b) /\ ClaimedLen(b) = ClaimedLen(f)
  <2>1. HeaderLen \in 0 .. Len(f) /\ HeaderLen <= Len(b)
    BY <1>1, <1>4 DEF HasHeader
  <2>2. ClaimedLen(b) = ClaimedLen(f)
    BY <1>3, <2>1 DEF ClaimedLen
  <2>3. b[1] = f[1]
    BY <1>1, <1>2, <2>1
  <2> QED
    BY <1>1, <2>2, <2>3 DEF GoodHeader
<1>5. ASSUME Len(f) <= Len(b)
      PROVE  HasHeader(b) /\ HasFrame(b) /\ GoodChecksum(b) /\ Take(b, Len(f)) = f
  <2>1. HasHeader(b)
    BY <1>1, <1>2, <1>5 DEF HasHeader
  <2>2. FrameSize(ClaimedLen(b)) = Len(f)
    BY <1>4, <2>1
  <2>3. /\ Len(f) - 1 \in 0 .. Len(f) /\ Len(f) - 1 <= Len(b)
        /\ Len(f) \in 0 .. Len(f) /\ Len(f) \in 1 .. Len(f)
    BY <1>1, <1>2, <1>5
  <2>4. Take(b, Len(f) - 1) = Take(f, Len(f) - 1) /\ Take(b, Len(f)) = Take(f, Len(f))
    BY <1>3, <1>5, <2>3
  <2>5. b[Len(f)] = f[Len(f)]
    BY <1>5, <2>3
  <2>6. Take(f, Len(f)) = f
    <3>1. /\ Take(f, Len(f)) \in Seq(Byte) /\ Len(Take(f, Len(f))) = Len(f)
          /\ \A k \in 1 .. Len(f) : Take(f, Len(f))[k] = f[k]
      BY <2>3, TakeFacts
    <3> QED
      BY <3>1, SeqEqual
  <2> QED
    BY <1>1, <1>5, <2>1, <2>2, <2>4, <2>5, <2>6 DEF HasFrame, GoodChecksum
<1>6. ~FalseSync(b)
  <2> SUFFICES ASSUME HasHeader(b), HasFrame(b) PROVE GoodChecksum(b)
    BY <1>4 DEF FalseSync
  <2>1. Len(f) <= Len(b)
    BY <1>4 DEF HasFrame
  <2> QED
    BY <1>5, <2>1
<1> QED
  BY <1>4, <1>5, <1>6 DEF FrameAtFront

\* A frame with one damaged byte still claims its length, and is no frame.
LEMMA DamagedMatch ==
  ASSUME NEW f \in Seq(Byte), FrameAtFront(f), Len(f) = FrameSize(ClaimedLen(f)),
         NEW b \in Seq(Byte), HasHeader(b),
         NEW d \in DamageAt, d \in 1 .. Len(f), d <= Len(b) => b[d] # f[d],
         \A k \in 1 .. Len(f) : k # d /\ k <= Len(b) => b[k] = f[k]
  PROVE  ClaimedLen(b) = ClaimedLen(f) /\ ~FrameAtFront(b)
<1>1. /\ ClaimedLen(f) \in 1 .. MaxPayload
      /\ Len(f) \in Nat /\ HeaderLen \in 1 .. Len(f) - 2
      /\ Len(f) - 1 \in HeaderLen .. HeaderLen + MaxPayload
      /\ f[Len(f)] = Checksum(Take(f, Len(f) - 1))
  BY FrameParts
<1>2. Len(b) \in Nat /\ HeaderLen <= Len(b)
  BY DEF HasHeader
<1>3. ASSUME NEW n \in 0 .. Len(f), n <= Len(b)
      PROVE  /\ Take(f, n) \in [1 .. n -> Byte]
             /\ d \notin 1 .. n => Take(b, n) = Take(f, n)
             /\ d \in 1 .. n =>
                  /\ Take(b, n) = [Take(f, n) EXCEPT ![d] = b[d]]
                  /\ b[d] \in Byte \ {Take(f, n)[d]}
  <2>1. n \in 0 .. Len(b)
    BY <1>2, <1>3
  <2>2. /\ Take(b, n) \in Seq(Byte) /\ Len(Take(b, n)) = n
        /\ \A k \in 1 .. n : Take(b, n)[k] = b[k]
    BY <2>1, TakeFacts
  <2>3. /\ Take(f, n) \in Seq(Byte) /\ Len(Take(f, n)) = n
        /\ \A k \in 1 .. n : Take(f, n)[k] = f[k]
    BY TakeFacts
  <2>4. Take(b, n) \in [1 .. n -> Byte] /\ Take(f, n) \in [1 .. n -> Byte]
    BY <2>2, <2>3, LenProperties
  <2>5. \A k \in 1 .. n : k # d => Take(b, n)[k] = Take(f, n)[k]
    <3>1. n \in Nat /\ n <= Len(b) /\ n <= Len(f)
      BY <1>1, <1>3
    <3>2. \A k \in 1 .. n : k \in 1 .. Len(f) /\ k <= Len(b)
      BY <1>1, <1>2, <3>1
    <3>3. \A k \in 1 .. n : k # d => b[k] = f[k]
      BY <3>2
    <3> QED
      BY <2>2, <2>3, <3>3
  <2>6. d \notin 1 .. n => Take(b, n) = Take(f, n)
    BY <2>4, <2>5
  <2>7. ASSUME d \in 1 .. n
        PROVE  /\ Take(b, n) = [Take(f, n) EXCEPT ![d] = b[d]]
               /\ b[d] \in Byte \ {Take(f, n)[d]}
    <3>1. d <= Len(b) /\ d \in 1 .. Len(b)
      BY <2>1, <2>7
    <3>2. b[d] \in Byte /\ b[d] # f[d]
      BY <3>1
    <3>3. Take(b, n)[d] = b[d] /\ Take(f, n)[d] = f[d]
      BY <2>2, <2>3, <2>7
    <3>4. Take(b, n) = [Take(f, n) EXCEPT ![d] = b[d]]
      BY <2>4, <2>5, <2>7, <3>3
    <3> QED
      BY <3>2, <3>3, <3>4
  <2> QED
    BY <2>4, <2>6, <2>7
<1>4. ClaimedLen(b) = ClaimedLen(f)
  <2>1. HeaderLen \in 0 .. Len(f)
    BY <1>1
  <2>2. CASE d \notin 1 .. HeaderLen
    BY <1>2, <1>3, <2>1, <2>2 DEF ClaimedLen
  <2>3. CASE d \in 1 .. HeaderLen
    <3>1. /\ Take(f, HeaderLen) \in [1 .. HeaderLen -> Byte]
          /\ Take(b, HeaderLen) = [Take(f, HeaderLen) EXCEPT ![d] = b[d]]
          /\ b[d] \in Byte
      BY <1>2, <1>3, <2>1, <2>3
    <3>2. d \in DamageAt \cap (1 .. HeaderLen)
      BY <2>3
    <3> QED
      BY <3>1, <3>2, DamageAssumption DEF ClaimedLen
  <2> QED
    BY <2>2, <2>3
<1>5. ASSUME FrameAtFront(b)
      PROVE  FALSE
  <2> DEFINE m == Len(f) - 1
  <2>1. Len(f) <= Len(b) /\ b[Len(f)] = Checksum(Take(b, m))
    BY <1>4, <1>5 DEF FrameAtFront, HasFrame, GoodChecksum
  <2>2. m \in 0 .. Len(f) /\ m <= Len(b) /\ m \in HeaderLen .. HeaderLen + MaxPayload
    BY <1>1, <1>2, <2>1
  <2>3. CASE d = Len(f)
    <3>1. d \notin 1 .. m
      BY <1>1, <2>3
    <3>2. Take(b, m) = Take(f, m)
      BY <1>3, <2>2, <3>1
    <3> QED
      BY <1>1, <2>1, <2>3, <3>2
  <2>4. CASE d # Len(f)
    <3>1. d \in 1 .. m /\ Len(f) \in 1 .. Len(f)
      BY <1>1, <2>4
    <3>2. /\ Take(f, m) \in [1 .. m -> Byte]
          /\ Take(b, m) = [Take(f, m) EXCEPT ![d] = b[d]]
          /\ b[d] \in Byte \ {Take(f, m)[d]}
      BY <1>3, <2>2, <3>1
    <3>3. b[Len(f)] = f[Len(f)]
      BY <2>1, <2>4, <3>1
    <3> HIDE DEF m
    <3>4. Checksum(Take(b, m)) # Checksum(Take(f, m))
      <4> DEFINE g == Take(f, m)
                 c == b[d]
      <4>1. \A s \in [1 .. m -> Byte] : \A k \in 1 .. m : \A x \in Byte \ {s[k]} :
              Checksum([s EXCEPT ![k] = x]) # Checksum(s)
        BY <2>2, ChecksumAssumption
      <4>2. g \in [1 .. m -> Byte] /\ d \in 1 .. m /\ c \in Byte \ {g[d]}
        BY <3>1, <3>2
      <4> HIDE DEF g, c
      <4>3. Checksum([g EXCEPT ![d] = c]) # Checksum(g)
        BY <4>1, <4>2, Zenon
      <4> QED
        BY <3>2, <4>3, Zenon DEF g, c
    <3> QED
      BY <1>1, <2>1, <3>3, <3>4 DEF m
  <2> QED
    BY <2>3, <2>4
<1> QED
  BY <1>4, <1>5

-----------------------------------------------------------------------------
(* What the invariant says of the bytes the receiver has.                  *)

\* The frames sent have a place and bytes.
LEMMA SentTyped ==
  ASSUME LinkTypeOK
  PROVE  /\ Len(sent) \in Nat /\ DOMAIN sent = 1 .. Len(sent)
         /\ \A i \in DOMAIN sent :
              /\ sent[i].at \in Nat
              /\ sent[i].bytes \in Seq(Byte)
              /\ Len(sent[i].bytes) \in Nat
              /\ EndOf(sent[i]) \in Nat
<1>1. sent \in Seq([at : Nat, bytes : Seq(Byte)])
  BY DEF LinkTypeOK
<1>2. Len(sent) \in Nat /\ DOMAIN sent = 1 .. Len(sent)
  BY <1>1
<1>3. ASSUME NEW i \in DOMAIN sent
      PROVE  sent[i] \in [at : Nat, bytes : Seq(Byte)]
  BY <1>1, <1>2, ElementOfSeq
<1>4. ASSUME NEW i \in DOMAIN sent
      PROVE  sent[i].at \in Nat /\ sent[i].bytes \in Seq(Byte) /\ Len(sent[i].bytes) \in Nat
  BY <1>3
<1> QED
  BY <1>2, <1>4 DEF EndOf

\* The stream is what the receiver has read, and then what the line holds.
LEMMA StreamParts ==
  ASSUME LinkTypeOK
  PROVE  /\ fed \in Seq(Byte) /\ wire \in Seq(Byte) /\ Stream \in Seq(Byte)
         /\ Len(fed) \in Nat /\ Len(wire) \in Nat
         /\ Len(Stream) = Len(fed) + Len(wire)
         /\ \A p \in 1 .. Len(fed) : Stream[p] = fed[p]
         /\ \A p \in 1 .. Len(wire) : Stream[Len(fed) + p] = wire[p]
<1>1. fed \in Seq(Byte) /\ wire \in Seq(Byte)
  BY DEF LinkTypeOK, TypeOK
<1>2. Len(fed) \in Nat /\ Len(wire) \in Nat
  BY <1>1
<1> QED
  BY <1>1, <1>2 DEF Stream

\* What has arrived from the place of a frame on.
LEMMA ArrivedPart ==
  ASSUME LinkTypeOK, NEW i \in DOMAIN sent, sent[i].at <= Len(fed)
  PROVE  LET b == Drop(fed, sent[i].at)
         IN  /\ b \in Seq(Byte) /\ Len(b) = Len(fed) - sent[i].at
             /\ \A k \in 1 .. Len(b) : b[k] = Stream[sent[i].at + k]
<1>1. sent[i].at \in 0 .. Len(fed) /\ fed \in Seq(Byte) /\ Len(fed) \in Nat
  BY SentTyped, StreamParts
<1> DEFINE b == Drop(fed, sent[i].at)
<1>2. /\ b \in Seq(Byte) /\ Len(b) = Len(fed) - sent[i].at
      /\ \A k \in 1 .. Len(fed) - sent[i].at : b[k] = fed[sent[i].at + k]
  BY <1>1, DropFacts
<1> HIDE DEF b
<1>3. ASSUME NEW k \in 1 .. Len(b)
      PROVE  b[k] = Stream[sent[i].at + k]
  <2>1. sent[i].at + k \in 1 .. Len(fed)
    BY <1>1, <1>2
  <2> QED
    BY <1>2, <2>1, StreamParts
<1> QED
  BY <1>2, <1>3 DEF b

\* A frame that was not damaged: the parser stops at its first byte, believes
\* its length, and takes it when it has arrived.
LEMMA IntactArrives ==
  ASSUME LinkIInv, NEW i \in DOMAIN sent, Intact(i), sent[i].at <= Len(fed)
  PROVE  LET b == Drop(fed, sent[i].at)
             f == sent[i].bytes
         IN  /\ ~FalseSync(b)
             /\ HasHeader(b) => ClaimedLen(b) = ClaimedLen(f)
             /\ Len(f) <= Len(b) => FrameAtFront(b) /\ Take(b, Len(f)) = f
<1> DEFINE b == Drop(fed, sent[i].at)
           f == sent[i].bytes
<1>1. /\ b \in Seq(Byte) /\ Len(b) \in Nat
      /\ \A k \in 1 .. Len(b) : b[k] = Stream[sent[i].at + k]
  BY ArrivedPart, LenProperties DEF LinkIInv
<1>2. f \in Seq(Byte) /\ Len(f) \in Nat
  BY SentTyped DEF LinkIInv
<1>3. FrameAtFront(f) /\ Len(f) = FrameSize(ClaimedLen(f))
  BY DEF LinkIInv, FramesInv
<1>4. \A k \in 1 .. Len(f) : Stream[sent[i].at + k] = f[k]
  BY DEF LinkIInv, ContentInv, Intact
<1> HIDE DEF b, f
<1>5. \A k \in 1 .. Len(f) : k <= Len(b) => b[k] = f[k]
  BY <1>1, <1>2, <1>4
<1>6. /\ ~FalseSync(b)
      /\ HasHeader(b) => ClaimedLen(b) = ClaimedLen(f)
      /\ Len(f) <= Len(b) => FrameAtFront(b) /\ Take(b, Len(f)) = f
  BY <1>1, <1>2, <1>3, <1>5, FrameMatch
<1> QED
  BY <1>6 DEF b, f

\* A frame with the one damaged byte: the parser believes its length and throws
\* it away when it has arrived.
LEMMA DamagedArrives ==
  ASSUME LinkIInv, MaxDamage <= 1, NEW i \in DOMAIN sent, ~Intact(i),
         sent[i].at <= Len(fed), HasHeader(Drop(fed, sent[i].at))
  PROVE  LET b == Drop(fed, sent[i].at)
         IN  ClaimedLen(b) = ClaimedLen(sent[i].bytes) /\ ~FrameAtFront(b)
<1> DEFINE b == Drop(fed, sent[i].at)
           f == sent[i].bytes
<1>1. /\ b \in Seq(Byte) /\ Len(b) \in Nat /\ HasHeader(b)
      /\ \A k \in 1 .. Len(b) : b[k] = Stream[sent[i].at + k]
  BY ArrivedPart, LenProperties DEF LinkIInv
<1>2. f \in Seq(Byte) /\ Len(f) \in Nat
  BY SentTyped DEF LinkIInv
<1>3. FrameAtFront(f) /\ Len(f) = FrameSize(ClaimedLen(f))
  BY DEF LinkIInv, FramesInv
<1>4. PICK hit \in damaged : hit[1] = i
  BY DEF Intact
<1>5. hit = <<i, hit[2]>> /\ hit[2] \in DamageAt
  <2>1. damaged \subseteq (DOMAIN sent) \X DamageAt
    BY DEF LinkIInv, LinkTypeOK
  <2>2. hit \in (DOMAIN sent) \X DamageAt
    BY <2>1
  <2> QED
    BY <1>4, <2>2
<1>6. /\ hit[2] <= Len(f)
      /\ damaged = {hit}
      /\ Stream[sent[i].at + hit[2]] # f[hit[2]]
  BY <1>4 DEF LinkIInv, ContentInv
<1> DEFINE d == hit[2]
<1>7. \A k \in 1 .. Len(f) : k # d => <<i, k>> \notin damaged
  BY <1>5, <1>6
<1>8. \A k \in 1 .. Len(f) : k # d => Stream[sent[i].at + k] = f[k]
  BY <1>7 DEF LinkIInv, ContentInv
<1>9. d \in 1 .. Len(f)
  <2>1. d \in Nat \ {0} /\ d <= Len(f)
    BY <1>5, <1>6, LinkAssumption
  <2> HIDE DEF d, f
  <2> QED
    BY <1>2, <2>1
<1> HIDE DEF b, f, d
<1>10. /\ \A k \in 1 .. Len(f) : k # d /\ k <= Len(b) => b[k] = f[k]
       /\ d <= Len(b) => b[d] # f[d]
  <2>1. d \in DamageAt /\ Stream[sent[i].at + d] # f[d]
    BY <1>5, <1>6 DEF d
  <2>2. \A k \in 1 .. Len(f) : k <= Len(b) => b[k] = Stream[sent[i].at + k]
    BY <1>1, <1>2
  <2>3. d <= Len(b) => b[d] = Stream[sent[i].at + d]
    BY <1>9, <2>2
  <2> QED
    BY <1>8, <2>1, <2>2, <2>3
<1>11. ClaimedLen(b) = ClaimedLen(f) /\ ~FrameAtFront(b)
  <2>1. d \in DamageAt
    BY <1>5 DEF d
  <2> QED
    BY <1>1, <1>2, <1>3, <1>9, <1>10, <2>1, DamagedMatch
<1> QED
  BY <1>11 DEF b, f

\* The front of the buffer, and how far the scan of a call of get moves it.
LEMMA FrontParts ==
  ASSUME LinkIInv, NEW n \in 0 .. Len(buffer), ScansOver(buffer, n)
  PROVE  /\ base \in Nat /\ n \in Nat /\ base + n \in 0 .. Len(fed)
         /\ Drop(buffer, n) = Drop(fed, base + n)
         /\ Drop(buffer, n) \in Seq(Byte)
         /\ Len(Drop(buffer, n)) = Len(fed) - (base + n)
         /\ \A p \in base .. base + n - 1 : FalseSync(Drop(fed, p))
<1>1. IInv /\ base \in Nat /\ fed \in Seq(Byte)
  BY DEF LinkIInv, IInv, TypeOK
<1>2. /\ Drop(buffer, n) \in Seq(Byte)
      /\ Drop(buffer, n) = Drop(fed, base + n)
      /\ base + n \in 0 .. Len(fed)
      /\ \A p \in base .. base + n - 1 : FalseSync(Drop(fed, p))
  BY <1>1, ScanSettles
<1> QED
  BY <1>1, <1>2, DropFacts

\* The scan of a call of get does not pass a frame that arrives as it was sent.
LEMMA ScanStopsAtFrames ==
  ASSUME LinkIInv, NEW n \in 0 .. Len(buffer), ScansOver(buffer, n),
         NEW i \in DOMAIN sent, Intact(i), base <= sent[i].at
  PROVE  base + n <= sent[i].at
<1>1. /\ base \in Nat /\ n \in Nat /\ base + n \in 0 .. Len(fed)
      /\ \A p \in base .. base + n - 1 : FalseSync(Drop(fed, p))
  BY FrontParts
<1>2. sent[i].at \in Nat
  BY SentTyped DEF LinkIInv
<1>3. ASSUME sent[i].at < base + n
      PROVE  FALSE
  <2>1. sent[i].at \in base .. base + n - 1 /\ sent[i].at <= Len(fed)
    BY <1>1, <1>2, <1>3, StreamParts DEF LinkIInv
  <2> QED
    BY <1>1, <2>1, IntactArrives
<1> QED
  BY <1>1, <1>2, <1>3

\* Frames the receiver has returned lie behind the front of its buffer.
LEMMA ReceivedIsBehind ==
  ASSUME LinkIInv, NEW i \in DOMAIN sent, Received(i)
  PROVE  EndOf(sent[i]) <= base
<1>1. PICK j \in DOMAIN out : out[j] = sent[i]
  BY DEF Received
<1> QED
  BY <1>1 DEF LinkIInv, IInv, ReturnedFramesWereSent, EndOf

\* When the scan stops at a byte that looks like a frame start, it is one.
LEMMA FrontIsFrame ==
  ASSUME LinkIInv, Honest, NEW n \in 0 .. Len(buffer), ScansOver(buffer, n),
         HasHeader(Drop(buffer, n)), Drop(buffer, n)[1] = Magic
  PROVE  \E j \in DOMAIN sent : sent[j].at = base + n
<1> DEFINE q == base + n
<1>1. /\ base \in Nat /\ n \in Nat /\ q \in 0 .. Len(fed)
      /\ Drop(buffer, n) = Drop(fed, q)
      /\ Len(Drop(buffer, n)) = Len(fed) - q
  BY FrontParts
<1>2. fed \in Seq(Byte) /\ Len(fed) \in Nat /\ Len(Stream) \in Nat /\ Len(fed) <= Len(Stream)
  BY StreamParts DEF LinkIInv
<1>3. q + 1 \in 1 .. Len(fed) /\ q + 1 \in 1 .. Len(Stream)
  BY <1>1, <1>2, SizesAssumption DEF HasHeader
<1>4. fed[q + 1] = Magic /\ Stream[q + 1] = Magic
  <2>1. fed[q + 1] = Drop(fed, q)[1]
    <3> HIDE DEF q
    <3>1. q \in 0 .. Len(fed) /\ 1 \in 1 .. Len(fed) - q
      BY <1>1, <1>2, <1>3
    <3> QED
      BY <1>2, <3>1, DropFacts
  <2> QED
    BY <1>1, <1>3, <2>1, StreamParts DEF LinkIInv
<1>5. CASE FedClean
  BY <1>1, <1>3, <1>4, <1>5 DEF FedClean
<1>6. CASE damaged = {}
  <2>1. PICK j \in DOMAIN sent : q + 1 \in sent[j].at + 1 .. EndOf(sent[j])
    BY <1>3, <1>4, <1>6 DEF LinkIInv, GapInv
  <2>2. sent[j].at \in Nat /\ EndOf(sent[j]) \in Nat
    BY SentTyped DEF LinkIInv
  <2>3. sent[j].at <= q /\ q < EndOf(sent[j])
    BY <1>1, <2>1, <2>2
  <2>4. ~Received(j)
    BY <1>1, <2>2, <2>3, ReceivedIsBehind
  <2>5. Intact(j)
    BY <1>6 DEF Intact
  <2>6. base <= sent[j].at
    BY <2>4, <2>5 DEF LinkIInv, DeliveryInv
  <2>7. q <= sent[j].at
    BY <2>5, <2>6, ScanStopsAtFrames
  <2> QED
    BY <1>1, <2>2, <2>3, <2>7
<1> QED
  BY <1>5, <1>6 DEF Honest

-----------------------------------------------------------------------------
(* The encoder.                                                            *)

\* smls_frame_encode writes a byte string of the length of its payload plus
\* header and checksum.
LEMMA EncodedBytes ==
  ASSUME NEW payload \in Payloads, Len(payload) <= MaxPayload,
         NEW tag \in 0 .. MaxFrames - 1
  PROVE  LET head == MakeHeader(tag, Len(payload))
             body == head \o payload
             frame == Encode(tag, payload)
         IN  /\ Len(payload) \in SendLen /\ Len(payload) \in 0 .. MaxPayload
             /\ head \in [1 .. HeaderLen -> Byte] /\ head[1] = Magic
             /\ PayloadLen(head) = Len(payload)
             /\ head \in Seq(Byte) /\ Len(head) = HeaderLen
             /\ body \in Seq(Byte) /\ Len(body) = HeaderLen + Len(payload)
             /\ frame \in Seq(Byte) /\ Len(frame) = FrameSize(Len(payload))
             /\ frame = Append(body, Checksum(body)) /\ Checksum(body) \in Byte
<1> DEFINE head == MakeHeader(tag, Len(payload))
           body == head \o payload
           frame == Encode(tag, payload)
<1>1. PICK n \in SendLen : payload \in [1 .. n -> PayloadByte]
  BY DEF Payloads
<1>2. n \in Nat /\ PayloadByte \subseteq Byte
  BY LinkAssumption
<1>3. payload \in Seq(Byte) /\ Len(payload) = n
  <2>1. payload \in [1 .. n -> Byte]
    BY <1>1, <1>2
  <2> QED
    BY <1>2, <2>1
<1>4. n \in 0 .. MaxPayload /\ HeaderLen \in Nat
  BY <1>2, <1>3, SizesAssumption
<1>5. head \in [1 .. HeaderLen -> Byte] /\ head[1] = Magic /\ PayloadLen(head) = Len(payload)
  BY <1>3, <1>4, HeaderAssumption
<1> HIDE DEF head
<1>6. head \in Seq(Byte) /\ Len(head) = HeaderLen
  BY <1>4, <1>5
<1>7. body \in Seq(Byte) /\ Len(body) = HeaderLen + n
  BY <1>3, <1>6, ConcatProperties
<1>8. frame = Append(body, Checksum(body))
  BY DEF Encode, head
<1> HIDE DEF body, frame
<1>9. Checksum(body) \in Byte
  <2>1. HeaderLen + n \in HeaderLen .. HeaderLen + MaxPayload
    BY <1>4, SizesAssumption
  <2>2. body \in [1 .. HeaderLen + n -> Byte]
    BY <1>7, LenProperties
  <2> QED
    BY <2>1, <2>2, ChecksumAssumption
<1>10. frame \in Seq(Byte) /\ Len(frame) = FrameSize(n)
  <2> DEFINE c == Checksum(body)
  <2>1. c \in Byte
    BY <1>9
  <2> HIDE DEF c
  <2>2. Append(body, c) \in Seq(Byte) /\ Len(Append(body, c)) = HeaderLen + n + 1
    BY <1>4, <1>7, <2>1
  <2> QED
    BY <1>8, <2>2 DEF FrameSize, c
<1> QED
  BY <1>1, <1>3, <1>4, <1>5, <1>6, <1>7, <1>8, <1>9, <1>10 DEF head, body, frame

\* What it writes for a payload that is not empty is a frame for the parser.
LEMMA EncodedFrame ==
  ASSUME NEW payload \in Payloads, Len(payload) <= MaxPayload, Len(payload) # 0,
         NEW tag \in 0 .. MaxFrames - 1
  PROVE  LET frame == Encode(tag, payload)
         IN  FrameAtFront(frame) /\ ClaimedLen(frame) = Len(payload)
<1> DEFINE head == MakeHeader(tag, Len(payload))
           body == head \o payload
           frame == Encode(tag, payload)
           n == Len(payload)
           c == Checksum(body)
<1>1. /\ n \in 0 .. MaxPayload
      /\ head \in [1 .. HeaderLen -> Byte] /\ head[1] = Magic
      /\ PayloadLen(head) = n
      /\ head \in Seq(Byte) /\ Len(head) = HeaderLen
      /\ body \in Seq(Byte) /\ Len(body) = HeaderLen + n
      /\ frame \in Seq(Byte) /\ Len(frame) = FrameSize(n)
      /\ frame = Append(body, c) /\ c \in Byte
  BY EncodedBytes
<1>2. payload \in Seq(Byte)
  <2>1. PICK m \in SendLen : payload \in [1 .. m -> PayloadByte]
    BY DEF Payloads
  <2>2. m \in Nat /\ payload \in [1 .. m -> Byte]
    BY <2>1, LinkAssumption
  <2> QED
    BY <2>2
<1>3. HeaderLen \in Nat \ {0} /\ MaxPayload \in Nat \ {0}
  BY SizesAssumption
<1>4. n \in 1 .. MaxPayload
  BY <1>1, <1>3
<1>5. \A k \in 1 .. HeaderLen : body[k] = head[k]
  <2> HIDE DEF head, n
  <2> QED
    BY <1>1, <1>2, <1>3, <1>4, ConcatProperties
<1> HIDE DEF head, body, frame, n, c
<1>6. Len(frame) = HeaderLen + n + 1
  BY <1>1 DEF FrameSize
<1>7. (\A k \in 1 .. HeaderLen + n : frame[k] = body[k]) /\ frame[HeaderLen + n + 1] = c
  <2> DEFINE m == HeaderLen + n
  <2>1. Len(body) = m /\ body \in Seq(Byte) /\ c \in Byte /\ frame = Append(body, c)
    BY <1>1
  <2> HIDE DEF m
  <2>2. /\ \A k \in 1 .. Len(body) : frame[k] = body[k]
        /\ frame[Len(body) + 1] = c
    BY <2>1, AppendProperties
  <2>3. (\A k \in 1 .. m : frame[k] = body[k]) /\ frame[m + 1] = c
    BY <2>1, <2>2
  <2> QED
    BY <2>3 DEF m
<1>8. Take(frame, HeaderLen) = head
  <2>1. HeaderLen \in 0 .. Len(frame)
    BY <1>3, <1>4, <1>6
  <2>2. /\ Take(frame, HeaderLen) \in Seq(Byte) /\ Len(Take(frame, HeaderLen)) = HeaderLen
        /\ \A k \in 1 .. HeaderLen : Take(frame, HeaderLen)[k] = frame[k]
    BY <1>1, <2>1, TakeFacts
  <2>3. \A k \in 1 .. HeaderLen : frame[k] = head[k]
    BY <1>3, <1>4, <1>5, <1>7
  <2> QED
    BY <1>1, <2>2, <2>3, SeqEqual
<1>9. Take(frame, HeaderLen + n) = body
  <2>1. HeaderLen + n \in 0 .. Len(frame)
    BY <1>3, <1>4, <1>6
  <2> DEFINE m == HeaderLen + n
  <2> HIDE DEF m
  <2>2. m \in 0 .. Len(frame) /\ Len(body) = m
    BY <1>1, <2>1 DEF m
  <2>3. /\ Take(frame, m) \in Seq(Byte) /\ Len(Take(frame, m)) = m
        /\ \A k \in 1 .. m : Take(frame, m)[k] = frame[k]
    BY <1>1, <2>2, TakeFacts
  <2>4. \A k \in 1 .. m : frame[k] = body[k]
    BY <1>7 DEF m
  <2>5. Take(frame, m) = body
    BY <1>1, <2>2, <2>3, <2>4, SeqEqual
  <2> QED
    BY <2>5 DEF m
<1>10. ClaimedLen(frame) = n
  BY <1>1, <1>8 DEF ClaimedLen
<1>11. HasHeader(frame) /\ HasFrame(frame)
  BY <1>1, <1>3, <1>4, <1>6, <1>10 DEF HasHeader, HasFrame
<1>12. GoodHeader(frame)
  <2>1. frame[1] = head[1]
    BY <1>3, <1>4, <1>5, <1>7
  <2> QED
    BY <1>1, <1>4, <1>10, <2>1 DEF GoodHeader
<1>13. GoodChecksum(frame)
  <2>1. FrameSize(ClaimedLen(frame)) = HeaderLen + n + 1
    BY <1>10 DEF FrameSize
  <2> DEFINE total == FrameSize(ClaimedLen(frame))
  <2>2. total - 1 = HeaderLen + n
    BY <1>3, <1>4, <2>1
  <2>3. frame[total] = c
    BY <1>7, <2>1
  <2>4. Checksum(Take(frame, total - 1)) = c
    BY <1>9, <2>2, Zenon DEF c
  <2> QED
    BY <2>3, <2>4, Zenon DEF GoodChecksum
<1> QED
  BY <1>10, <1>11, <1>12, <1>13 DEF FrameAtFront, frame, n

-----------------------------------------------------------------------------
(* Types. The parser takes part in the link by its own steps, so that its  *)
(* inductive invariant holds here as it does there.                        *)

\* A chunk read from the line is one the parser's own specification gives it.
LEMMA ReadIsInput ==
  ASSUME LinkTypeOK, NEW n \in 1 .. MaxChunk, Read(n)
  PROVE  /\ Next /\ n \in 0 .. Len(wire)
         /\ Take(wire, n) \in Seq(Byte) /\ Len(Take(wire, n)) = n
         /\ Drop(wire, n) \in Seq(Byte)
<1>1. wire \in Seq(Byte) /\ n \in 0 .. Len(wire) /\ Input(Take(wire, n))
  BY StreamParts, BoundsAssumption DEF Read
<1>2. /\ Take(wire, n) \in Seq(Byte) /\ Len(Take(wire, n)) = n
      /\ Drop(wire, n) \in Seq(Byte)
  BY <1>1, TakeFacts, DropFacts
<1>3. Take(wire, n) \in [1 .. n -> Byte]
  BY <1>2, LenProperties
<1>4. Take(wire, n) \in Chunk
  BY <1>3 DEF Chunk
<1> QED
  BY <1>1, <1>2, <1>4 DEF Next

\* Every step keeps the parser's invariant and the types of the line.
LEMMA StepKeepsTypes ==
  ASSUME IInv, LinkTypeOK, [LinkNext]_allVars
  PROVE  IInv' /\ LinkTypeOK'
<1>1. /\ wire \in Seq(Byte) /\ phase \in {"read", "drain"}
      /\ noise \in 0 .. MaxNoise
      /\ sent \in Seq([at : Nat, bytes : Seq(Byte)]) /\ Len(sent) <= MaxFrames
      /\ \A i \in DOMAIN sent : Len(sent[i].bytes) \in HeaderLen + 1 .. BufSize
      /\ damaged \subseteq (DOMAIN sent) \X DamageAt
  BY DEF LinkTypeOK
<1>2. /\ fed \in Seq(Byte) /\ Len(fed) \in Nat /\ Len(wire) \in Nat
      /\ Len(sent) \in Nat /\ DOMAIN sent = 1 .. Len(sent)
  BY StreamParts, SentTyped
<1>3. IInv' => TypeOK'
  BY DEF IInv
<1>4. ASSUME NEW payload \in Payloads, Send(payload)
      PROVE  IInv' /\ LinkTypeOK'
  <2> DEFINE frame == Encode(Len(sent), payload)
             new == [at |-> WireEnd, bytes |-> frame]
  <2>1. /\ Len(sent) < MaxFrames /\ Len(payload) <= MaxPayload
        /\ wire' = wire \o frame /\ sent' = Append(sent, new)
        /\ UNCHANGED <<vars, phase, noise, damaged>>
    BY <1>4 DEF Send
  <2>2. Len(sent) \in 0 .. MaxFrames - 1
    BY <1>2, <2>1, LinkAssumption
  <2>3. frame \in Seq(Byte) /\ Len(frame) \in HeaderLen + 1 .. BufSize
    <3>1. /\ frame \in Seq(Byte) /\ Len(frame) = FrameSize(Len(payload))
          /\ Len(payload) \in 0 .. MaxPayload
      BY <2>1, <2>2, EncodedBytes
    <3> QED
      BY <3>1, SizesAssumption DEF FrameSize, BufSize
  <2>4. IInv'
    BY <2>1, NextKeepsIInv
  <2>5. new \in [at : Nat, bytes : Seq(Byte)]
    BY <1>2, <2>3 DEF WireEnd
  <2> HIDE DEF frame, new
  <2>6. /\ sent' \in Seq([at : Nat, bytes : Seq(Byte)])
        /\ Len(sent') = Len(sent) + 1 /\ DOMAIN sent \subseteq DOMAIN sent'
    BY <1>1, <1>2, <2>1, <2>5
  <2>7. wire' \in Seq(Byte)
    BY <1>1, <2>1, <2>3
  <2>8. Len(sent') <= MaxFrames
    BY <1>2, <2>1, <2>6, LinkAssumption
  <2>9. damaged' \subseteq (DOMAIN sent') \X DamageAt
    BY <1>1, <2>1, <2>6
  <2>10. \A i \in DOMAIN sent' : Len(sent'[i].bytes) \in HeaderLen + 1 .. BufSize
    <3> SUFFICES ASSUME NEW i \in DOMAIN sent'
                 PROVE  Len(sent'[i].bytes) \in HeaderLen + 1 .. BufSize
      OBVIOUS
    <3>1. CASE i \in DOMAIN sent
      BY <1>1, <1>2, <2>1, <3>1
    <3>2. CASE i = Len(sent) + 1
      BY <1>1, <1>2, <2>1, <2>3, <3>2 DEF new
    <3> QED
      BY <1>2, <2>6, <3>1, <3>2
  <2> QED
    BY <1>1, <1>3, <2>1, <2>4, <2>6, <2>7, <2>8, <2>9, <2>10 DEF LinkTypeOK
<1>5. ASSUME NEW b \in NoiseByte, Noise(b)
      PROVE  IInv' /\ LinkTypeOK'
  <2>1. /\ noise < MaxNoise /\ noise' = noise + 1 /\ wire' = Append(wire, b)
        /\ UNCHANGED <<vars, phase, sent, damaged>>
    BY <1>5 DEF Noise
  <2>2. IInv'
    BY <2>1, NextKeepsIInv
  <2>3. wire' \in Seq(Byte) /\ noise' \in 0 .. MaxNoise
    BY <1>1, <2>1, LinkAssumption
  <2> QED
    BY <1>1, <1>3, <2>1, <2>2, <2>3 DEF LinkTypeOK
<1>6. ASSUME NEW i \in DOMAIN sent, NEW k \in DamageAt, NEW b \in Byte, Damage(i, k, b)
      PROVE  IInv' /\ LinkTypeOK'
  <2> DEFINE w == sent[i].at + k - Len(fed)
  <2>1. /\ w \in DOMAIN wire /\ wire' = [wire EXCEPT ![w] = b]
        /\ damaged' = damaged \cup {<<i, k>>}
        /\ UNCHANGED <<vars, phase, noise, sent>>
    BY <1>6 DEF Damage
  <2>2. IInv'
    BY <2>1, NextKeepsIInv
  <2>3. wire' \in Seq(Byte)
    BY <1>1, <2>1, ExceptSeq
  <2> QED
    BY <1>1, <1>3, <2>1, <2>2, <2>3 DEF LinkTypeOK
<1>7. ASSUME NEW n \in 1 .. MaxChunk, Read(n)
      PROVE  IInv' /\ LinkTypeOK'
  <2>1. wire' = Drop(wire, n) /\ phase' = "drain" /\ UNCHANGED <<noise, sent, damaged>>
    BY <1>7 DEF Read
  <2>2. IInv' /\ wire' \in Seq(Byte)
    BY <1>7, <2>1, ReadIsInput, NextKeepsIInv
  <2> QED
    BY <1>1, <1>3, <2>1, <2>2 DEF LinkTypeOK
<1>8. ASSUME Drain
      PROVE  IInv' /\ LinkTypeOK'
  <2>1. /\ Next /\ phase' \in {"read", "drain"}
        /\ UNCHANGED <<wire, noise, sent, damaged>>
    BY <1>8 DEF Drain, Next
  <2>2. IInv'
    BY <2>1, NextKeepsIInv
  <2> QED
    BY <1>1, <1>3, <2>1, <2>2 DEF LinkTypeOK
<1>9. CASE UNCHANGED allVars
  <2>1. UNCHANGED vars /\ UNCHANGED linkVars
    BY <1>9 DEF allVars
  <2>2. IInv'
    BY <2>1, NextKeepsIInv
  <2> QED
    BY <1>1, <1>3, <2>1, <2>2 DEF linkVars, LinkTypeOK
<1> QED
  BY <1>4, <1>5, <1>6, <1>7, <1>8, <1>9 DEF LinkNext, Line, Receive

\* Parser and line start in their types.
LEMMA LinkInitTypes == LinkInit => IInv /\ LinkTypeOK
<1> SUFFICES ASSUME LinkInit PROVE IInv /\ LinkTypeOK
  OBVIOUS
<1>1. IInv
  BY InitIInv DEF LinkInit
<1> QED
  BY <1>1, LinkAssumption DEF LinkInit, LinkTypeOK, IInv

\* The parser's own guarantees survive whatever the line does, and sender and
\* line keep to their types.
THEOREM LinkTypeCorrect == LinkSpec => []LinkTypeOK
<1>1. IInv /\ LinkTypeOK /\ [LinkNext]_allVars => (IInv /\ LinkTypeOK)'
  BY StepKeepsTypes
<1> QED
  BY LinkInitTypes, <1>1, PTL DEF LinkSpec

-----------------------------------------------------------------------------
(* Steps of the line.                                                      *)

\* What was honest before a step, if it is so after it.
LEMMA HonestBefore ==
  ASSUME LinkTypeOK, Honest', damaged \subseteq damaged',
         \A p \in 1 .. Len(fed) : p \in 1 .. Len(fed') /\ fed'[p] = fed[p],
         \A i \in DOMAIN sent' :
           (i \in DOMAIN sent /\ sent'[i] = sent[i]) \/ Len(fed) <= sent'[i].at
  PROVE  Honest
<1>1. CASE damaged' = {}
  BY <1>1 DEF Honest
<1>2. CASE MaxDamage <= 1 /\ FedClean'
  <2> SUFFICES ASSUME NEW p \in 1 .. Len(fed), fed[p] = Magic
               PROVE  \E i \in DOMAIN sent : sent[i].at = p - 1
    BY <1>2 DEF Honest, FedClean
  <2>1. PICK i \in DOMAIN sent' : sent'[i].at = p - 1
    BY <1>2 DEF FedClean
  <2>2. ~(Len(fed) <= sent'[i].at)
    BY <2>1, StreamParts
  <2> QED
    BY <2>1, <2>2
<1> QED
  BY <1>1, <1>2 DEF Honest

\* Bytes put on the line lengthen the stream and leave the rest as it was.
LEMMA StreamGrows ==
  ASSUME LinkTypeOK, NEW more \in Seq(Byte), fed' = fed, wire' = wire \o more
  PROVE  /\ Len(more) \in Nat /\ Len(Stream') = Len(Stream) + Len(more)
         /\ \A p \in 1 .. Len(Stream) : Stream'[p] = Stream[p]
         /\ \A k \in 1 .. Len(more) : Stream'[Len(Stream) + k] = more[k]
<1>1. fed \in Seq(Byte) /\ wire \in Seq(Byte) /\ Stream \in Seq(Byte)
  BY StreamParts
<1>2. Stream' = Stream \o more
  BY <1>1, ConcatAssociative DEF Stream
<1> HIDE DEF Stream
<1> QED
  BY <1>1, <1>2, ConcatProperties

\* Send puts a frame behind everything that was sent.
LEMMA SendKeeps ==
  ASSUME CleanLine, LinkIInv, NEW payload \in Payloads, Send(payload)
  PROVE  LinkIInv'
<1> DEFINE frame == Encode(Len(sent), payload)
           new == [at |-> WireEnd, bytes |-> frame]
           m == Len(sent) + 1
<1>1. /\ Len(sent) < MaxFrames /\ Len(payload) <= MaxPayload
      /\ wire' = wire \o frame /\ sent' = Append(sent, new)
      /\ UNCHANGED <<vars, phase, noise, damaged>>
  BY DEF Send
<1>2. /\ buffer' = buffer /\ fed' = fed /\ base' = base /\ out' = out
      /\ phase' = phase /\ damaged' = damaged
  BY <1>1 DEF vars
<1>3. IInv' /\ LinkTypeOK'
  <2>1. LinkNext
    BY DEF LinkNext, Line
  <2> QED
    BY <2>1, StepKeepsTypes DEF LinkIInv
<1>4. /\ Len(sent) \in Nat /\ DOMAIN sent = 1 .. Len(sent)
      /\ \A i \in DOMAIN sent :
           /\ sent[i].at \in Nat /\ sent[i].bytes \in Seq(Byte)
           /\ Len(sent[i].bytes) \in Nat /\ EndOf(sent[i]) \in Nat
  BY SentTyped DEF LinkIInv
<1>5. /\ Len(fed) \in Nat /\ Len(wire) \in Nat /\ Len(Stream) = Len(fed) + Len(wire)
      /\ base \in 0 .. Len(fed)
  BY StreamParts DEF LinkIInv, IInv, TypeOK, BufferIsStreamSuffix
<1>6. /\ frame \in Seq(Byte) /\ Len(frame) = FrameSize(Len(payload))
      /\ FrameAtFront(frame) /\ ClaimedLen(frame) = Len(payload)
      /\ Len(frame) - 1 + MaxChunk <= BufSize
  <2>1. Len(sent) \in 0 .. MaxFrames - 1
    BY <1>1, <1>4, LinkAssumption
  <2>2. /\ frame \in Seq(Byte) /\ Len(frame) = FrameSize(Len(payload))
        /\ Len(payload) \in SendLen
    BY <1>1, <2>1, EncodedBytes
  <2>3. Len(payload) # 0
    BY <2>2 DEF CleanLine
  <2> QED
    BY <1>1, <2>1, <2>2, <2>3, EncodedFrame DEF CleanLine
<1>7. WireEnd = Len(Stream)
  BY <1>5 DEF WireEnd
<1>8. /\ sent \in Seq([at : Nat, bytes : Seq(Byte)])
      /\ new \in [at : Nat, bytes : Seq(Byte)]
  BY <1>5, <1>6, <1>7 DEF LinkIInv, LinkTypeOK
<1> HIDE DEF frame
<1>9. /\ Len(frame) \in Nat \ {0} /\ Len(Stream') = Len(Stream) + Len(frame)
      /\ \A p \in 1 .. Len(Stream) : Stream'[p] = Stream[p]
      /\ \A k \in 1 .. Len(frame) : Stream'[Len(Stream) + k] = frame[k]
  <2>1. LinkTypeOK
    BY DEF LinkIInv
  <2>2. /\ Len(frame) \in Nat /\ Len(Stream') = Len(Stream) + Len(frame)
        /\ \A p \in 1 .. Len(Stream) : Stream'[p] = Stream[p]
        /\ \A k \in 1 .. Len(frame) : Stream'[Len(Stream) + k] = frame[k]
    BY <1>1, <1>2, <1>6, <2>1, StreamGrows
  <2>3. HeaderLen \in 1 .. Len(frame) - 2
    BY <1>6, FrameParts
  <2> QED
    BY <2>2, <2>3
<1>10. /\ new.at = Len(Stream) /\ new.bytes = frame /\ EndOf(new) = Len(Stream')
  BY <1>7, <1>9 DEF EndOf
<1> HIDE DEF new
<1>11. /\ DOMAIN sent' = 1 .. m /\ Len(sent') = m
       /\ \A i \in DOMAIN sent : i \in DOMAIN sent' /\ sent'[i] = sent[i]
       /\ sent'[m] = new
  BY <1>1, <1>4, <1>8, AppendProperties
<1>12. \A i \in DOMAIN sent' : i \in DOMAIN sent \/ i = m
  BY <1>4, <1>11
<1>13. \A i \in DOMAIN sent : EndOf(sent[i]) <= Len(Stream)
  BY DEF LinkIInv, FramesInv
<1>14. FramesInv'
  <2>1. ASSUME NEW i \in DOMAIN sent'
        PROVE  /\ FrameAtFront(sent'[i].bytes)
               /\ Len(sent'[i].bytes) = FrameSize(ClaimedLen(sent'[i].bytes))
               /\ Len(sent'[i].bytes) - 1 + MaxChunk <= BufSize
               /\ EndOf(sent'[i]) <= Len(Stream')
    <3>1. CASE i \in DOMAIN sent
      <4>1. EndOf(sent[i]) <= Len(Stream')
        BY <1>4, <1>5, <1>9, <1>13, <3>1
      <4> QED
        BY <1>11, <3>1, <4>1 DEF LinkIInv, FramesInv
    <3>2. CASE i = m
      BY <1>6, <1>9, <1>10, <1>11, <3>2, <1>5
    <3> QED
      BY <1>12, <3>1, <3>2
  <2>2. ASSUME NEW i \in DOMAIN sent', NEW j \in DOMAIN sent', i < j
        PROVE  EndOf(sent'[i]) <= sent'[j].at
    <3>1. i \in DOMAIN sent
      BY <1>4, <1>11, <2>2
    <3>2. CASE j \in DOMAIN sent
      BY <1>11, <2>2, <3>1, <3>2 DEF LinkIInv, FramesInv
    <3>3. CASE j = m
      BY <1>10, <1>11, <1>13, <3>1, <3>3
    <3> QED
      BY <1>12, <3>2, <3>3
  <2> QED
    BY <2>1, <2>2 DEF FramesInv, EndOf
<1>15. \A hit \in damaged : hit[1] \in DOMAIN sent /\ hit[2] \in Nat \ {0}
  <2>1. damaged \subseteq (DOMAIN sent) \X DamageAt
    BY DEF LinkIInv, LinkTypeOK
  <2> QED
    BY <2>1, LinkAssumption
<1>16. ContentInv'
  <2>1. ASSUME NEW i \in DOMAIN sent', NEW k \in 1 .. Len(sent'[i].bytes), <<i, k>> \notin damaged
        PROVE  Stream'[sent'[i].at + k] = sent'[i].bytes[k]
    <3>1. CASE i \in DOMAIN sent
      <4>1. sent'[i] = sent[i] /\ k \in 1 .. Len(sent[i].bytes)
        BY <1>11, <3>1
      <4>2. sent[i].at + k \in 1 .. Len(Stream)
        <5>1. sent[i].at + Len(sent[i].bytes) <= Len(Stream)
          BY <1>13, <3>1 DEF EndOf
        <5> QED
          BY <1>4, <1>5, <3>1, <4>1, <5>1
      <4>3. Stream[sent[i].at + k] = sent[i].bytes[k]
        BY <2>1, <3>1, <4>1 DEF LinkIInv, ContentInv
      <4> QED
        BY <1>9, <4>1, <4>2, <4>3
    <3>2. CASE i = m
      BY <1>9, <1>10, <1>11, <3>2
    <3> QED
      BY <1>12, <3>1, <3>2
  <2>2. ASSUME NEW hit \in damaged
        PROVE  /\ hit[2] <= Len(sent'[hit[1]].bytes)
               /\ MaxDamage <= 1 =>
                    /\ damaged = {hit}
                    /\ Stream'[sent'[hit[1]].at + hit[2]] # sent'[hit[1]].bytes[hit[2]]
    <3> DEFINE i == hit[1]
    <3>1. i \in DOMAIN sent /\ sent'[i] = sent[i] /\ hit[2] \in Nat \ {0}
      BY <1>11, <1>15
    <3>2. /\ hit[2] <= Len(sent[i].bytes)
          /\ MaxDamage <= 1 =>
               damaged = {hit} /\ Stream[sent[i].at + hit[2]] # sent[i].bytes[hit[2]]
      BY DEF LinkIInv, ContentInv
    <3>3. sent[i].at + hit[2] \in 1 .. Len(Stream)
      <4> DEFINE a == sent[i].at
                 l == Len(sent[i].bytes)
                 s == Len(Stream)
                 k == hit[2]
      <4>1. a + l <= s
        BY <1>13, <3>1 DEF EndOf
      <4>2. a \in Nat /\ l \in Nat
        BY <1>4, <3>1
      <4>3. s \in Nat /\ k \in Nat \ {0} /\ k <= l
        BY <1>5, <3>1, <3>2
      <4> HIDE DEF a, l, s, k
      <4>4. a + k \in 1 .. s
        BY <4>1, <4>2, <4>3
      <4> QED
        BY <4>4 DEF a, s, k
    <3>4. Stream'[sent[i].at + hit[2]] = Stream[sent[i].at + hit[2]]
      BY <1>9, <3>3
    <3> QED
      BY <3>1, <3>2, <3>4
  <2>3. IsFiniteSet(damaged)
    BY DEF LinkIInv, ContentInv
  <2> QED
    BY <1>2, <2>1, <2>2, <2>3 DEF ContentInv
<1>17. GapInv'
  <2> SUFFICES ASSUME damaged = {}, NEW p \in 1 .. Len(Stream'), Stream'[p] = Magic
               PROVE  \E i \in DOMAIN sent' : p \in sent'[i].at + 1 .. EndOf(sent'[i])
    BY <1>2 DEF GapInv, EndOf
  <2>1. CASE p \in 1 .. Len(Stream)
    <3>1. PICK i \in DOMAIN sent : p \in sent[i].at + 1 .. EndOf(sent[i])
      BY <1>9, <2>1 DEF LinkIInv, GapInv
    <3> QED
      BY <1>11, <3>1
  <2>2. CASE p \notin 1 .. Len(Stream)
    <3>1. p \in new.at + 1 .. EndOf(new)
      BY <1>5, <1>9, <1>10, <2>2
    <3>2. m \in DOMAIN sent'
      BY <1>4, <1>11
    <3> QED
      BY <1>11, <3>1, <3>2
  <2> QED
    BY <2>1, <2>2
<1>18. Honest' => Honest
  <2> SUFFICES ASSUME Honest' PROVE Honest
    OBVIOUS
  <2>1. \A i \in DOMAIN sent' :
          (i \in DOMAIN sent /\ sent'[i] = sent[i]) \/ Len(fed) <= sent'[i].at
    BY <1>5, <1>10, <1>11, <1>12
  <2> QED
    BY <1>2, <2>1, HonestBefore DEF LinkIInv
<1>19. /\ \A i \in DOMAIN sent : Received(i)' <=> Received(i)
       /\ \A i \in DOMAIN sent' : Intact(i)' <=> Intact(i)
  BY <1>2, <1>11 DEF Received, Intact
<1>20. DeliveryInv'
  <2> SUFFICES ASSUME Honest'
               PROVE  /\ \A i \in DOMAIN sent' : Intact(i)' => Received(i)' \/ base <= sent'[i].at
                      /\ \A j \in DOMAIN out :
                           \E i \in DOMAIN sent' : Intact(i)' /\ out[j] = sent'[i]
    BY <1>2 DEF DeliveryInv
  <2>1. ASSUME NEW i \in DOMAIN sent', Intact(i)'
        PROVE  Received(i)' \/ base <= sent'[i].at
    <3>1. CASE i \in DOMAIN sent
      BY <1>11, <1>18, <1>19, <2>1, <3>1 DEF LinkIInv, DeliveryInv
    <3>2. CASE i = m
      BY <1>5, <1>10, <1>11, <3>2
    <3> QED
      BY <1>12, <3>1, <3>2
  <2>2. ASSUME NEW j \in DOMAIN out
        PROVE  \E i \in DOMAIN sent' : Intact(i)' /\ out[j] = sent'[i]
    <3>1. PICK i \in DOMAIN sent : Intact(i) /\ out[j] = sent[i]
      BY <1>18 DEF LinkIInv, DeliveryInv
    <3> QED
      BY <1>11, <1>19, <3>1
  <2> QED
    BY <2>1, <2>2
<1>21. DrainedInv'
  <2> SUFFICES ASSUME Honest', phase = "read"
               PROVE  /\ \A i \in DOMAIN sent' :
                           Intact(i)' /\ EndOf(sent'[i]) <= Len(fed) => Received(i)'
                      /\ Len(buffer) + MaxChunk <= BufSize
    BY <1>2 DEF DrainedInv, EndOf
  <2>1. ASSUME NEW i \in DOMAIN sent', Intact(i)', EndOf(sent'[i]) <= Len(fed)
        PROVE  Received(i)'
    <3>1. i # m
      BY <1>5, <1>9, <1>10, <1>11, <2>1
    <3> QED
      BY <1>11, <1>12, <1>18, <1>19, <2>1, <3>1 DEF LinkIInv, DrainedInv
  <2> QED
    BY <1>18, <2>1 DEF LinkIInv, DrainedInv
<1>22. ReceivedIsPrefixOfSent'
  <2> SUFFICES ASSUME damaged = {}
               PROVE  Len(out) <= Len(sent') /\ out = Take(sent', Len(out))
    BY <1>2 DEF ReceivedIsPrefixOfSent
  <2>1. Len(out) <= Len(sent) /\ out = Take(sent, Len(out)) /\ Len(out) \in Nat
    BY DEF LinkIInv, ReceivedIsPrefixOfSent, IInv, TypeOK
  <2>2. sent' = sent \o <<new>> /\ <<new>> \in Seq([at : Nat, bytes : Seq(Byte)])
    BY <1>1, <1>8, AppendIsConcat
  <2>3. Take(sent', Len(out)) = Take(sent, Len(out))
    <3>1. Len(out) \in 0 .. Len(sent)
      BY <1>4, <2>1
    <3> QED
      BY <1>8, <2>2, <3>1, TakeConcat
  <2> QED
    BY <1>4, <1>11, <2>1, <2>3
<1> QED
  BY <1>3, <1>14, <1>16, <1>17, <1>20, <1>21, <1>22 DEF LinkIInv

\* Steps that leave the frames, what hit them and the parser alone.
LEMMA UntouchedKeeps ==
  ASSUME LinkIInv, UNCHANGED <<vars, phase, sent, damaged>>
  PROVE  /\ Honest' => Honest
         /\ DeliveryInv' /\ DrainedInv' /\ ReceivedIsPrefixOfSent'
<1>1. /\ buffer' = buffer /\ fed' = fed /\ base' = base /\ out' = out
      /\ phase' = phase /\ damaged' = damaged /\ sent' = sent
  BY DEF vars
<1>2. Honest' <=> Honest
  BY <1>1 DEF Honest, FedClean
<1>3. \A i \in DOMAIN sent : (Received(i)' <=> Received(i)) /\ (Intact(i)' <=> Intact(i))
  BY <1>1 DEF Received, Intact
<1>4. DeliveryInv'
  BY <1>1, <1>2, <1>3 DEF LinkIInv, DeliveryInv
<1>5. DrainedInv'
  BY <1>1, <1>2, <1>3 DEF LinkIInv, DrainedInv, EndOf
<1> QED
  BY <1>1, <1>2, <1>4, <1>5 DEF LinkIInv, ReceivedIsPrefixOfSent

\* Noise puts a byte on the line that no frame starts with.
LEMMA NoiseKeeps ==
  ASSUME CleanLine, LinkIInv, NEW b \in NoiseByte, Noise(b)
  PROVE  LinkIInv'
<1>1. wire' = Append(wire, b) /\ UNCHANGED <<vars, phase, sent, damaged>>
  BY DEF Noise
<1>2. fed' = fed /\ sent' = sent /\ damaged' = damaged
  BY <1>1 DEF vars
<1>3. IInv' /\ LinkTypeOK'
  <2>1. LinkNext
    BY DEF LinkNext, Line
  <2> QED
    BY <2>1, StepKeepsTypes DEF LinkIInv
<1>4. b \in Byte /\ b # Magic
  BY LinkAssumption DEF CleanLine
<1>5. <<b>> \in Seq(Byte) /\ wire' = wire \o <<b>>
  BY <1>1, <1>4, AppendIsConcat, StreamParts DEF LinkIInv
<1>6. /\ Len(Stream) \in Nat /\ Len(Stream') = Len(Stream) + 1
      /\ \A p \in 1 .. Len(Stream) : Stream'[p] = Stream[p]
      /\ Stream'[Len(Stream) + 1] = b
  <2>1. LinkTypeOK
    BY DEF LinkIInv
  <2>2. /\ Len(Stream') = Len(Stream) + Len(<<b>>)
        /\ \A p \in 1 .. Len(Stream) : Stream'[p] = Stream[p]
        /\ \A k \in 1 .. Len(<<b>>) : Stream'[Len(Stream) + k] = <<b>>[k]
    BY <1>2, <1>5, <2>1, StreamGrows
  <2> QED
    BY <2>1, <2>2, StreamParts
<1>7. \A i \in DOMAIN sent :
        /\ sent[i].at \in Nat /\ Len(sent[i].bytes) \in Nat
        /\ sent[i].at + Len(sent[i].bytes) <= Len(Stream)
  BY SentTyped DEF LinkIInv, FramesInv, EndOf
<1>8. FramesInv'
  <2>1. \A i \in DOMAIN sent : EndOf(sent[i]) <= Len(Stream')
    BY <1>6, <1>7 DEF EndOf
  <2> QED
    BY <1>2, <2>1 DEF LinkIInv, FramesInv, EndOf
<1>9. ContentInv'
  <2>1. \A i \in DOMAIN sent : \A k \in 1 .. Len(sent[i].bytes) :
          Stream'[sent[i].at + k] = Stream[sent[i].at + k]
    <3> SUFFICES ASSUME NEW i \in DOMAIN sent, NEW k \in 1 .. Len(sent[i].bytes)
                 PROVE  sent[i].at + k \in 1 .. Len(Stream)
      BY <1>6
    <3> QED
      BY <1>6, <1>7
  <2>2. ASSUME NEW hit \in damaged
        PROVE  hit[1] \in DOMAIN sent /\ hit[2] \in 1 .. Len(sent[hit[1]].bytes)
    <3>1. damaged \subseteq (DOMAIN sent) \X DamageAt
      BY DEF LinkIInv, LinkTypeOK
    <3>2. hit[1] \in DOMAIN sent /\ hit[2] \in Nat \ {0}
      BY <3>1, LinkAssumption
    <3> QED
      BY <1>7, <3>2 DEF LinkIInv, ContentInv
  <2> QED
    BY <1>2, <2>1, <2>2 DEF LinkIInv, ContentInv
<1>10. GapInv'
  <2> SUFFICES ASSUME damaged = {}, NEW p \in 1 .. Len(Stream'), Stream'[p] = Magic
               PROVE  \E i \in DOMAIN sent : p \in sent[i].at + 1 .. EndOf(sent[i])
    BY <1>2 DEF GapInv, EndOf
  <2>1. p \in 1 .. Len(Stream)
    BY <1>4, <1>6
  <2> QED
    BY <1>6, <2>1 DEF LinkIInv, GapInv
<1> QED
  BY <1>1, <1>3, <1>8, <1>9, <1>10, UntouchedKeeps DEF LinkIInv

\* Damage changes one byte of one frame, which the receiver has not read yet.
LEMMA DamageKeeps ==
  ASSUME LinkIInv, NEW i \in DOMAIN sent, NEW k \in DamageAt, NEW b \in Byte, Damage(i, k, b)
  PROVE  LinkIInv'
<1> DEFINE w == sent[i].at + k - Len(fed)
           n == Len(sent[i].bytes)
           q == sent[i].at + k
<1>1. /\ Cardinality(damaged) < MaxDamage /\ k <= n
      /\ w \in DOMAIN wire /\ b # wire[w]
      /\ wire' = [wire EXCEPT ![w] = b]
      /\ damaged' = damaged \cup {<<i, k>>}
      /\ UNCHANGED <<vars, phase, noise, sent>>
  BY DEF Damage
<1>2. /\ buffer' = buffer /\ fed' = fed /\ base' = base /\ out' = out
      /\ phase' = phase /\ sent' = sent
  BY <1>1 DEF vars
<1>3. IInv' /\ LinkTypeOK'
  <2>1. LinkNext
    BY DEF LinkNext, Line
  <2> QED
    BY <2>1, StepKeepsTypes DEF LinkIInv
<1>4. \A j \in DOMAIN sent :
        /\ sent[j].at \in Nat /\ Len(sent[j].bytes) \in Nat
        /\ sent[j].at + Len(sent[j].bytes) <= Len(Stream)
        /\ EndOf(sent[j]) = sent[j].at + Len(sent[j].bytes)
  BY SentTyped DEF LinkIInv, FramesInv, EndOf
<1>5. /\ wire \in Seq(Byte) /\ Len(fed) \in Nat /\ Len(wire) \in Nat
      /\ Len(Stream) = Len(fed) + Len(wire) /\ base \in 0 .. Len(fed)
      /\ \A p \in 1 .. Len(fed) : Stream[p] = fed[p]
      /\ \A p \in 1 .. Len(wire) : Stream[Len(fed) + p] = wire[p]
  <2>1. LinkTypeOK
    BY DEF LinkIInv
  <2>2. fed \in Seq(Byte) /\ base \in 0 .. Len(fed)
    BY DEF LinkIInv, IInv, TypeOK, BufferIsStreamSuffix
  <2> QED
    BY <2>1, <2>2, StreamParts
<1>6. k \in 1 .. n /\ w \in 1 .. Len(wire)
  BY <1>1, <1>4, <1>5, LinkAssumption
<1>7. q = Len(fed) + w /\ q \in Len(fed) + 1 .. Len(Stream)
  <2>1. sent[i].at \in Nat /\ k \in Nat /\ n \in Nat /\ sent[i].at + n <= Len(Stream)
    BY <1>4, <1>6
  <2>2. w \in 1 .. Len(wire) /\ w = sent[i].at + k - Len(fed)
    BY <1>6
  <2> HIDE DEF w, n
  <2> QED
    BY <1>5, <1>6, <2>1, <2>2
<1>8. wire' \in Seq(Byte) /\ Len(wire') = Len(wire)
      /\ \A p \in 1 .. Len(wire) : wire'[p] = IF p = w THEN b ELSE wire[p]
  <2> HIDE DEF w
  <2> QED
    BY <1>1, <1>5, <1>6, ExceptSeq
<1>9. /\ Len(Stream') = Len(Stream)
      /\ \A p \in 1 .. Len(Stream) : p # q => Stream'[p] = Stream[p]
      /\ Stream'[q] # Stream[q]
  <2>1. /\ Len(Stream') = Len(fed) + Len(wire)
        /\ \A p \in 1 .. Len(fed) : Stream'[p] = fed[p]
        /\ \A p \in 1 .. Len(wire) : Stream'[Len(fed) + p] = wire'[p]
    <3>1. fed \in Seq(Byte)
      BY StreamParts DEF LinkIInv
    <3>2. Stream' = fed \o wire'
      BY <1>2 DEF Stream
    <3>3. /\ Len(fed \o wire') = Len(fed) + Len(wire')
          /\ \A p \in 1 .. Len(fed) + Len(wire') :
               (fed \o wire')[p] = IF p <= Len(fed) THEN fed[p] ELSE wire'[p - Len(fed)]
      <4>1. wire' \in Seq(Byte)
        BY <1>8
      <4> QED
        BY <3>1, <4>1, ConcatProperties
    <3>4. \A p \in 1 .. Len(wire) :
            /\ Len(fed) + p \in 1 .. Len(fed) + Len(wire')
            /\ ~(Len(fed) + p <= Len(fed)) /\ Len(fed) + p - Len(fed) = p
      BY <1>5, <1>8
    <3>5. \A p \in 1 .. Len(fed) : p \in 1 .. Len(fed) + Len(wire') /\ p <= Len(fed)
      BY <1>5, <1>8
    <3> HIDE DEF w
    <3> QED
      BY <1>8, <3>2, <3>3, <3>4, <3>5
  <2> HIDE DEF w, q
  <2>2. Stream'[q] = b /\ Stream[q] = wire[w]
    BY <1>5, <1>6, <1>7, <1>8, <2>1
  <2>3. ASSUME NEW p \in 1 .. Len(Stream), p # q
        PROVE  Stream'[p] = Stream[p]
    <3>1. CASE p \in 1 .. Len(fed)
      BY <1>5, <2>1, <3>1
    <3>2. CASE p \notin 1 .. Len(fed)
      <4> DEFINE v == p - Len(fed)
      <4>1. v \in 1 .. Len(wire) /\ p = Len(fed) + v /\ v # w
        BY <1>5, <1>6, <1>7, <2>3, <3>2
      <4> HIDE DEF v
      <4> QED
        BY <1>5, <1>8, <2>1, <4>1
    <3> QED
      BY <3>1, <3>2
  <2> QED
    BY <1>1, <1>5, <2>1, <2>2, <2>3
<1> HIDE DEF w
<1>10. FramesInv'
  BY <1>2, <1>9 DEF LinkIInv, FramesInv, EndOf
<1>11. IsFiniteSet(damaged) /\ damaged \subseteq damaged' /\ damaged' # {}
  BY <1>1 DEF LinkIInv, ContentInv
<1>12. damaged \subseteq (DOMAIN sent) \X DamageAt
  BY DEF LinkIInv, LinkTypeOK
<1>13. ContentInv'
  <2>1. ASSUME NEW j \in DOMAIN sent, NEW m \in 1 .. Len(sent[j].bytes), <<j, m>> \notin damaged'
        PROVE  Stream'[sent[j].at + m] = sent[j].bytes[m]
    <3>1. Stream[sent[j].at + m] = sent[j].bytes[m]
      BY <1>11, <2>1 DEF LinkIInv, ContentInv
    <3>2. sent[j].at + m \in 1 .. Len(Stream)
      BY <1>4, <1>5
    <3>3. sent[j].at + m # q
      <4>1. CASE j = i
        <5>1. m # k
          BY <1>1, <2>1, <4>1
        <5> QED
          BY <1>4, <1>6, <4>1, <5>1
      <4>2. CASE j < i
        <5>1. sent[j].at + Len(sent[j].bytes) <= sent[i].at
          BY <4>2 DEF LinkIInv, FramesInv, EndOf
        <5> QED
          BY <1>4, <1>6, <5>1
      <4>3. CASE i < j
        <5>1. sent[i].at + Len(sent[i].bytes) <= sent[j].at
          BY <4>3 DEF LinkIInv, FramesInv, EndOf
        <5> QED
          BY <1>4, <1>6, <5>1
      <4> QED
        BY <4>1, <4>2, <4>3, SentTyped DEF LinkIInv
    <3> QED
      BY <1>9, <3>1, <3>2, <3>3
  <2>2. IsFiniteSet(damaged')
    BY <1>1, <1>11, FS_AddElement
  <2>3. ASSUME NEW hit \in damaged'
        PROVE  hit[2] <= Len(sent[hit[1]].bytes)
    <3>1. CASE hit \in damaged
      BY <3>1 DEF LinkIInv, ContentInv
    <3>2. CASE hit = <<i, k>>
      BY <1>1, <3>2
    <3> QED
      BY <1>1, <3>1, <3>2
  <2>4. ASSUME MaxDamage <= 1, NEW hit \in damaged'
        PROVE  /\ damaged' = {hit}
               /\ Stream'[sent[hit[1]].at + hit[2]] # sent[hit[1]].bytes[hit[2]]
    <3>1. damaged = {}
      <4>1. Cardinality(damaged) \in Nat
        BY <1>11, FS_CardinalityType
      <4>2. Cardinality(damaged) = 0
        BY <1>1, <2>4, <4>1, LinkAssumption
      <4> QED
        BY <1>11, <4>2, FS_EmptySet
    <3>2. hit = <<i, k>> /\ damaged' = {hit}
      BY <1>1, <3>1
    <3>3. Stream[q] = sent[i].bytes[k]
      BY <1>6, <3>1 DEF LinkIInv, ContentInv
    <3>4. Stream'[q] # sent[i].bytes[k]
      BY <1>9, <3>3
    <3> QED
      BY <3>2, <3>4
  <2> QED
    BY <1>2, <2>1, <2>2, <2>3, <2>4 DEF ContentInv
<1>14. GapInv' /\ ReceivedIsPrefixOfSent'
  BY <1>11 DEF GapInv, ReceivedIsPrefixOfSent
<1>15. Honest' => Honest
  <2> SUFFICES ASSUME Honest' PROVE Honest
    OBVIOUS
  <2>1. LinkTypeOK
    BY DEF LinkIInv
  <2> QED
    BY <1>2, <1>11, <2>1, HonestBefore
<1>16. \A j \in DOMAIN sent : (Received(j)' <=> Received(j)) /\ (Intact(j)' => Intact(j))
  BY <1>2, <1>11 DEF Received, Intact
<1>17. \A j \in DOMAIN sent : j # i /\ Intact(j) => Intact(j)'
  BY <1>1 DEF Intact
<1>18. ~Received(i)
  <2> SUFFICES ASSUME Received(i) PROVE FALSE
    OBVIOUS
  <2>1. EndOf(sent[i]) <= base
    BY ReceivedIsBehind
  <2> QED
    BY <1>4, <1>5, <1>6, <1>7, <2>1
<1>19. DeliveryInv'
  <2> SUFFICES ASSUME Honest'
               PROVE  /\ \A j \in DOMAIN sent : Intact(j)' => Received(j)' \/ base <= sent[j].at
                      /\ \A o \in DOMAIN out :
                           \E j \in DOMAIN sent : Intact(j)' /\ out[o] = sent[j]
    BY <1>2 DEF DeliveryInv
  <2>1. \A j \in DOMAIN sent : Intact(j)' => Received(j)' \/ base <= sent[j].at
    BY <1>15, <1>16 DEF LinkIInv, DeliveryInv
  <2>2. ASSUME NEW o \in DOMAIN out
        PROVE  \E j \in DOMAIN sent : Intact(j)' /\ out[o] = sent[j]
    <3>1. PICK j \in DOMAIN sent : Intact(j) /\ out[o] = sent[j]
      BY <1>15 DEF LinkIInv, DeliveryInv
    <3>2. j # i
      BY <1>18, <3>1 DEF Received
    <3> QED
      BY <1>17, <3>1, <3>2
  <2> QED
    BY <2>1, <2>2
<1>20. DrainedInv'
  <2> SUFFICES ASSUME Honest', phase = "read"
               PROVE  /\ \A j \in DOMAIN sent :
                           Intact(j)' /\ EndOf(sent[j]) <= Len(fed) => Received(j)'
                      /\ Len(buffer) + MaxChunk <= BufSize
    BY <1>2 DEF DrainedInv, EndOf
  <2> QED
    BY <1>15, <1>16 DEF LinkIInv, DrainedInv
<1> QED
  BY <1>3, <1>10, <1>13, <1>14, <1>19, <1>20 DEF LinkIInv

-----------------------------------------------------------------------------
(* Steps of the receiver.                                                  *)

\* The receiver moves bytes from the line into its buffer and sends none.
LEMMA ReceiverKeepsLine ==
  ASSUME LinkIInv, Stream' = Stream, sent' = sent, damaged' = damaged
  PROVE  FramesInv' /\ ContentInv' /\ GapInv'
<1>1. FramesInv'
  BY DEF LinkIInv, FramesInv, EndOf
<1>2. ContentInv'
  BY DEF LinkIInv, ContentInv
<1> QED
  BY <1>1, <1>2 DEF LinkIInv, GapInv, EndOf

\* A chunk fits behind what a drained parser holds: nothing is pushed out.
LEMMA ReadKeeps ==
  ASSUME LinkIInv, NEW n \in 1 .. MaxChunk, Read(n)
  PROVE  LinkIInv'
<1> DEFINE chunk == Take(wire, n)
           all == buffer \o chunk
           dropped == IF Len(all) > BufSize THEN Len(all) - BufSize ELSE 0
<1>1. /\ phase = "read" /\ phase' = "drain"
      /\ fed' = fed \o chunk /\ base' = base + dropped /\ out' = out
      /\ wire' = Drop(wire, n) /\ sent' = sent /\ damaged' = damaged
  BY DEF Read, Input
<1>2. /\ n \in 0 .. Len(wire) /\ chunk \in Seq(Byte) /\ Len(chunk) = n
      /\ Drop(wire, n) \in Seq(Byte)
  BY ReadIsInput DEF LinkIInv
<1>3. IInv' /\ LinkTypeOK'
  <2>1. LinkNext
    BY DEF LinkNext, Receive
  <2> QED
    BY <2>1, StepKeepsTypes DEF LinkIInv
<1>4. fed \in Seq(Byte) /\ wire \in Seq(Byte) /\ buffer \in Seq(Byte) /\ base \in Nat
  BY DEF LinkIInv, LinkTypeOK, TypeOK
<1>5. Len(all) = Len(buffer) + n
  <2> HIDE DEF chunk
  <2> QED
    BY <1>2, <1>4, ConcatProperties
<1>6. Stream' = Stream
  <2>1. Stream' = (fed \o chunk) \o Drop(wire, n)
    BY <1>1 DEF Stream
  <2>2. (fed \o chunk) \o Drop(wire, n) = fed \o (chunk \o Drop(wire, n))
    <3> DEFINE tail == Drop(wire, n)
    <3>1. fed \in Seq(Byte) /\ chunk \in Seq(Byte) /\ tail \in Seq(Byte)
      BY <1>2, <1>4
    <3> HIDE DEF chunk, tail
    <3>2. (fed \o chunk) \o tail = fed \o (chunk \o tail)
      BY <3>1, ConcatAssociative
    <3> QED
      BY <3>2 DEF tail
  <2>3. chunk \o Drop(wire, n) = wire
    BY <1>2, <1>4, TakeThenDrop
  <2> QED
    BY <2>1, <2>2, <2>3 DEF Stream
<1>7. FramesInv' /\ ContentInv' /\ GapInv'
  BY <1>1, <1>6, ReceiverKeepsLine
<1>8. Honest' => Honest
  <2> SUFFICES ASSUME Honest' PROVE Honest
    OBVIOUS
  <2> HIDE DEF chunk
  <2>1. \A p \in 1 .. Len(fed) : p \in 1 .. Len(fed') /\ fed'[p] = fed[p]
    BY <1>1, <1>2, <1>4, ConcatProperties
  <2>2. LinkTypeOK
    BY DEF LinkIInv
  <2> QED
    BY <1>1, <2>1, <2>2, HonestBefore
<1>9. Honest => base' = base
  <2> SUFFICES ASSUME Honest PROVE base' = base
    OBVIOUS
  <2>1. Len(buffer) + MaxChunk <= BufSize /\ Len(buffer) \in Nat /\ BufSize \in Nat
    BY <1>1, <1>4, SizesAssumption DEF LinkIInv, DrainedInv, BufSize, FrameSize
  <2>2. ~(Len(all) > BufSize)
    BY <1>5, <2>1, BoundsAssumption
  <2> HIDE DEF all
  <2> QED
    BY <1>1, <1>4, <2>2
<1>10. \A i \in DOMAIN sent : (Received(i)' <=> Received(i)) /\ (Intact(i)' <=> Intact(i))
  BY <1>1 DEF Received, Intact
<1>11. DeliveryInv'
  BY <1>1, <1>8, <1>9, <1>10 DEF LinkIInv, DeliveryInv
<1>12. DrainedInv' /\ ReceivedIsPrefixOfSent'
  BY <1>1 DEF LinkIInv, DrainedInv, ReceivedIsPrefixOfSent
<1> QED
  BY <1>3, <1>7, <1>11, <1>12 DEF LinkIInv

\* The parser believes the length of a frame, damaged or not.
LEMMA LengthBelieved ==
  ASSUME LinkIInv, Honest, NEW j \in DOMAIN sent, sent[j].at <= Len(fed),
         HasHeader(Drop(fed, sent[j].at))
  PROVE  FrameSize(ClaimedLen(Drop(fed, sent[j].at))) = Len(sent[j].bytes)
<1>1. ClaimedLen(Drop(fed, sent[j].at)) = ClaimedLen(sent[j].bytes)
  <2>1. CASE Intact(j)
    BY <2>1, IntactArrives
  <2>2. CASE ~Intact(j)
    <3>1. MaxDamage <= 1
      BY <2>2 DEF Honest, Intact
    <3> QED
      BY <2>2, <3>1, DamagedArrives
  <2> QED
    BY <2>1, <2>2
<1> QED
  BY <1>1 DEF LinkIInv, FramesInv

\* No frame is empty.
LEMMA FramesHaveBytes ==
  ASSUME LinkIInv
  PROVE  \A i \in DOMAIN sent :
           /\ sent[i].at \in Nat /\ Len(sent[i].bytes) \in Nat
           /\ HeaderLen < Len(sent[i].bytes)
           /\ EndOf(sent[i]) = sent[i].at + Len(sent[i].bytes)
<1> SUFFICES ASSUME NEW i \in DOMAIN sent
             PROVE  /\ sent[i].at \in Nat /\ Len(sent[i].bytes) \in Nat
                    /\ HeaderLen < Len(sent[i].bytes)
                    /\ EndOf(sent[i]) = sent[i].at + Len(sent[i].bytes)
  OBVIOUS
<1>1. sent[i].at \in Nat /\ sent[i].bytes \in Seq(Byte)
  BY SentTyped DEF LinkIInv
<1>2. HeaderLen \in 1 .. Len(sent[i].bytes) - 2 /\ Len(sent[i].bytes) \in Nat
  BY <1>1, FrameParts DEF LinkIInv, FramesInv
<1> QED
  BY <1>1, <1>2 DEF EndOf

\* A get that returns 0 leaves less than a header or an unfinished frame.
LEMMA GetNothingKeeps ==
  ASSUME CleanLine, LinkIInv, NEW n \in 0 .. Len(buffer), GetNothing(n), Drain
  PROVE  LinkIInv'
<1> DEFINE q == base + n
           rest == Drop(buffer, n)
<1>1. /\ ScansOver(buffer, n) /\ ~FrameAtFront(rest) /\ ~FalseSync(rest)
      /\ buffer' = rest /\ base' = q /\ out' = out /\ fed' = fed
      /\ wire' = wire /\ sent' = sent /\ damaged' = damaged
  BY DEF GetNothing, Drain, ScansOver
<1>2. IInv' /\ LinkTypeOK'
  <2>1. LinkNext
    BY DEF LinkNext, Receive
  <2> QED
    BY <2>1, StepKeepsTypes DEF LinkIInv
<1>3. /\ base \in Nat /\ q \in 0 .. Len(fed) /\ Len(fed) \in Nat
      /\ rest = Drop(fed, q) /\ rest \in Seq(Byte) /\ Len(rest) = Len(fed) - q
  BY <1>1, FrontParts, StreamParts DEF LinkIInv
<1>4. FramesInv' /\ ContentInv' /\ GapInv'
  <2>1. Stream' = Stream
    BY <1>1 DEF Stream
  <2> QED
    BY <1>1, <2>1, ReceiverKeepsLine
<1>5. Honest' <=> Honest
  BY <1>1 DEF Honest, FedClean
<1>6. \A i \in DOMAIN sent : (Received(i)' <=> Received(i)) /\ (Intact(i)' <=> Intact(i))
  BY <1>1 DEF Received, Intact
<1>7. \A i \in DOMAIN sent :
        /\ sent[i].at \in Nat /\ Len(sent[i].bytes) \in Nat
        /\ HeaderLen < Len(sent[i].bytes)
        /\ EndOf(sent[i]) = sent[i].at + Len(sent[i].bytes)
  BY FramesHaveBytes
<1>8. ASSUME Honest, NEW i \in DOMAIN sent, Intact(i), ~Received(i)
      PROVE  q <= sent[i].at
  <2>1. base <= sent[i].at
    BY <1>8 DEF LinkIInv, DeliveryInv
  <2> QED
    BY <1>1, <1>8, <2>1, ScanStopsAtFrames
<1>9. ASSUME Honest, HasHeader(rest)
      PROVE  \E j \in DOMAIN sent : sent[j].at = q /\ Len(rest) < Len(sent[j].bytes)
  <2>1. GoodHeader(rest) /\ ~HasFrame(rest)
    BY <1>1, <1>9 DEF FalseSync, FrameAtFront
  <2>2. PICK j \in DOMAIN sent : sent[j].at = q
    BY <1>1, <1>9, <2>1, FrontIsFrame DEF GoodHeader
  <2>3. FrameSize(ClaimedLen(rest)) = Len(sent[j].bytes)
    BY <1>3, <1>9, <2>2, LengthBelieved
  <2>4. Len(rest) < Len(sent[j].bytes)
    BY <1>3, <1>7, <2>1, <2>3 DEF HasFrame
  <2> QED
    BY <2>2, <2>4
<1>10. DeliveryInv'
  <2> SUFFICES ASSUME Honest
               PROVE  /\ \A i \in DOMAIN sent : Intact(i) => Received(i) \/ q <= sent[i].at
                      /\ \A j \in DOMAIN out :
                           \E i \in DOMAIN sent : Intact(i) /\ out[j] = sent[i]
    BY <1>1, <1>5, <1>6 DEF DeliveryInv
  <2> QED
    BY <1>8 DEF LinkIInv, DeliveryInv
<1>11. DrainedInv'
  <2> SUFFICES ASSUME Honest
               PROVE  /\ \A i \in DOMAIN sent :
                           Intact(i) /\ EndOf(sent[i]) <= Len(fed) => Received(i)
                      /\ Len(rest) + MaxChunk <= BufSize
    BY <1>1, <1>5, <1>6 DEF DrainedInv, EndOf
  <2> HIDE DEF q, rest
  <2>1. ASSUME NEW i \in DOMAIN sent, Intact(i), EndOf(sent[i]) <= Len(fed), ~Received(i)
        PROVE  FALSE
    <3>1. q <= sent[i].at
      BY <1>8, <2>1
    <3>2. HeaderLen <= Len(rest) /\ sent[i].at + Len(sent[i].bytes) <= Len(fed)
      BY <1>3, <1>7, <2>1, <3>1, SizesAssumption
    <3>3. PICK j \in DOMAIN sent : sent[j].at = q /\ Len(rest) < Len(sent[j].bytes)
      BY <1>9, <3>2 DEF HasHeader
    <3>4. j # i
      BY <1>3, <1>7, <3>2, <3>3
    <3>5. CASE j < i
      <4>1. EndOf(sent[j]) <= sent[i].at
        BY <3>5 DEF LinkIInv, FramesInv
      <4>2. EndOf(sent[j]) = q + Len(sent[j].bytes) /\ Len(sent[j].bytes) \in Nat
        BY <1>7, <3>3
      <4>3. sent[i].at <= Len(fed) /\ Len(rest) = Len(fed) - q /\ q \in Nat /\ Len(fed) \in Nat /\ sent[i].at \in Nat
        BY <1>3, <1>7, <3>2
      <4> QED
        BY <3>3, <4>1, <4>2, <4>3
    <3>6. CASE i < j
      <4>1. EndOf(sent[i]) <= sent[j].at
        BY <3>6 DEF LinkIInv, FramesInv
      <4> QED
        BY <1>3, <1>7, <3>1, <3>3, <4>1, SizesAssumption
    <3> QED
      BY <3>4, <3>5, <3>6, SentTyped DEF LinkIInv
  <2>2. Len(rest) + MaxChunk <= BufSize
    <3>1. BufSize \in Nat /\ HeaderLen \in Nat /\ MaxChunk \in Nat /\ Len(rest) \in Nat
      BY <1>3, SizesAssumption, BoundsAssumption DEF BufSize, FrameSize
    <3>2. CASE HasHeader(rest)
      <4>1. PICK j \in DOMAIN sent : Len(rest) < Len(sent[j].bytes)
        BY <1>9, <3>2
      <4>2. Len(sent[j].bytes) - 1 + MaxChunk <= BufSize
        BY DEF LinkIInv, FramesInv
      <4> QED
        BY <1>7, <3>1, <4>1, <4>2
    <3>3. CASE ~HasHeader(rest)
      <4>1. HeaderLen - 1 + MaxChunk <= BufSize
        BY DEF CleanLine
      <4> QED
        BY <3>1, <3>3, <4>1 DEF HasHeader
    <3> QED
      BY <3>2, <3>3
  <2> QED
    BY <2>1, <2>2
<1>12. ReceivedIsPrefixOfSent'
  BY <1>1 DEF LinkIInv, ReceivedIsPrefixOfSent
<1> QED
  BY <1>2, <1>4, <1>10, <1>11, <1>12 DEF LinkIInv

\* A frame that get returns is the next one that arrived as it was sent.
LEMMA ReturnsSentFrame ==
  ASSUME LinkIInv, Honest, NEW n \in 0 .. Len(buffer), GetFrame(n)
  PROVE  \E j \in DOMAIN sent :
           /\ Intact(j) /\ sent[j].at = base + n
           /\ base' = EndOf(sent[j]) /\ out' = Append(out, sent[j])
<1> DEFINE q == base + n
           rest == Drop(buffer, n)
           total == FrameSize(ClaimedLen(rest))
<1>1. /\ ScansOver(buffer, n) /\ FrameAtFront(rest)
      /\ base' = q + total
      /\ out' = Append(out, [at |-> q, bytes |-> Take(rest, total)])
  BY DEF GetFrame
<1>2. /\ base \in Nat /\ q \in 0 .. Len(fed) /\ Len(fed) \in Nat
      /\ rest = Drop(fed, q) /\ rest \in Seq(Byte) /\ Len(rest) = Len(fed) - q
  BY <1>1, FrontParts, StreamParts DEF LinkIInv
<1>3. PICK j \in DOMAIN sent : sent[j].at = q
  BY <1>1, FrontIsFrame DEF FrameAtFront, GoodHeader
<1>4. HasHeader(rest) /\ HasFrame(rest)
  BY <1>1 DEF FrameAtFront
<1>5. total = Len(sent[j].bytes)
  BY <1>2, <1>3, <1>4, LengthBelieved
<1>6. Intact(j)
  <2> SUFFICES ASSUME ~Intact(j) PROVE FALSE
    OBVIOUS
  <2>1. MaxDamage <= 1
    BY DEF Honest, Intact
  <2> QED
    BY <1>1, <1>2, <1>3, <1>4, <2>1, DamagedArrives
<1>7. Take(rest, total) = sent[j].bytes
  <2>1. total <= Len(rest)
    BY <1>4 DEF HasFrame
  <2> HIDE DEF total, rest
  <2> QED
    BY <1>2, <1>3, <1>5, <1>6, <2>1, IntactArrives
<1>8. sent[j] = [at |-> q, bytes |-> Take(rest, total)]
  <2>1. sent[j] \in [at : Nat, bytes : Seq(Byte)]
    <3>1. sent \in Seq([at : Nat, bytes : Seq(Byte)]) /\ j \in 1 .. Len(sent)
      BY SentTyped DEF LinkIInv, LinkTypeOK
    <3> QED
      BY <3>1, ElementOfSeq
  <2> HIDE DEF total, rest, q
  <2> QED
    BY <1>3, <1>7, <2>1
<1> QED
  BY <1>1, <1>3, <1>5, <1>6, <1>8 DEF EndOf

\* A get that returns 1 delivers that frame and moves to its end.
LEMMA GetFrameKeeps ==
  ASSUME LinkIInv, NEW n \in 0 .. Len(buffer), GetFrame(n), Drain
  PROVE  LinkIInv'
<1> DEFINE q == base + n
<1>1. /\ ScansOver(buffer, n) /\ fed' = fed /\ phase' = "drain"
      /\ wire' = wire /\ sent' = sent /\ damaged' = damaged
  BY DEF GetFrame, Drain
<1>2. IInv' /\ LinkTypeOK'
  <2>1. LinkNext
    BY DEF LinkNext, Receive
  <2> QED
    BY <2>1, StepKeepsTypes DEF LinkIInv
<1>3. base \in Nat /\ q \in Nat /\ base <= q
  BY <1>1, FrontParts
<1>4. FramesInv' /\ ContentInv' /\ GapInv'
  <2>1. Stream' = Stream
    BY <1>1 DEF Stream
  <2> QED
    BY <1>1, <2>1, ReceiverKeepsLine
<1>5. /\ Honest' <=> Honest
      /\ \A i \in DOMAIN sent : Intact(i)' <=> Intact(i)
  BY <1>1 DEF Honest, FedClean, Intact
<1>6. /\ Len(sent) \in Nat /\ DOMAIN sent = 1 .. Len(sent)
      /\ \A i \in DOMAIN sent :
           /\ sent[i].at \in Nat /\ Len(sent[i].bytes) \in Nat
           /\ 0 < Len(sent[i].bytes)
           /\ EndOf(sent[i]) = sent[i].at + Len(sent[i].bytes)
  BY FramesHaveBytes, SizesAssumption, SentTyped DEF LinkIInv
<1>7. ASSUME NEW i \in DOMAIN sent, NEW j \in DOMAIN sent, i < j
      PROVE  EndOf(sent[i]) <= sent[j].at
  BY <1>7 DEF LinkIInv, FramesInv
<1>8. out \in Seq([at : Nat, bytes : Seq(Byte)]) /\ Len(out) \in Nat /\ DOMAIN out = 1 .. Len(out)
  BY DEF LinkIInv, IInv, TypeOK
<1>9. ASSUME Honest, NEW i \in DOMAIN sent, Intact(i), ~Received(i)
      PROVE  q <= sent[i].at
  <2>1. base <= sent[i].at
    BY <1>9 DEF LinkIInv, DeliveryInv
  <2> QED
    BY <1>1, <1>9, <2>1, ScanStopsAtFrames
<1>10. ASSUME Honest
       PROVE  \E j \in DOMAIN sent :
                /\ Intact(j) /\ sent[j].at = q
                /\ base' = EndOf(sent[j]) /\ out' = Append(out, sent[j])
                /\ DOMAIN out' = 1 .. Len(out) + 1 /\ Len(out') = Len(out) + 1
                /\ \A o \in DOMAIN out : o \in DOMAIN out' /\ out'[o] = out[o]
                /\ out'[Len(out) + 1] = sent[j]
                /\ out' \in Seq([at : Nat, bytes : Seq(Byte)])
  <2>1. PICK j \in DOMAIN sent :
          /\ Intact(j) /\ sent[j].at = q
          /\ base' = EndOf(sent[j]) /\ out' = Append(out, sent[j])
    BY <1>10, ReturnsSentFrame
  <2>2. sent[j] \in [at : Nat, bytes : Seq(Byte)]
    <3>1. sent \in Seq([at : Nat, bytes : Seq(Byte)]) /\ j \in 1 .. Len(sent)
      BY SentTyped DEF LinkIInv, LinkTypeOK
    <3> QED
      BY <3>1, ElementOfSeq
  <2>3. /\ DOMAIN out' = 1 .. Len(out) + 1 /\ Len(out') = Len(out) + 1
        /\ \A o \in DOMAIN out : o \in DOMAIN out' /\ out'[o] = out[o]
        /\ out'[Len(out) + 1] = sent[j]
        /\ out' \in Seq([at : Nat, bytes : Seq(Byte)])
    BY <1>8, <2>1, <2>2, AppendProperties
  <2> QED
    BY <2>1, <2>3
<1> HIDE DEF q
<1>11. DeliveryInv'
  <2> SUFFICES ASSUME Honest
               PROVE  /\ \A i \in DOMAIN sent : Intact(i) => Received(i)' \/ base' <= sent[i].at
                      /\ \A o \in DOMAIN out' :
                           \E i \in DOMAIN sent : Intact(i) /\ out'[o] = sent[i]
    BY <1>1, <1>5 DEF DeliveryInv
  <2>1. PICK j \in DOMAIN sent :
          /\ Intact(j) /\ sent[j].at = q /\ base' = EndOf(sent[j])
          /\ DOMAIN out' = 1 .. Len(out) + 1
          /\ \A o \in DOMAIN out : o \in DOMAIN out' /\ out'[o] = out[o]
          /\ out'[Len(out) + 1] = sent[j]
    BY <1>10
  <2>2. ASSUME NEW i \in DOMAIN sent, Intact(i)
        PROVE  Received(i)' \/ base' <= sent[i].at
    <3>1. CASE Received(i)
      <4>1. PICK o \in DOMAIN out : out[o] = sent[i]
        BY <3>1 DEF Received
      <4> QED
        BY <1>1, <2>1, <4>1 DEF Received
    <3>2. CASE i = j
      <4>1. Len(out) + 1 \in DOMAIN out'
        BY <1>8, <2>1
      <4> QED
        BY <1>1, <2>1, <3>2, <4>1 DEF Received
    <3>3. CASE ~Received(i) /\ i < j
      <4>1. q <= sent[i].at /\ EndOf(sent[i]) <= sent[j].at
        BY <1>7, <1>9, <2>2, <3>3
      <4> QED
        BY <1>3, <1>6, <2>1, <4>1
    <3>4. CASE ~Received(i) /\ j < i
      BY <1>7, <2>1, <3>4
    <3> QED
      BY <1>6, <3>1, <3>2, <3>3, <3>4
  <2>3. ASSUME NEW o \in DOMAIN out'
        PROVE  \E i \in DOMAIN sent : Intact(i) /\ out'[o] = sent[i]
    <3>1. CASE o \in DOMAIN out
      BY <2>1, <3>1 DEF LinkIInv, DeliveryInv
    <3>2. CASE o = Len(out) + 1
      BY <2>1, <3>2
    <3> QED
      BY <1>8, <2>1, <3>1, <3>2
  <2> QED
    BY <2>2, <2>3
<1>12. DrainedInv'
  BY <1>1 DEF DrainedInv
<1>13. ReceivedIsPrefixOfSent'
  <2> SUFFICES ASSUME damaged = {}
               PROVE  Len(out') <= Len(sent) /\ out' = Take(sent, Len(out'))
    BY <1>1 DEF ReceivedIsPrefixOfSent
  <2>1. Honest /\ \A i \in DOMAIN sent : Intact(i)
    BY DEF Honest, Intact
  <2>2. PICK j \in DOMAIN sent :
          /\ sent[j].at = q
          /\ Len(out') = Len(out) + 1 /\ DOMAIN out' = 1 .. Len(out) + 1
          /\ \A o \in DOMAIN out : o \in DOMAIN out' /\ out'[o] = out[o]
          /\ out'[Len(out) + 1] = sent[j]
          /\ out' \in Seq([at : Nat, bytes : Seq(Byte)])
    BY <1>10, <2>1
  <2>3. Len(out) <= Len(sent) /\ out = Take(sent, Len(out))
    BY DEF LinkIInv, ReceivedIsPrefixOfSent
  <2>4. sent \in Seq([at : Nat, bytes : Seq(Byte)])
    BY DEF LinkIInv, LinkTypeOK
  <2>5. \A o \in DOMAIN out : o \in DOMAIN sent /\ out[o] = sent[o]
    <3>1. Len(out) \in 0 .. Len(sent)
      BY <1>6, <1>8, <2>3
    <3>2. \A o \in 1 .. Len(out) : Take(sent, Len(out))[o] = sent[o]
      BY <2>4, <3>1, TakeFacts
    <3> QED
      BY <1>6, <1>8, <2>3, <3>1, <3>2
  <2>6. \A o \in DOMAIN out : EndOf(sent[o]) <= q
    <3> SUFFICES ASSUME NEW o \in DOMAIN out PROVE EndOf(sent[o]) <= q
      OBVIOUS
    <3>1. Received(o) /\ o \in DOMAIN sent
      BY <2>5 DEF Received
    <3>2. EndOf(sent[o]) <= base
      BY <3>1, ReceivedIsBehind
    <3> QED
      BY <1>3, <1>6, <3>1, <3>2
  <2>7. Len(out) < j
    <3> SUFFICES ASSUME j <= Len(out) PROVE FALSE
      BY <1>6, <1>8
    <3>1. EndOf(sent[j]) <= q
      BY <1>6, <1>8, <2>6
    <3>2. sent[j].at + Len(sent[j].bytes) <= sent[j].at
      BY <1>6, <2>2, <3>1
    <3>3. sent[j].at \in Nat /\ Len(sent[j].bytes) \in Nat /\ 0 < Len(sent[j].bytes)
      BY <1>6
    <3> QED
      BY <3>2, <3>3
  <2>8. j = Len(out) + 1
    <3> SUFFICES ASSUME Len(out) + 1 < j PROVE FALSE
      BY <1>6, <1>8, <2>7
    <3> DEFINE m == Len(out) + 1
    <3>1. m \in DOMAIN sent /\ m < j /\ m \notin DOMAIN out
      BY <1>6, <1>8
    <3> HIDE DEF m
    <3>2. EndOf(sent[m]) <= q
      BY <1>7, <2>2, <3>1
    <3>3. CASE ~Received(m)
      <4>1. q <= sent[m].at
        BY <1>9, <2>1, <3>1, <3>3
      <4> QED
        BY <1>3, <1>6, <3>1, <3>2, <4>1
    <3>4. CASE Received(m)
      <4>1. PICK o \in DOMAIN out : out[o] = sent[m]
        BY <3>4 DEF Received
      <4>2. sent[o] = sent[m] /\ o \in DOMAIN sent /\ o < m
        BY <1>8, <2>5, <4>1 DEF m
      <4>3. EndOf(sent[o]) <= sent[m].at
        BY <1>7, <3>1, <4>2
      <4> QED
        BY <1>6, <3>1, <4>2, <4>3
    <3> QED
      BY <3>3, <3>4
  <2>9. Len(out') \in 0 .. Len(sent)
    BY <1>6, <1>8, <2>2, <2>8
  <2>10. /\ Take(sent, Len(out')) \in Seq([at : Nat, bytes : Seq(Byte)])
         /\ Len(Take(sent, Len(out'))) = Len(out')
         /\ \A o \in 1 .. Len(out') : Take(sent, Len(out'))[o] = sent[o]
    BY <2>4, <2>9, TakeFacts
  <2>11. \A o \in 1 .. Len(out') : out'[o] = sent[o]
    <3> SUFFICES ASSUME NEW o \in 1 .. Len(out') PROVE out'[o] = sent[o]
      OBVIOUS
    <3>1. CASE o \in DOMAIN out
      BY <2>2, <2>5, <3>1
    <3>2. CASE o = Len(out) + 1
      BY <2>2, <2>8, <3>2
    <3> QED
      BY <1>8, <2>2, <3>1, <3>2
  <2>12. out' = Take(sent, Len(out'))
    BY <2>2, <2>10, <2>11, SeqEqual
  <2> QED
    BY <1>6, <2>9, <2>12
<1> QED
  BY <1>2, <1>4, <1>11, <1>12, <1>13 DEF LinkIInv

-----------------------------------------------------------------------------
(* The theorems.                                                           *)

\* Nothing has been sent, read or received.
LEMMA LinkInitIInv ==
  ASSUME CleanLine, LinkInit
  PROVE  LinkIInv
<1>1. /\ wire = <<>> /\ fed = <<>> /\ buffer = <<>> /\ out = <<>> /\ base = 0
      /\ phase = "read" /\ sent = <<>> /\ damaged = {}
  BY DEF LinkInit, Init
<1>2. Stream = <<>>
  BY <1>1 DEF Stream
<1>3. FramesInv
  BY <1>1 DEF FramesInv
<1>4. ContentInv
  BY <1>1, FS_EmptySet DEF ContentInv
<1>5. GapInv /\ DeliveryInv
  BY <1>1, <1>2 DEF GapInv, DeliveryInv
<1>6. DrainedInv
  <2>1. MaxChunk <= BufSize
    BY SizesAssumption, BoundsAssumption DEF CleanLine, BufSize, FrameSize
  <2> QED
    BY <1>1, <2>1, BoundsAssumption DEF DrainedInv
<1>7. ReceivedIsPrefixOfSent
  BY <1>1 DEF ReceivedIsPrefixOfSent, Take
<1>8. IInv /\ LinkTypeOK
  BY LinkInitTypes
<1> QED
  BY <1>3, <1>4, <1>5, <1>6, <1>7, <1>8 DEF LinkIInv

\* Every step of sender, line and receiver keeps the invariant.
LEMMA LinkNextIInv ==
  ASSUME CleanLine, LinkIInv, [LinkNext]_allVars
  PROVE  LinkIInv'
<1>1. ASSUME NEW payload \in Payloads, Send(payload) PROVE LinkIInv'
  BY <1>1, SendKeeps
<1>2. ASSUME NEW b \in NoiseByte, Noise(b) PROVE LinkIInv'
  BY <1>2, NoiseKeeps
<1>3. ASSUME NEW i \in DOMAIN sent, NEW k \in DamageAt, NEW b \in Byte, Damage(i, k, b)
      PROVE  LinkIInv'
  BY <1>3, DamageKeeps
<1>4. ASSUME NEW n \in 1 .. MaxChunk, Read(n) PROVE LinkIInv'
  BY <1>4, ReadKeeps
<1>5. ASSUME Drain PROVE LinkIInv'
  <2>1. PICK n \in 0 .. Len(buffer) : GetNothing(n) \/ GetFrame(n)
    BY <1>5 DEF Drain, Get
  <2> QED
    BY <1>5, <2>1, GetNothingKeeps, GetFrameKeeps
<1>6. CASE UNCHANGED allVars
  <2>1. UNCHANGED <<vars, phase, sent, damaged>> /\ wire' = wire /\ fed' = fed
    BY <1>6 DEF allVars, linkVars, vars
  <2>2. DeliveryInv' /\ DrainedInv' /\ ReceivedIsPrefixOfSent'
    BY <2>1, UntouchedKeeps
  <2>3. FramesInv' /\ ContentInv' /\ GapInv'
    <3>1. Stream' = Stream
      BY <2>1 DEF Stream
    <3> QED
      BY <2>1, <3>1, ReceiverKeepsLine
  <2>4. IInv' /\ LinkTypeOK'
    BY StepKeepsTypes DEF LinkIInv
  <2> QED
    BY <2>2, <2>3, <2>4 DEF LinkIInv
<1> QED
  BY <1>1, <1>2, <1>3, <1>4, <1>5, <1>6 DEF LinkNext, Line, Receive

\* The invariant holds on every clean line.
THEOREM LinkInvariance ==
  ASSUME CleanLine
  PROVE  LinkSpec => []LinkIInv
<1>1. LinkInit => LinkIInv
  BY LinkInitIInv
<1>2. LinkIInv /\ [LinkNext]_allVars => LinkIInv'
  BY LinkNextIInv
<1> QED
  BY <1>1, <1>2, PTL DEF LinkSpec

\* "zero loss, zero reordering, zero fake frame": over a clean line that damages
\* nothing, the frames returned are the first ones sent, in order and complete.
THEOREM DeliversPrefix ==
  ASSUME CleanLine
  PROVE  LinkSpec => []ReceivedIsPrefixOfSent
<1>1. LinkIInv => ReceivedIsPrefixOfSent
  BY DEF LinkIInv
<1> QED
  BY <1>1, LinkInvariance, PTL

\* A receiver that calls smls_frame_parser_get until it returns 0 holds every
\* frame whose last byte it has read: none waits in the parser for later bytes.
THEOREM DeliversAtOnce ==
  ASSUME CleanLine
  PROVE  LinkSpec => []DrainedMeansDelivered
<1>1. LinkIInv => DrainedMeansDelivered
  BY DEF LinkIInv, DrainedInv, DrainedMeansDelivered, Honest, Intact, EndOf
<1> QED
  BY <1>1, LinkInvariance, PTL

\* One byte damaged anywhere but in the length field costs the frame it hits
\* and no other, wherever it falls and however the stream is cut into chunks,
\* as long as nothing but a frame start looks like one.
THEOREM DamageStaysContained ==
  ASSUME CleanLine, MaxDamage <= 1
  PROVE  LinkSpec => []DamageIsContained
<1>1. LinkIInv => DamageIsContained
  <2> SUFFICES ASSUME LinkIInv, MagicOnlyAtStarts
               PROVE  /\ \A j \in DOMAIN out :
                           \E i \in DOMAIN sent : Intact(i) /\ out[j] = sent[i]
                      /\ phase = "read" =>
                           \A i \in DOMAIN sent :
                             Intact(i) /\ EndOf(sent[i]) <= Len(fed) => Received(i)
    BY DEF DamageIsContained, EndOf
  <2>1. FedClean
    <3> SUFFICES ASSUME NEW p \in 1 .. Len(fed), fed[p] = Magic
                 PROVE  \E i \in DOMAIN sent : sent[i].at = p - 1
      BY DEF FedClean
    <3>1. p \in DOMAIN Stream /\ Stream[p] = Magic
      BY StreamParts DEF LinkIInv
    <3> QED
      BY <3>1 DEF MagicOnlyAtStarts, Stream
  <2>2. Honest
    BY <2>1 DEF Honest
  <2> QED
    BY <2>2 DEF LinkIInv, DeliveryInv, DrainedInv
<1> QED
  BY <1>1, LinkInvariance, PTL

=============================================================================
