------------------------ MODULE FrameFormat_proofs ------------------------
(***************************************************************************)
(* What the proofs about the parser, its loops and the link need to know   *)
(* of byte strings, headers and frames.                                    *)
(***************************************************************************)
EXTENDS FrameFormat, SequenceTheorems, TLAPS

-----------------------------------------------------------------------------
(* Byte strings: what Take and Drop do to each other and to \o.            *)

\* What is left after memmove has moved a buffer down by n bytes.
LEMMA DropFacts ==
  ASSUME NEW S, NEW s \in Seq(S), NEW n \in 0 .. Len(s)
  PROVE  /\ Drop(s, n) \in Seq(S)
         /\ Len(Drop(s, n)) = Len(s) - n
         /\ \A i \in 1 .. Len(s) - n : Drop(s, n)[i] = s[n + i]
  BY DEF Drop

\* What memcpy of the first n bytes of a buffer copies.
LEMMA TakeFacts ==
  ASSUME NEW S, NEW s \in Seq(S), NEW n \in 0 .. Len(s)
  PROVE  /\ Take(s, n) \in Seq(S)
         /\ Len(Take(s, n)) = n
         /\ \A i \in 1 .. n : Take(s, n)[i] = s[i]
  BY DEF Take

\* Discarding m bytes and then n is discarding m + n: the bytes the parser
\* throws away one at a time add up.
LEMMA DropDrop ==
  ASSUME NEW S, NEW s \in Seq(S), NEW m \in 0 .. Len(s), NEW n \in 0 .. Len(s) - m
  PROVE  Drop(Drop(s, m), n) = Drop(s, m + n)
<1> DEFINE d == Drop(s, m)
<1>1. /\ d \in Seq(S) /\ Len(d) = Len(s) - m
      /\ \A i \in 1 .. Len(s) - m : d[i] = s[m + i]
  BY DropFacts
<1>2. /\ Drop(s, m + n) \in Seq(S) /\ Len(Drop(s, m + n)) = Len(s) - (m + n)
      /\ \A i \in 1 .. Len(s) - (m + n) : Drop(s, m + n)[i] = s[m + n + i]
  <2>1. m + n \in 0 .. Len(s)
    OBVIOUS
  <2> QED
    BY <2>1, DropFacts
<1> HIDE DEF d
<1>3. n \in 0 .. Len(d)
  BY <1>1
<1>4. /\ Drop(d, n) \in Seq(S) /\ Len(Drop(d, n)) = Len(d) - n
      /\ \A i \in 1 .. Len(d) - n : Drop(d, n)[i] = d[n + i]
  <2>1. d \in Seq(S)
    BY <1>1
  <2> QED
    BY <1>3, <2>1, DropFacts
<1>5. ASSUME NEW i \in 1 .. Len(Drop(d, n))
      PROVE  Drop(d, n)[i] = Drop(s, m + n)[i]
  <2>1. n + i \in 1 .. Len(s) - m /\ i \in 1 .. Len(s) - (m + n)
    BY <1>1, <1>3, <1>4
  <2>2. Drop(d, n)[i] = d[n + i]
    BY <1>4
  <2>3. d[n + i] = s[m + n + i]
    BY <1>1, <2>1
  <2> QED
    BY <1>2, <2>1, <2>2, <2>3
<1>6. Len(Drop(d, n)) = Len(Drop(s, m + n))
  BY <1>1, <1>2, <1>4
<1>7. Drop(d, n) = Drop(s, m + n)
  BY <1>2, <1>4, <1>5, <1>6, SeqEqual
<1> QED
  BY <1>7 DEF d

\* Bytes discarded from the front and bytes appended at the end of the
\* buffer do not meet.
LEMMA DropConcat ==
  ASSUME NEW S, NEW s \in Seq(S), NEW t \in Seq(S), NEW n \in 0 .. Len(s)
  PROVE  Drop(s \o t, n) = Drop(s, n) \o t
<1> DEFINE u == s \o t
           d == Drop(s, n)
<1>1. /\ d \in Seq(S) /\ Len(d) = Len(s) - n
      /\ \A i \in 1 .. Len(s) - n : d[i] = s[n + i]
  BY DropFacts
<1>2. /\ u \in Seq(S) /\ Len(u) = Len(s) + Len(t)
      /\ \A i \in 1 .. Len(s) + Len(t) :
           u[i] = IF i <= Len(s) THEN s[i] ELSE t[i - Len(s)]
  BY ConcatProperties
<1> HIDE DEF u, d
<1>3. /\ d \o t \in Seq(S) /\ Len(d \o t) = Len(d) + Len(t)
      /\ \A i \in 1 .. Len(d) + Len(t) :
           (d \o t)[i] = IF i <= Len(d) THEN d[i] ELSE t[i - Len(d)]
  BY <1>1, ConcatProperties
<1>4. n \in 0 .. Len(u)
  BY <1>2
<1>5. /\ Drop(u, n) \in Seq(S) /\ Len(Drop(u, n)) = Len(u) - n
      /\ \A i \in 1 .. Len(u) - n : Drop(u, n)[i] = u[n + i]
  BY <1>2, <1>4, DropFacts
<1>6. Len(Drop(u, n)) = Len(d \o t)
  BY <1>1, <1>2, <1>3, <1>5
<1>7. ASSUME NEW i \in 1 .. Len(Drop(u, n))
      PROVE  Drop(u, n)[i] = (d \o t)[i]
  <2>1. i \in 1 .. Len(d) + Len(t) /\ n + i \in 1 .. Len(s) + Len(t)
    BY <1>3, <1>4, <1>5, <1>6, <1>2
  <2>2. Drop(u, n)[i] = IF n + i <= Len(s) THEN s[n + i] ELSE t[n + i - Len(s)]
    BY <1>2, <1>5, <2>1
  <2>3. (d \o t)[i] = IF i <= Len(d) THEN d[i] ELSE t[i - Len(d)]
    BY <1>3, <2>1
  <2>4. n + i - Len(s) = i - Len(d) /\ (n + i <= Len(s) <=> i <= Len(d))
    BY <1>1
  <2>5. i <= Len(d) => d[i] = s[n + i]
    BY <1>1, <2>1
  <2> QED
    BY <2>2, <2>3, <2>4, <2>5
<1>8. Drop(u, n) = d \o t
  BY <1>3, <1>5, <1>6, <1>7, SeqEqual
<1> QED
  BY <1>8 DEF u, d

\* More input does not change what the first n bytes are.
LEMMA TakeConcat ==
  ASSUME NEW S, NEW s \in Seq(S), NEW t \in Seq(S), NEW n \in 0 .. Len(s)
  PROVE  Take(s \o t, n) = Take(s, n)
<1>1. /\ Take(s, n) \in Seq(S) /\ Len(Take(s, n)) = n
      /\ \A i \in 1 .. n : Take(s, n)[i] = s[i]
  BY TakeFacts
<1>2. /\ Take(s \o t, n) \in Seq(S) /\ Len(Take(s \o t, n)) = n
      /\ \A i \in 1 .. n : Take(s \o t, n)[i] = s[i]
  BY DEF Take
<1> QED
  BY <1>1, <1>2, SeqEqual

\* The header of a frame that is copied out is the header in the buffer.
LEMMA TakeTake ==
  ASSUME NEW S, NEW s \in Seq(S), NEW n \in 0 .. Len(s), NEW m \in 0 .. n
  PROVE  Take(Take(s, n), m) = Take(s, m)
<1>1. /\ Take(s, n) \in Seq(S) /\ Len(Take(s, n)) = n
      /\ \A i \in 1 .. n : Take(s, n)[i] = s[i]
  BY TakeFacts
<1>2. /\ Take(s, m) \in Seq(S) /\ Len(Take(s, m)) = m
      /\ \A i \in 1 .. m : Take(s, m)[i] = s[i]
  BY TakeFacts
<1>3. /\ Take(Take(s, n), m) \in Seq(S) /\ Len(Take(Take(s, n), m)) = m
      /\ \A i \in 1 .. m : Take(Take(s, n), m)[i] = s[i]
  BY <1>1, TakeFacts
<1> QED
  BY <1>2, <1>3, SeqEqual

\* A stretch of the buffer is the same stretch of the stream, shifted.
LEMMA TakeOfDrop ==
  ASSUME NEW S, NEW s \in Seq(S), NEW m \in 0 .. Len(s), NEW n \in 0 .. Len(s) - m
  PROVE  Take(Drop(s, m), n) = SubSeq(s, m + 1, m + n)
<1>1. /\ Drop(s, m) \in Seq(S) /\ Len(Drop(s, m)) = Len(s) - m
      /\ \A i \in 1 .. Len(s) - m : Drop(s, m)[i] = s[m + i]
  BY DropFacts
<1>2. /\ Take(Drop(s, m), n) \in Seq(S) /\ Len(Take(Drop(s, m), n)) = n
      /\ \A i \in 1 .. n : Take(Drop(s, m), n)[i] = s[m + i]
  BY <1>1, TakeFacts
<1>3. /\ SubSeq(s, m + 1, m + n) \in Seq(S)
      /\ Len(SubSeq(s, m + 1, m + n)) = n
      /\ \A i \in 1 .. n : SubSeq(s, m + 1, m + n)[i] = s[m + i]
  OBVIOUS
<1> QED
  BY <1>2, <1>3, SeqEqual

\* A string is its first n bytes and the rest: what is read from a line and
\* what stays on it.
LEMMA TakeThenDrop ==
  ASSUME NEW S, NEW s \in Seq(S), NEW n \in 0 .. Len(s)
  PROVE  Take(s, n) \o Drop(s, n) = s
<1> DEFINE t == Take(s, n)
           d == Drop(s, n)
<1>1. t \in Seq(S) /\ Len(t) = n /\ \A i \in 1 .. n : t[i] = s[i]
  BY TakeFacts
<1>2. /\ d \in Seq(S) /\ Len(d) = Len(s) - n
      /\ \A i \in 1 .. Len(s) - n : d[i] = s[n + i]
  BY DropFacts
<1> HIDE DEF t, d
<1>3. /\ t \o d \in Seq(S) /\ Len(t \o d) = Len(t) + Len(d)
      /\ \A i \in 1 .. Len(t) + Len(d) :
           (t \o d)[i] = IF i <= Len(t) THEN t[i] ELSE d[i - Len(t)]
  BY <1>1, <1>2, ConcatProperties
<1>4. Len(t \o d) = Len(s)
  BY <1>1, <1>2, <1>3
<1>5. ASSUME NEW i \in 1 .. Len(t \o d)
      PROVE  (t \o d)[i] = s[i]
  <2>1. CASE i <= n
    BY <1>1, <1>3, <2>1
  <2>2. CASE n < i
    <3>1. i - n \in 1 .. Len(s) - n /\ n + (i - n) = i
      BY <1>4, <2>2
    <3> QED
      BY <1>1, <1>2, <1>3, <2>2, <3>1
  <2> QED
    BY <1>4, <2>1, <2>2
<1>6. t \o d = s
  BY <1>3, <1>4, <1>5, SeqEqual
<1> QED
  BY <1>6 DEF t, d

-----------------------------------------------------------------------------
(* Headers and frames.                                                     *)

\* A header claims a length that is a number.
LEMMA ClaimIsLength ==
  ASSUME NEW b \in Seq(Byte), HasHeader(b)
  PROVE  ClaimedLen(b) \in Nat
<1>1. HeaderLen \in 0 .. Len(b)
  BY SizesAssumption DEF HasHeader
<1>2. Take(b, HeaderLen) \in [1 .. HeaderLen -> Byte]
  BY <1>1, TakeFacts, LenProperties
<1> QED
  BY <1>2, PayloadLenAssumption DEF ClaimedLen

\* Bytes that arrive later do not change what a header claims.
LEMMA ClaimStable ==
  ASSUME NEW b \in Seq(Byte), NEW c \in Seq(Byte), HasHeader(b)
  PROVE  HasHeader(b \o c) /\ ClaimedLen(b \o c) = ClaimedLen(b)
<1>1. HeaderLen \in 0 .. Len(b)
  BY SizesAssumption DEF HasHeader
<1>2. Take(b \o c, HeaderLen) = Take(b, HeaderLen)
  BY <1>1, TakeConcat
<1> QED
  BY <1>1, <1>2 DEF ClaimedLen, HasHeader

\* The bytes GetFrame returns are a frame of their own and nothing else.
LEMMA TakenFrame ==
  ASSUME NEW b \in Seq(Byte), FrameAtFront(b)
  PROVE  LET total == FrameSize(ClaimedLen(b))
             frame == Take(b, total)
         IN  /\ total \in 1 .. Len(b)
             /\ frame \in Seq(Byte)
             /\ Len(frame) = total
             /\ FrameAtFront(frame)
             /\ ClaimedLen(frame) = ClaimedLen(b)
<1> DEFINE total == FrameSize(ClaimedLen(b))
           frame == Take(b, total)
<1>1. ClaimedLen(b) \in Nat /\ HeaderLen \in Nat \ {0}
  BY ClaimIsLength, SizesAssumption DEF FrameAtFront
<1>2. total \in 1 .. Len(b) /\ HeaderLen \in 1 .. total - 1
  BY <1>1 DEF FrameAtFront, HasFrame, FrameSize
<1> HIDE DEF total
<1>3. /\ frame \in Seq(Byte) /\ Len(frame) = total
      /\ \A i \in 1 .. total : frame[i] = b[i]
  BY <1>2, TakeFacts
<1>4. /\ Take(frame, HeaderLen) = Take(b, HeaderLen)
      /\ Take(frame, total - 1) = Take(b, total - 1)
  BY <1>2, TakeTake
<1> HIDE DEF frame
<1>5. HasHeader(frame) /\ ClaimedLen(frame) = ClaimedLen(b)
  BY <1>2, <1>3, <1>4 DEF HasHeader, ClaimedLen
<1>6. GoodHeader(frame) /\ HasFrame(frame) /\ GoodChecksum(frame)
  BY <1>2, <1>3, <1>4, <1>5
     DEF FrameAtFront, GoodHeader, HasFrame, GoodChecksum, total
<1> QED
  BY <1>2, <1>3, <1>5, <1>6 DEF FrameAtFront, total, frame

=============================================================================
