---------------------------- MODULE TcpIo_proofs ----------------------------
(***************************************************************************)
(* For every size of the descriptor table, every set of connections and    *)
(* every number of faults: the object owns exactly the descriptors it      *)
(* opened, touches nobody else's, and gives its caller one peer's bytes in *)
(* order.                                                                  *)
(***************************************************************************)
EXTENDS TcpIo, SequenceTheorems, WellFoundedInduction, TLAPS

-----------------------------------------------------------------------------
(* The inductive invariant.                                                *)

\* The descriptors only the library can have opened.
Library == {fd \in Fd : fds[fd].use \notin {"free", "foreign"}}

\* A connection's descriptor names a connection that is on it; no other
\* descriptor names one, so that closing it ends none.
TableInv ==
  \A fd \in Fd :
    /\ fds[fd].use = "conn" =>
         /\ fds[fd].conn \in Conn
         /\ conns[fds[fd].conn].state \in {"connecting", "up", "refused"}
    /\ fds[fd].use # "conn" => fds[fd].conn = 0

\* What is known of one connection.
Connection == [state : ConnStates, sent : 0 .. MaxBytes, read : 0 .. MaxBytes,
               eof : BOOLEAN, rst : BOOLEAN]

\* What the object holds at each stage of its life. A context nobody has
\* created holds nothing, whatever numbers stand in it.
ObjectInv ==
  /\ ~created => Library = {} /\ kind = "none" /\ got = <<>>
  /\ created =>
       /\ Library = Held(ctx)
       /\ ctx.sock # Invalid => fds[ctx.sock].use = "conn"
       /\ ctx.listen # Invalid => fds[ctx.listen].use = "listen"
       /\ kind = "none" => ctx.sock = Invalid /\ ctx.listen = Invalid
       /\ kind = "stream" =>
            IF ctx.server THEN ctx.listen # Invalid
                          ELSE ctx.listen = Invalid /\ ctx.sock # Invalid

\* The listen queue: each waiting peer once, and only while somebody listens.
BacklogInv ==
  /\ \A i \in DOMAIN backlog : conns[backlog[i]].state = "waiting"
  /\ \A i, j \in DOMAIN backlog : backlog[i] = backlog[j] => i = j
  /\ backlog # <<>> => UsedFor("listen") # {}

\* Nothing is read from a connection before it is up.
UnreadInv ==
  \A c \in Conn :
    conns[c].state \in {"idle", "waiting", "connecting"} => conns[c].read = 0

\* What was popped is what has been read from the connection the object holds.
StreamInv ==
  /\ kind = "stream" /\ ctx.sock = Invalid => got = <<>>
  /\ created /\ ctx.sock # Invalid =>
       got = [i \in 1 .. conns[Current].read |-> <<Current, i>>]

IInv ==
  /\ TypeOK
  /\ TableInv
  /\ ObjectInv
  /\ BacklogInv
  /\ UnreadInv
  /\ StreamInv
  /\ PoppedIsOneStream
  /\ ReadyMeansPopReturns

\* What a call of the library may not do to other people's descriptors.
LeavesForeign == \A fd \in UsedFor("foreign") : fds'[fd].use = "foreign"

-----------------------------------------------------------------------------
(* The descriptor table.                                                   *)

\* A set of numbers has a least one.
LEMMA LeastNumber ==
  ASSUME NEW T, T \subseteq Nat, T # {}
  PROVE  \E x \in T : \A y \in T : x <= y
<1>1. PICK x \in T : \A y \in T : ~ (<<y, x>> \in OpToRel(<, Nat))
  BY NatLessThanWellFounded, WFMin
<1>2. ASSUME NEW y \in T
      PROVE  x <= y
  <2>1. ~ (y < x)
    BY <1>1 DEF OpToRel
  <2> QED
    BY <2>1
<1> QED
  BY <1>2

\* socket() and accept() give a number nobody uses.
LEMMA LowestFreeIsFree ==
  ASSUME LowestFree # Invalid
  PROVE  LowestFree \in Fd /\ fds[LowestFree].use = "free"
<1>1. UsedFor("free") # {} /\ UsedFor("free") \subseteq Nat
  BY SocketsAssumption DEF LowestFree, UsedFor
<1>2. \E fd \in UsedFor("free") : \A g \in UsedFor("free") : fd <= g
  BY <1>1, LeastNumber
<1>3. LowestFree \in UsedFor("free")
  BY <1>1, <1>2 DEF LowestFree
<1> QED
  BY <1>3 DEF UsedFor

\* A socket that fails before it is anybody's connection leaves no trace when
\* it is closed.
LEMMA CloseOfUnused ==
  ASSUME TypeOK, TableInv,
         NEW S \in SUBSET UsedFor("free"),
         NEW table, table = [fd \in Fd |-> IF fd \in S THEN Use("socket", 0) ELSE fds[fd]],
         Close(table, S)
  PROVE  UNCHANGED sockVars
<1>1. \A fd \in S : fd \in Fd /\ table[fd] = Use("socket", 0) /\ fds[fd] = FreeFd
  <2> SUFFICES ASSUME NEW fd \in S
               PROVE  fd \in Fd /\ table[fd] = Use("socket", 0) /\ fds[fd] = FreeFd
    OBVIOUS
  <2>1. fd \in Fd /\ fds[fd].use = "free" /\ fds[fd].conn = 0
    BY DEF UsedFor, TableInv
  <2>2. fds[fd] \in [use : Uses, conn : Conn \cup {0}]
    BY <2>1 DEF TypeOK, SocketsTypeOK
  <2> QED
    BY <2>1, <2>2 DEF FreeFd, Use
<1>2. ~ \E fd \in S : table[fd].use = "listen"
  BY <1>1 DEF Use
<1>3. fds' = fds
  <2>1. fds' = [fd \in Fd |-> IF fd \in S THEN FreeFd ELSE table[fd]]
    BY DEF Close
  <2>2. \A fd \in Fd : fds'[fd] = fds[fd]
    BY <1>1, <2>1
  <2> QED
    BY <2>1, <2>2 DEF TypeOK, SocketsTypeOK
<1>4. conns' = conns
  <2>1. \A fd \in S : table[fd].conn = 0
    BY <1>1 DEF Use
  <2>2. conns' = [c \in Conn |-> IF c \in {table[fd].conn : fd \in S} THEN Gone ELSE conns[c]]
    BY <1>2 DEF Close
  <2>3. \A c \in Conn : c \notin {table[fd].conn : fd \in S}
    BY <2>1, SocketsAssumption
  <2> QED
    BY <2>2, <2>3 DEF TypeOK, SocketsTypeOK
<1>5. backlog' = backlog
  BY <1>2 DEF Close
<1> QED
  BY <1>3, <1>4, <1>5 DEF sockVars

\* A closed connection keeps nothing.
LEMMA GoneIsConnection ==
  Gone \in Connection /\ Gone.state = "gone"
<1>1. NewConn \in Connection
  BY SocketsAssumption DEF NewConn, Connection, ConnStates
<1>2. Gone = [NewConn EXCEPT !.state = "gone"]
  BY DEF Gone
<1> QED
  BY <1>1, <1>2 DEF Connection, ConnStates

\* The descriptor in ctx->sock is open and belongs to a connection of ours.
LEMMA CurrentIsOn ==
  ASSUME IInv, created, ctx.sock # Invalid
  PROVE  /\ ctx.sock \in Fd /\ fds[ctx.sock].use = "conn"
         /\ Current \in Conn /\ conns[Current].state \in {"connecting", "up", "refused"}
  BY DEF IInv, TypeOK, TableInv, ObjectInv, Current

-----------------------------------------------------------------------------
(* Steps that change connections and leave the table alone: the peers' and *)
(* smls_io_push.                                                           *)

\* Such a step keeps what ties the object to its connection when no
\* connection that is on leaves it and nothing is read.
LEMMA ConnsStep ==
  ASSUME IInv, UNCHANGED <<fds, kind, ctx, created, got>>,
         \A c \in Conn : conns[c].state \in {"connecting", "up", "refused"} =>
           /\ conns'[c].state \in {"connecting", "up", "refused"}
           /\ conns'[c].read = conns[c].read
  PROVE  TableInv' /\ ObjectInv' /\ StreamInv' /\ PoppedIsOneStream'
<1>1. TableInv'
  BY DEF IInv, TableInv
<1>2. ObjectInv'
  BY DEF IInv, ObjectInv, Library, Held
<1>3. StreamInv'
  <2>1. kind' = "stream" /\ ctx'.sock = Invalid => got' = <<>>
    BY DEF IInv, StreamInv
  <2>2. ASSUME created', ctx'.sock # Invalid
        PROVE  got' = [i \in 1 .. conns'[Current'].read |-> <<Current', i>>]
    <3>1. Current' = Current
      BY DEF Current
    <3>2. conns'[Current].read = conns[Current].read
      BY <2>2, CurrentIsOn
    <3>3. got = [i \in 1 .. conns[Current].read |-> <<Current, i>>]
      BY <2>2 DEF IInv, StreamInv
    <3> QED
      BY <3>1, <3>2, <3>3
  <2> QED
    BY <2>1, <2>2 DEF StreamInv
<1>4. PoppedIsOneStream'
  BY DEF IInv, PoppedIsOneStream
<1> QED
  BY <1>1, <1>2, <1>3, <1>4

\* Readiness lasts: nobody takes back what has arrived.
LEMMA ReadyStays ==
  ASSUME IInv, UNCHANGED <<fds, ctx, result>>,
         backlog # <<>> => backlog' # <<>>,
         \A c \in Conn : LET old == conns[c]
                             new == conns'[c]
                         IN /\ old.state = "up" /\ (old.read < old.sent \/ old.eof)
                                 => new.state = "up" /\ (new.read < new.sent \/ new.eof)
                            /\ old.state = "refused" => new.state = "refused"
  PROVE  ReadyMeansPopReturns'
<1> SUFFICES ASSUME result' = [call |-> "poll", ret |-> 1]
             PROVE  ctx'.sock # Invalid /\ Readable(ctx.sock)'
  BY DEF ReadyMeansPopReturns
<1>1. ctx.sock # Invalid /\ Readable(ctx.sock)
  BY DEF IInv, ReadyMeansPopReturns
<1>2. CASE fds[ctx.sock].use = "listen"
  BY <1>1, <1>2 DEF Readable
<1>3. CASE fds[ctx.sock].use = "conn"
  <2>1. ctx.sock \in Fd /\ fds[ctx.sock].conn \in Conn
    BY <1>1, <1>3 DEF IInv, TypeOK, TableInv
  <2> QED
    BY <1>1, <1>3, <2>1 DEF Readable
<1>4. CASE fds[ctx.sock].use \notin {"listen", "conn"}
  BY <1>1, <1>4 DEF Readable
<1> QED
  BY <1>2, <1>3, <1>4

LEMMA PeerConnectsKeeps ==
  ASSUME IInv, NEW c \in Conn, PeerConnects(c),
         UNCHANGED <<kind, ctx, created, result, got, faults>>
  PROVE  IInv'
<1>1. /\ conns' = [conns EXCEPT ![c].state = "waiting"] /\ backlog' = Append(backlog, c)
      /\ fds' = fds /\ conns[c].state = "idle" /\ UsedFor("listen") # {}
  BY DEF PeerConnects
<1>2. TypeOK'
  <2>1. conns' \in [Conn -> Connection]
    <3>1. conns \in [Conn -> Connection]
      BY DEF IInv, TypeOK, SocketsTypeOK, Connection
    <3>2. [conns[c] EXCEPT !.state = "waiting"] \in Connection
      BY <3>1 DEF Connection, ConnStates
    <3> QED
      BY <1>1, <3>1, <3>2
  <2>t. backlog' \in Seq(Conn)
    <3>1. backlog \in Seq(Conn)
      BY DEF IInv, TypeOK, SocketsTypeOK
    <3> QED
      BY <1>1, <3>1
  <2>2. backlog' \in Seq(Conn) /\ SocketsTypeOK'
    BY <1>1, <2>1, <2>t DEF IInv, TypeOK, SocketsTypeOK, Connection
  <2> QED
    BY <2>2 DEF IInv, TypeOK
<1>3. TableInv' /\ ObjectInv' /\ StreamInv' /\ PoppedIsOneStream'
  BY <1>1, ConnsStep DEF IInv, TypeOK, SocketsTypeOK
<1>4. BacklogInv'
  <2>1. backlog \in Seq(Conn) /\ conns \in [Conn -> [state : ConnStates, sent : 0 .. MaxBytes,
                         read : 0 .. MaxBytes, eof : BOOLEAN, rst : BOOLEAN]]
    BY DEF IInv, TypeOK, SocketsTypeOK
  <2>2. /\ \A i \in DOMAIN backlog : conns[backlog[i]].state = "waiting"
        /\ \A i, j \in DOMAIN backlog : backlog[i] = backlog[j] => i = j
    BY DEF IInv, BacklogInv
  <2>3. \A i \in DOMAIN backlog : backlog[i] # c
    BY <1>1, <2>2
  <2>4. \A i \in DOMAIN backlog' :
          (i \in DOMAIN backlog /\ backlog'[i] = backlog[i]) \/ (i = Len(backlog) + 1 /\ backlog'[i] = c)
    BY <1>1, <2>1
  <2>5. \A i \in DOMAIN backlog : i \in 1 .. Len(backlog) /\ backlog[i] \in Conn
    BY <2>1
  <2>6. \A i \in DOMAIN backlog' : conns'[backlog'[i]].state = "waiting"
    BY <1>1, <2>1, <2>2, <2>3, <2>4, <2>5
  <2>7. \A i, j \in DOMAIN backlog' : backlog'[i] = backlog'[j] => i = j
    BY <2>2, <2>3, <2>4
  <2> QED
    BY <1>1, <2>6, <2>7 DEF BacklogInv, UsedFor
<1>5. UnreadInv'
  BY <1>1 DEF IInv, UnreadInv, TypeOK, SocketsTypeOK
<1>6. ReadyMeansPopReturns'
  <2>1. backlog' # <<>>
    <3>1. backlog \in Seq(Conn)
      BY DEF IInv, TypeOK, SocketsTypeOK
    <3>2. Len(backlog') = Len(backlog) + 1 /\ Len(backlog) \in Nat
      BY <1>1, <3>1
    <3> QED
      BY <3>2
  <2> QED
    BY <1>1, <2>1, ReadyStays DEF IInv, TypeOK, SocketsTypeOK
<1> QED
  BY <1>2, <1>3, <1>4, <1>5, <1>6 DEF IInv

\* The other steps of a peer change one connection, and neither its being on
\* nor its place in the queue.
LEMMA OneConnStep ==
  ASSUME IInv, NEW c \in Conn, NEW r \in Connection, conns' = [conns EXCEPT ![c] = r],
         UNCHANGED <<fds, backlog, kind, ctx, created, got>>,
         r.read = conns[c].read,
         \/ r.state = conns[c].state
         \/ conns[c].state = "connecting" /\ r.state \in {"up", "refused"}
  PROVE  TableInv' /\ ObjectInv' /\ BacklogInv' /\ UnreadInv' /\ StreamInv' /\ PoppedIsOneStream'
<1>1. conns \in [Conn -> Connection]
  BY DEF IInv, TypeOK, SocketsTypeOK, Connection
<1>2. TableInv' /\ ObjectInv' /\ StreamInv' /\ PoppedIsOneStream'
  BY <1>1, ConnsStep
<1>3. BacklogInv'
  <2>1. \A i \in DOMAIN backlog : conns'[backlog[i]].state = "waiting"
    <3> SUFFICES ASSUME NEW i \in DOMAIN backlog
                 PROVE  conns'[backlog[i]].state = "waiting"
      OBVIOUS
    <3>1. backlog[i] \in Conn /\ conns[backlog[i]].state = "waiting"
      BY DEF IInv, BacklogInv, TypeOK, SocketsTypeOK
    <3> QED
      BY <1>1, <3>1
  <2> QED
    BY <2>1 DEF IInv, BacklogInv, UsedFor
<1>4. UnreadInv'
  BY <1>1 DEF IInv, UnreadInv
<1> QED
  BY <1>2, <1>3, <1>4

\* A peer sends, or closes its end.
LEMMA PeerKeeps ==
  ASSUME IInv, NEW c \in Conn, PeerSends(c) \/ PeerCloses(c),
         UNCHANGED <<kind, ctx, created, result, got, faults>>
  PROVE  IInv'
<1>1. conns \in [Conn -> Connection]
  BY DEF IInv, TypeOK, SocketsTypeOK, Connection
<1>2. PICK r \in Connection :
        /\ conns' = [conns EXCEPT ![c] = r]
        /\ r.read = conns[c].read /\ r.state = conns[c].state
        /\ r.sent >= conns[c].sent /\ (conns[c].eof => r.eof)
  <2>1. CASE PeerSends(c)
    <3> DEFINE r == [conns[c] EXCEPT !.sent = @ + 1]
    <3>1. conns' = [conns EXCEPT ![c] = r]
      BY <2>1, <1>1 DEF PeerSends
    <3>2. r \in Connection
      BY <2>1, <1>1, SocketsAssumption DEF PeerSends, Connection
    <3>3. r.sent >= conns[c].sent /\ r.eof = conns[c].eof
          /\ r.read = conns[c].read /\ r.state = conns[c].state
      BY <1>1 DEF Connection
    <3> QED
      BY <3>1, <3>2, <3>3
  <2>2. CASE PeerCloses(c)
    <3> DEFINE r == [conns[c] EXCEPT !.eof = TRUE]
    <3>1. conns' = [conns EXCEPT ![c] = r]
      BY <2>2, <1>1 DEF PeerCloses
    <3>2. r \in Connection
      BY <1>1 DEF Connection
    <3>3. r.sent >= conns[c].sent /\ r.eof
          /\ r.read = conns[c].read /\ r.state = conns[c].state
      BY <1>1 DEF Connection
    <3> QED
      BY <3>1, <3>2, <3>3
  <2> QED
    BY <2>1, <2>2
<1>3. UNCHANGED <<fds, backlog>>
  BY DEF PeerSends, PeerCloses
<1>4. TableInv' /\ ObjectInv' /\ BacklogInv' /\ UnreadInv' /\ StreamInv' /\ PoppedIsOneStream'
  BY <1>2, <1>3, OneConnStep
<1>5. TypeOK'
  BY <1>1, <1>2, <1>3 DEF IInv, TypeOK, SocketsTypeOK, Connection
<1>6. ReadyMeansPopReturns'
  <2>1. r.read \in Int /\ r.sent \in Int /\ conns[c].sent \in Int /\ r.eof \in BOOLEAN
    BY <1>1, SocketsAssumption DEF Connection
  <2>2. r.read < r.sent \/ r.eof \/ ~(conns[c].read < conns[c].sent \/ conns[c].eof)
    BY <1>2, <2>1
  <2> QED
    BY <1>1, <1>2, <1>3, <2>2, ReadyStays
<1> QED
  BY <1>4, <1>5, <1>6 DEF IInv

LEMMA RemoteAnswersKeeps ==
  ASSUME IInv, NEW c \in Conn, RemoteAnswers(c),
         UNCHANGED <<kind, ctx, created, result, got, faults>>
  PROVE  IInv'
<1>1. conns \in [Conn -> Connection]
  BY DEF IInv, TypeOK, SocketsTypeOK, Connection
<1>2. PICK s \in {"up", "refused"} : conns' = [conns EXCEPT ![c].state = s]
  BY DEF RemoteAnswers
<1>3. conns[c].state = "connecting" /\ UNCHANGED <<fds, backlog>>
  BY DEF RemoteAnswers
<1> DEFINE r == [conns[c] EXCEPT !.state = s]
<1>4. conns' = [conns EXCEPT ![c] = r] /\ r \in Connection /\ r.read = conns[c].read /\ r.state = s
  BY <1>1, <1>2 DEF Connection, ConnStates
<1> HIDE DEF r
<1>5. TableInv' /\ ObjectInv' /\ BacklogInv' /\ UnreadInv' /\ StreamInv' /\ PoppedIsOneStream'
  BY <1>3, <1>4, OneConnStep
<1>6. TypeOK'
  BY <1>1, <1>3, <1>4 DEF IInv, TypeOK, SocketsTypeOK, Connection
<1>7. ReadyMeansPopReturns'
  BY <1>1, <1>3, <1>4, ReadyStays
<1> QED
  BY <1>5, <1>6, <1>7 DEF IInv

-----------------------------------------------------------------------------
(* Other people's descriptors.                                             *)

\* A number that is not the library's is taken or given back.
LEMMA ForeignNumber ==
  ASSUME IInv, NEW fd \in Fd, fds[fd].use \in {"free", "foreign"},
         NEW u \in {"free", "foreign"}, fds' = [fds EXCEPT ![fd] = Use(u, 0)],
         UNCHANGED <<conns, backlog, kind, ctx, created, result, got, faults>>
  PROVE  IInv'
<1>1. /\ fds \in [Fd -> [use : Uses, conn : Conn \cup {0}]]
      /\ fds'[fd] = Use(u, 0) /\ \A g \in Fd : g # fd => fds'[g] = fds[g]
  BY DEF IInv, TypeOK, SocketsTypeOK
<1>2. TypeOK'
  <2>1. fds' \in [Fd -> [use : Uses, conn : Conn \cup {0}]]
    BY <1>1 DEF Use, Uses
  <2> QED
    BY <2>1 DEF IInv, TypeOK, SocketsTypeOK
<1>3. TableInv'
  BY <1>1 DEF IInv, TableInv, Use
<1>4. \A g \in Fd : fds[g].use \notin {"free", "foreign"} => g # fd /\ fds'[g] = fds[g]
  BY <1>1
<1>5. ObjectInv'
  <2>1. Library' = Library
    BY <1>1, <1>4 DEF Library, Use
  <2>2. ctx.sock \in Fd \cup {Invalid} /\ ctx.listen \in Fd \cup {Invalid}
    BY DEF IInv, TypeOK
  <2> QED
    BY <1>4, <2>1, <2>2 DEF IInv, ObjectInv, Held
<1>6. BacklogInv'
  BY <1>4 DEF IInv, BacklogInv, UsedFor
<1>7. UnreadInv'
  BY DEF IInv, UnreadInv
<1>8. StreamInv'
  <2>1. created /\ ctx.sock # Invalid => Current' = Current
    BY <1>4, CurrentIsOn DEF Current
  <2> QED
    BY <2>1 DEF IInv, StreamInv
<1>9. PoppedIsOneStream'
  BY DEF IInv, PoppedIsOneStream
<1>10. ReadyMeansPopReturns'
  <2>1. ASSUME ctx.sock # Invalid, Readable(ctx.sock)
        PROVE  Readable(ctx.sock)'
    <3>1. fds[ctx.sock].use \in {"listen", "conn"} /\ ctx.sock \in Fd
      BY <2>1 DEF Readable, IInv, TypeOK
    <3>2. fds'[ctx.sock] = fds[ctx.sock]
      BY <1>4, <3>1
    <3> QED
      BY <2>1, <3>2 DEF Readable
  <2> QED
    BY <2>1 DEF IInv, ReadyMeansPopReturns
<1> QED
  BY <1>2, <1>3, <1>5, <1>6, <1>7, <1>8, <1>9, <1>10 DEF IInv

LEMMA WorldKeeps ==
  ASSUME IInv, World, UNCHANGED <<kind, ctx, created, result, got, faults>>
  PROVE  IInv'
<1>1. ASSUME NEW c \in Conn, PeerConnects(c) PROVE IInv'
  BY <1>1, PeerConnectsKeeps
<1>2. ASSUME NEW c \in Conn, PeerSends(c) \/ PeerCloses(c) PROVE IInv'
  BY <1>2, PeerKeeps
<1>3. ASSUME NEW c \in Conn, RemoteAnswers(c) PROVE IInv'
  BY <1>3, RemoteAnswersKeeps
<1>4. CASE ForeignOpens
  <2>1. LowestFree \in Fd /\ fds[LowestFree].use = "free"
    BY <1>4, LowestFreeIsFree DEF ForeignOpens
  <2> QED
    BY <1>4, <2>1, ForeignNumber DEF ForeignOpens
<1>5. ASSUME NEW fd \in Fd, ForeignCloses(fd) PROVE IInv'
  BY <1>5, ForeignNumber DEF ForeignCloses, FreeFd
<1> QED
  BY <1>1, <1>2, <1>3, <1>4, <1>5 DEF World

-----------------------------------------------------------------------------
(* The calls that move bytes.                                              *)

\* What a call may return is in the range of the type.
LEMMA ResultTyped ==
  ASSUME NEW call \in {"create", "destroy", "push", "pop", "poll", "SIGPIPE"},
         NEW ret \in {ErrClosed, ErrIo} \cup -1 .. (2 + MaxBytes),
         result' = [call |-> call, ret |-> ret]
  PROVE  result' \in Outcome
  BY DEF Outcome

\* The codes the calls return, as members of that range.
LEMMA Codes ==
  /\ ErrClosed \in {ErrClosed, ErrIo} \cup -1 .. (2 + MaxBytes)
  /\ ErrIo \in {ErrClosed, ErrIo} \cup -1 .. (2 + MaxBytes)
  /\ \A n \in -1 .. MaxBytes : n \in {ErrClosed, ErrIo} \cup -1 .. (2 + MaxBytes)
  /\ -1 .. 2 \subseteq {ErrClosed, ErrIo} \cup -1 .. (2 + MaxBytes)
  BY SocketsAssumption

LEMMA PushKeeps ==
  ASSUME IInv, Push
  PROVE  IInv' /\ LeavesForeign
<1>1. UNCHANGED <<fds, backlog, kind, ctx, created, got, faults>> /\ created
  BY DEF Push
<1>2. conns \in [Conn -> Connection]
  BY DEF IInv, TypeOK, SocketsTypeOK, Connection
<1>3. \/ conns' = conns
      \/ /\ ctx.sock # Invalid
         /\ conns' = [conns EXCEPT ![Current].rst =
                        conns[Current].eof \/ conns[Current].state = "refused"]
  BY DEF Push
<1>4. /\ conns' \in [Conn -> Connection]
      /\ TableInv' /\ ObjectInv' /\ BacklogInv' /\ UnreadInv' /\ StreamInv' /\ PoppedIsOneStream'
  <2>1. CASE conns' = conns
    <3>1. TableInv' /\ ObjectInv' /\ StreamInv' /\ PoppedIsOneStream'
      BY <1>1, <2>1, ConnsStep
    <3> QED
      BY <1>1, <1>2, <2>1, <3>1 DEF IInv, BacklogInv, UnreadInv, UsedFor
  <2>2. CASE conns' # conns
    <3> DEFINE r == [conns[Current] EXCEPT !.rst =
                       conns[Current].eof \/ conns[Current].state = "refused"]
    <3>1. Current \in Conn /\ conns' = [conns EXCEPT ![Current] = r]
      BY <1>1, <1>2, <1>3, <2>2, CurrentIsOn
    <3>2. r \in Connection /\ r.read = conns[Current].read /\ r.state = conns[Current].state
      BY <1>2, <3>1 DEF Connection
    <3> HIDE DEF r
    <3> QED
      BY <1>1, <1>2, <3>1, <3>2, OneConnStep
  <2> QED
    BY <2>1, <2>2
<1>5. result' \in {[call |-> "push", ret |-> ErrClosed], [call |-> "push", ret |-> 1],
                   [call |-> "push", ret |-> -1], [call |-> "SIGPIPE", ret |-> 0]}
  BY DEF Push, Returns
<1>6. TypeOK'
  <2>1. result' \in Outcome
    BY <1>5, ResultTyped, Codes
  <2> QED
    BY <1>1, <1>4, <2>1 DEF IInv, TypeOK, SocketsTypeOK, Connection
<1>7. ReadyMeansPopReturns'
  BY <1>5 DEF ReadyMeansPopReturns
<1>8. LeavesForeign
  BY <1>1 DEF LeavesForeign, UsedFor
<1> QED
  BY <1>4, <1>6, <1>7, <1>8 DEF IInv

\* The next n bytes of a peer's stream after its first k.
LEMMA StreamGrows ==
  ASSUME NEW c, NEW k \in Nat, NEW n \in Nat
  PROVE  [i \in 1 .. k |-> <<c, i>>] \o [i \in 1 .. n |-> <<c, k + i>>]
           = [i \in 1 .. k + n |-> <<c, i>>]
<1> DEFINE S == {c} \X Nat
           old == [i \in 1 .. k |-> <<c, i>>]
           new == [i \in 1 .. n |-> <<c, k + i>>]
           all == [i \in 1 .. k + n |-> <<c, i>>]
<1>1. old \in Seq(S) /\ Len(old) = k /\ \A i \in 1 .. k : old[i] = <<c, i>>
  OBVIOUS
<1>2. new \in Seq(S) /\ Len(new) = n /\ \A i \in 1 .. n : new[i] = <<c, k + i>>
  OBVIOUS
<1>3. all \in Seq(S) /\ Len(all) = k + n /\ \A i \in 1 .. k + n : all[i] = <<c, i>>
  OBVIOUS
<1> HIDE DEF S, old, new, all
<1>4. /\ old \o new \in Seq(S) /\ Len(old \o new) = k + n
      /\ \A i \in 1 .. k + n : (old \o new)[i] = IF i <= k THEN old[i] ELSE new[i - k]
  BY <1>1, <1>2, ConcatProperties
<1>5. ASSUME NEW i \in 1 .. Len(old \o new)
      PROVE  (old \o new)[i] = all[i]
  <2>1. i \in 1 .. k + n /\ all[i] = <<c, i>>
    BY <1>3, <1>4
  <2>2. CASE i <= k
    BY <1>1, <1>4, <2>1, <2>2
  <2>3. CASE i > k
    <3>1. (old \o new)[i] = new[i - k] /\ i - k \in 1 .. n
      BY <1>4, <2>1, <2>3
    <3>2. new[i - k] = <<c, k + (i - k)>> /\ k + (i - k) = i
      BY <1>2, <2>1, <3>1
    <3> QED
      BY <2>1, <3>1, <3>2
  <2> QED
    BY <2>1, <2>2, <2>3
<1>6. old \o new = all
  BY <1>3, <1>4, <1>5, SeqEqual
<1> QED
  BY <1>6 DEF old, new, all

\* A pop appends to what was popped before exactly the next bytes.
LEMMA PopKeeps ==
  ASSUME IInv, Pop
  PROVE  IInv' /\ LeavesForeign
<1>1. UNCHANGED <<fds, backlog, kind, ctx, created, faults>> /\ created
  BY DEF Pop
<1>2. conns \in [Conn -> Connection] /\ got \in Seq(Conn \X (1 .. MaxBytes))
  BY DEF IInv, TypeOK, SocketsTypeOK, Connection
<1>3. ASSUME NEW n \in -1 .. MaxBytes, Returns("pop", n)
      PROVE  /\ result' \in Outcome
             /\ ReadyMeansPopReturns'
  BY <1>3, ResultTyped, Codes DEF Returns, ReadyMeansPopReturns
<1>4. ASSUME conns' = conns, got' = got
      PROVE  IInv'
  <2>1. TableInv' /\ ObjectInv' /\ StreamInv' /\ PoppedIsOneStream'
    BY <1>1, <1>4, ConnsStep
  <2>2. BacklogInv' /\ UnreadInv'
    BY <1>1, <1>4 DEF IInv, BacklogInv, UnreadInv, UsedFor
  <2>3. /\ result' \in Outcome
        /\ ReadyMeansPopReturns'
    <3>1. CASE ctx.sock = Invalid
      BY <3>1, ResultTyped, Codes DEF Pop, Returns, ReadyMeansPopReturns
    <3>2. CASE ctx.sock # Invalid
      BY <1>3, <3>2 DEF Pop
    <3> QED
      BY <3>1, <3>2
  <2>4. TypeOK'
    BY <1>1, <1>4, <2>3 DEF IInv, TypeOK, SocketsTypeOK
  <2> QED
    BY <2>1, <2>2, <2>3, <2>4 DEF IInv
<1>5. ASSUME NEW n \in 1 .. MaxBytes, ctx.sock # Invalid, Received(n), Returns("pop", n),
             conns' = [conns EXCEPT ![Current].read = @ + n],
             got' = got \o [i \in 1 .. n |-> <<Current, conns[Current].read + i>>]
      PROVE  IInv'
  <2> DEFINE k == conns[Current].read
             r == [conns[Current] EXCEPT !.read = k + n]
  <2>1. Current \in Conn /\ Current' = Current
    BY <1>1, <1>5, CurrentIsOn DEF Current
  <2>2. k \in Nat /\ k + n \in 0 .. MaxBytes /\ conns[Current].state = "up"
    BY <1>2, <1>5, <2>1, SocketsAssumption DEF Received, Connection
  <2>3. r \in Connection /\ r.read = k + n /\ r.state = "up"
    BY <1>2, <2>1, <2>2 DEF Connection
  <2>4. conns' = [conns EXCEPT ![Current] = r]
    BY <1>2, <1>5, <2>1
  <2>5. /\ conns' \in [Conn -> Connection] /\ conns'[Current] = r
        /\ \A c \in Conn : c # Current => conns'[c] = conns[c]
    BY <1>2, <2>1, <2>3, <2>4
  <2>6. got = [i \in 1 .. k |-> <<Current, i>>]
    BY <1>1, <1>5 DEF IInv, StreamInv
  <2>7. got' = [i \in 1 .. k + n |-> <<Current, i>>]
    <3>1. got' = [i \in 1 .. k |-> <<Current, i>>] \o [i \in 1 .. n |-> <<Current, k + i>>]
      BY <1>5, <2>6
    <3>2. n \in Nat
      BY SocketsAssumption
    <3> HIDE DEF k
    <3> QED
      BY <2>2, <3>1, <3>2, StreamGrows
  <2> HIDE DEF k, r
  <2>8. TableInv'
    BY <1>1, <2>3, <2>5 DEF IInv, TableInv
  <2>9. ObjectInv'
    BY <1>1 DEF IInv, ObjectInv, Library, Held
  <2>10. BacklogInv'
    <3>1. ASSUME NEW i \in DOMAIN backlog
          PROVE  conns'[backlog[i]].state = "waiting"
      <4>1. backlog[i] \in Conn /\ conns[backlog[i]].state = "waiting"
        BY DEF IInv, BacklogInv, TypeOK, SocketsTypeOK
      <4>2. backlog[i] # Current
        BY <2>2, <4>1
      <4> QED
        BY <2>5, <4>1, <4>2
    <3> QED
      BY <1>1, <3>1 DEF IInv, BacklogInv, UsedFor
  <2>11. UnreadInv'
    BY <2>3, <2>5 DEF IInv, UnreadInv
  <2>12. StreamInv'
    BY <1>1, <1>5, <2>1, <2>3, <2>5, <2>7 DEF StreamInv
  <2>13. got' \in Seq(Conn \X (1 .. MaxBytes)) /\ PoppedIsOneStream'
    <3>1. Len(got') = k + n
      BY <2>2, <2>7
    <3>2. \A i \in 1 .. k + n : got'[i] = <<Current, i>> /\ i \in 1 .. MaxBytes
      BY <2>2, <2>7, SocketsAssumption
    <3>3. PoppedIsOneStream'
      BY <3>1, <3>2 DEF PoppedIsOneStream
    <3> QED
      BY <2>1, <2>2, <2>7, <3>2, <3>3
  <2>14. /\ result' \in Outcome
         /\ ReadyMeansPopReturns'
    BY <1>3, <1>5, SocketsAssumption
  <2>15. TypeOK'
    BY <1>1, <2>5, <2>13, <2>14 DEF IInv, TypeOK, SocketsTypeOK, Connection
  <2> QED
    BY <2>15, <2>8, <2>9, <2>10, <2>11, <2>12, <2>13, <2>14 DEF IInv
<1>6. LeavesForeign
  BY <1>1 DEF LeavesForeign, UsedFor
<1>7. CASE ctx.sock # Invalid
  <2>1. PICK n \in -1 .. MaxBytes :
          /\ Received(n) /\ Returns("pop", n)
          /\ IF n <= 0 THEN UNCHANGED <<conns, got>>
             ELSE /\ conns' = [conns EXCEPT ![Current].read = @ + n]
                  /\ got' = got \o [i \in 1 .. n |-> <<Current, conns[Current].read + i>>]
    BY <1>7 DEF Pop
  <2>2. CASE n <= 0
    BY <1>4, <1>6, <2>1, <2>2
  <2>3. CASE ~(n <= 0)
    <3>1. n \in 1 .. MaxBytes
      BY <2>3, SocketsAssumption
    <3> QED
      BY <1>5, <1>6, <1>7, <2>1, <2>3, <3>1
  <2> QED
    BY <2>2, <2>3
<1> QED
  BY <1>4, <1>6, <1>7 DEF Pop

-----------------------------------------------------------------------------
(* smls_io_poll.                                                           *)

\* A poll that accepts nobody changes nothing but what it returned.
LEMMA PollOnly ==
  ASSUME IInv, UNCHANGED <<sockVars, kind, ctx, created, got>>, faults' \in 0 .. MaxFaults,
         NEW ret \in {ErrClosed, ErrIo, -1, 0, 1}, Returns("poll", ret),
         ret = 1 => ctx.sock # Invalid /\ Readable(ctx.sock)
  PROVE  IInv' /\ LeavesForeign
<1>1. fds' = fds /\ conns' = conns /\ backlog' = backlog
  BY DEF sockVars
<1>2. TableInv' /\ ObjectInv' /\ StreamInv' /\ PoppedIsOneStream'
  BY <1>1, ConnsStep
<1>3. BacklogInv' /\ UnreadInv'
  BY <1>1 DEF IInv, BacklogInv, UnreadInv, UsedFor
<1>4. TypeOK'
  <2>1. result' \in Outcome
    BY ResultTyped, Codes DEF Returns
  <2> QED
    BY <1>1, <2>1 DEF IInv, TypeOK, SocketsTypeOK
<1>5. ReadyMeansPopReturns'
  <2>1. CASE ret = 1
    BY <1>1, <2>1 DEF ReadyMeansPopReturns, Readable
  <2>2. CASE ret # 1
    BY <2>2 DEF ReadyMeansPopReturns, Returns
  <2> QED
    BY <2>1, <2>2
<1>6. LeavesForeign
  BY <1>1 DEF LeavesForeign, UsedFor
<1> QED
  BY <1>2, <1>3, <1>4, <1>5, <1>6 DEF IInv

\* accept() takes the oldest peer from the queue; the others keep waiting.
LEMMA QueueAdvances ==
  ASSUME IInv, backlog # <<>>, backlog' = Tail(backlog), UsedFor("listen")' # {},
         \A c \in Conn : c # Head(backlog) => conns'[c] = conns[c]
  PROVE  BacklogInv' /\ backlog' \in Seq(Conn)
<1>1. backlog \in Seq(Conn)
  BY DEF IInv, TypeOK, SocketsTypeOK
<1>2. /\ backlog' \in Seq(Conn) /\ Len(backlog') = Len(backlog) - 1 /\ Head(backlog) = backlog[1]
      /\ \A i \in 1 .. Len(backlog') : backlog'[i] = backlog[i + 1]
  BY <1>1, HeadTailProperties
<1>3. Len(backlog) \in Nat /\ DOMAIN backlog = 1 .. Len(backlog) /\ DOMAIN backlog' = 1 .. Len(backlog')
  BY <1>1, <1>2
<1>4. \A i, j \in DOMAIN backlog : backlog[i] = backlog[j] => i = j
  BY DEF IInv, BacklogInv
<1>5. ASSUME NEW i \in DOMAIN backlog'
      PROVE  i + 1 \in DOMAIN backlog /\ backlog'[i] = backlog[i + 1] /\ backlog[i + 1] # Head(backlog)
  <2>1. i + 1 \in DOMAIN backlog /\ 1 \in DOMAIN backlog /\ i + 1 # 1
    BY <1>2, <1>3
  <2> QED
    BY <1>2, <1>3, <1>4, <2>1
<1>6. \A i \in DOMAIN backlog' : conns'[backlog'[i]].state = "waiting"
  <2> SUFFICES ASSUME NEW i \in DOMAIN backlog'
               PROVE  conns'[backlog'[i]].state = "waiting"
    OBVIOUS
  <2>1. backlog[i + 1] \in Conn /\ conns[backlog[i + 1]].state = "waiting"
    BY <1>1, <1>5 DEF IInv, BacklogInv
  <2> QED
    BY <1>5, <2>1
<1>7. \A i, j \in DOMAIN backlog' : backlog'[i] = backlog'[j] => i = j
  <2> SUFFICES ASSUME NEW i \in DOMAIN backlog', NEW j \in DOMAIN backlog',
                      backlog'[i] = backlog'[j]
               PROVE  i = j
    OBVIOUS
  <2>1. i + 1 = j + 1
    BY <1>4, <1>5
  <2> QED
    BY <1>3, <2>1
<1> QED
  BY <1>2, <1>6, <1>7 DEF BacklogInv

LEMMA AcceptKeeps ==
  ASSUME IInv, created, ctx.server, Target = ctx.listen, ctx.listen # Invalid,
         Readable(ctx.listen), AcceptFirst, UNCHANGED <<kind, created, got>>
  PROVE  IInv' /\ LeavesForeign
<1> DEFINE c == Head(backlog)
<1>1. /\ ctx.listen \in Fd /\ fds[ctx.listen].use = "listen" /\ backlog # <<>>
      /\ fds \in [Fd -> [use : Uses, conn : Conn \cup {0}]]
      /\ conns \in [Conn -> Connection] /\ backlog \in Seq(Conn)
      /\ Invalid \notin Fd
  <2>1. ctx.listen \in Fd /\ fds[ctx.listen].use = "listen" /\ Invalid \notin Fd
    BY SocketsAssumption DEF IInv, TypeOK, ObjectInv, Invalid
  <2>2. backlog # <<>>
    BY <2>1 DEF Readable
  <2> QED
    BY <2>1, <2>2 DEF IInv, TypeOK, SocketsTypeOK, Connection
<1>2. ctx.sock = Invalid
  BY <1>1, CurrentIsOn DEF Target
<1>3. kind = "stream" /\ got = <<>>
  BY <1>1, <1>2 DEF IInv, TypeOK, ObjectInv, StreamInv
<1>4. c \in Conn /\ conns[c].state = "waiting" /\ conns[c].read = 0
  <2>1. c = backlog[1] /\ 1 \in DOMAIN backlog
    BY <1>1
  <2>2. c \in Conn /\ conns[c].state = "waiting"
    BY <1>1, <2>1 DEF IInv, BacklogInv
  <2> QED
    BY <2>2 DEF IInv, UnreadInv
<1> HIDE DEF c
<1>5. CASE LowestFree = Invalid
  <2>1. Returns("poll", ErrIo) /\ UNCHANGED <<fds, conns, backlog, ctx, faults>>
    BY <1>5 DEF AcceptFirst, NoFault
  <2>2. UNCHANGED <<sockVars, kind, ctx, created, got>> /\ faults' \in 0 .. MaxFaults
    BY <2>1 DEF sockVars, IInv, TypeOK
  <2>3. LeavesForeign
    BY <2>1 DEF LeavesForeign, UsedFor
  <2> QED
    BY <2>1, <2>2, <2>3, PollOnly DEF ErrIo
<1>6. CASE LowestFree # Invalid
  <2> DEFINE new == LowestFree
             table == [fds EXCEPT ![new] = Use("conn", c)]
  <2>1. new \in Fd /\ fds[new].use = "free" /\ new # ctx.listen
    BY <1>1, <1>6, LowestFreeIsFree
  <2> HIDE DEF new
  <2>2. backlog' = Tail(backlog)
    BY <1>6 DEF AcceptFirst
  <2>3. CASE /\ fds' = [fd \in Fd |-> IF fd = ctx.sock THEN FreeFd ELSE table[fd]]
             /\ conns' = [d \in Conn |->
                  IF d = c THEN [conns[d] EXCEPT !.state = "up"]
                  ELSE IF ctx.sock # Invalid /\ d = Current THEN Gone
                  ELSE conns[d]]
             /\ ctx' = [ctx EXCEPT !.sock = new]
             /\ Returns("poll", Accepted) /\ NoFault
    <3>1. /\ fds' \in [Fd -> [use : Uses, conn : Conn \cup {0}]]
          /\ fds'[new].use = "conn" /\ fds'[new].conn = c
          /\ \A fd \in Fd : fd # new => fds'[fd] = fds[fd]
      <4>1. fds' = table
        BY <1>1, <1>2, <2>3
      <4>2. Use("conn", c) \in [use : Uses, conn : Conn \cup {0}]
        BY <1>4 DEF Use, Uses
      <4> QED
        BY <1>1, <2>1, <4>1, <4>2 DEF Use
    <3>2. /\ conns' \in [Conn -> Connection]
          /\ conns'[c].state = "up" /\ conns'[c].read = 0
          /\ \A d \in Conn : d # c => conns'[d] = conns[d]
      <4>1. conns' = [d \in Conn |-> IF d = c THEN [conns[d] EXCEPT !.state = "up"] ELSE conns[d]]
        BY <1>2, <2>3
      <4>2. c \in Conn /\ conns \in [Conn -> Connection]
        BY <1>1, <1>4
      <4>3. /\ [conns[c] EXCEPT !.state = "up"] \in Connection
            /\ [conns[c] EXCEPT !.state = "up"].state = "up"
            /\ [conns[c] EXCEPT !.state = "up"].read = conns[c].read
        BY <4>2 DEF Connection, ConnStates
      <4>4. conns[c].read = 0
        BY <1>4
      <4> QED
        BY <4>1, <4>2, <4>3, <4>4
    <3>3. /\ ctx' \in [sock : Fd \cup {Invalid}, listen : Fd \cup {Invalid},
                       server : BOOLEAN, nonblock : BOOLEAN]
          /\ ctx'.sock = new /\ ctx'.listen = ctx.listen /\ ctx'.server
      <4>1. /\ ctx \in [sock : Fd \cup {Invalid}, listen : Fd \cup {Invalid},
                        server : BOOLEAN, nonblock : BOOLEAN]
            /\ ctx.server
        BY <1>1 DEF IInv, TypeOK
      <4>2. ctx' = [ctx EXCEPT !.sock = new] /\ new \in Fd
        BY <2>1, <2>3
      <4> QED
        BY <4>1, <4>2
    <3>4. TableInv'
      BY <1>1, <1>4, <2>1, <3>1, <3>2 DEF IInv, TableInv
    <3>5. ObjectInv'
      <4>1. Library = {ctx.listen}
        BY <1>2, <1>1 DEF IInv, ObjectInv, Held
      <4>2. Library' = {ctx.listen, new}
        BY <1>1, <2>1, <3>1, <4>1 DEF Library
      <4>3. Held(ctx)' = {ctx.listen, new}
        BY <1>1, <2>1, <3>3 DEF Held
      <4> QED
        BY <1>1, <1>3, <2>1, <3>1, <3>3, <4>2, <4>3 DEF ObjectInv
    <3>6. BacklogInv' /\ backlog' \in Seq(Conn)
      <4>1. UsedFor("listen")' # {}
        BY <1>1, <2>1, <3>1 DEF UsedFor
      <4> QED
        BY <1>1, <2>2, <3>2, <4>1, QueueAdvances DEF c
    <3>7. UnreadInv'
      BY <3>2 DEF IInv, UnreadInv
    <3>8. StreamInv'
      <4>1. Current' = c
        BY <3>1, <3>3 DEF Current
      <4>2. got' = [i \in 1 .. conns'[c].read |-> <<c, i>>]
        BY <1>3, <3>2
      <4> QED
        BY <2>1, <1>1, <3>3, <4>1, <4>2 DEF StreamInv
    <3>9. PoppedIsOneStream'
      BY <1>3 DEF PoppedIsOneStream
    <3>10. result' \in Outcome
           /\ ReadyMeansPopReturns'
      BY <2>3, ResultTyped, Codes DEF Returns, Accepted, ReadyMeansPopReturns
    <3>11. TypeOK'
      BY <2>3, <3>1, <3>2, <3>3, <3>6, <3>10 DEF IInv, TypeOK, SocketsTypeOK, Connection, NoFault
    <3>12. LeavesForeign
      BY <2>1, <3>1 DEF LeavesForeign, UsedFor
    <3> QED
      BY <3>12, <3>4, <3>5, <3>6, <3>7, <3>8, <3>9, <3>10, <3>11 DEF IInv
  <2>4. CASE /\ ctx.nonblock /\ Fault
             /\ conns' = [conns EXCEPT ![c] = Gone]
             /\ Returns("poll", ErrIo) /\ UNCHANGED <<fds, ctx>>
    <3>1. Gone \in Connection /\ Gone.state = "gone"
      BY GoneIsConnection
    <3>2. /\ conns' \in [Conn -> Connection] /\ conns'[c] = Gone
          /\ \A d \in Conn : d # c => conns'[d] = conns[d]
      BY <1>1, <1>4, <2>4, <3>1
    <3>3. TableInv' /\ ObjectInv' /\ StreamInv' /\ PoppedIsOneStream'
      BY <1>4, <2>4, <3>2, ConnsStep
    <3>4. BacklogInv' /\ backlog' \in Seq(Conn)
      <4>1. UsedFor("listen")' # {}
        BY <1>1, <2>4 DEF UsedFor
      <4> QED
        BY <1>1, <2>2, <3>2, <4>1, QueueAdvances DEF c
    <3>5. UnreadInv'
      BY <3>1, <3>2 DEF IInv, UnreadInv
    <3>6. result' \in Outcome
          /\ ReadyMeansPopReturns'
      BY <2>4, ResultTyped, Codes DEF Returns, ErrIo, ReadyMeansPopReturns
    <3>7. faults' \in 0 .. MaxFaults
      BY <2>4, TcpIoAssumption DEF Fault, IInv, TypeOK
    <3>8. TypeOK'
      BY <2>4, <3>2, <3>4, <3>6, <3>7 DEF IInv, TypeOK, SocketsTypeOK, Connection
    <3>9. LeavesForeign
      BY <2>4 DEF LeavesForeign, UsedFor
    <3> QED
      BY <3>3, <3>4, <3>5, <3>6, <3>8, <3>9 DEF IInv
  <2> QED
    BY <1>6, <2>3, <2>4 DEF AcceptFirst, c, new
<1> QED
  BY <1>5, <1>6

LEMMA PollKeeps ==
  ASSUME IInv, Poll
  PROVE  IInv' /\ LeavesForeign
<1>1. UNCHANGED <<kind, created, got>> /\ created
  BY DEF Poll
<1>2. CASE Target = Invalid \/ ~Readable(Target)
  <2>1. UNCHANGED <<sockVars, ctx, faults>> /\ (Returns("poll", ErrClosed) \/ Returns("poll", 0))
    BY <1>2 DEF Poll, NoFault
  <2>2. faults' \in 0 .. MaxFaults /\ UNCHANGED <<sockVars, kind, ctx, created, got>>
    BY <1>1, <2>1 DEF IInv, TypeOK
  <2>3. CASE Returns("poll", ErrClosed)
    BY <2>2, <2>3, PollOnly DEF ErrClosed
  <2>4. CASE Returns("poll", 0)
    BY <2>2, <2>4, PollOnly
  <2> QED
    BY <2>1, <2>3, <2>4
<1>3. CASE Target # Invalid /\ Readable(Target)
  <2>1. CASE ctx.server /\ Target = ctx.listen /\ AcceptFirst
    BY <1>1, <1>3, <2>1, AcceptKeeps
  <2>2. CASE ~(ctx.server /\ Target = ctx.listen) /\ Returns("poll", 1)
               /\ UNCHANGED <<sockVars, ctx>> /\ NoFault
    <3>1. Target = ctx.sock
      BY <2>2 DEF Target
    <3>2. faults' \in 0 .. MaxFaults
      BY <2>2 DEF NoFault, IInv, TypeOK
    <3> QED
      BY <1>1, <1>3, <2>2, <3>1, <3>2, PollOnly
  <2>3. CASE Returns("poll", -1) /\ UNCHANGED <<sockVars, ctx>> /\ Fault
    <3>1. faults' \in 0 .. MaxFaults
      BY <2>3, TcpIoAssumption DEF Fault, IInv, TypeOK
    <3> QED
      BY <1>1, <2>3, <3>1, PollOnly
  <2> QED
    BY <1>3, <2>1, <2>2, <2>3 DEF Poll
<1> QED
  BY <1>2, <1>3

-----------------------------------------------------------------------------
(* smls_io_destroy.                                                        *)

LEMMA DestroyKeeps ==
  ASSUME IInv, Destroy
  PROVE  IInv' /\ LeavesForeign
<1>1. /\ created /\ ctx' = ResetCtx /\ kind' = "none" /\ Returns("destroy", 0)
      /\ UNCHANGED <<created, got, faults>> /\ Close(fds, Held(ctx))
  BY DEF Destroy
<1>2. /\ fds \in [Fd -> [use : Uses, conn : Conn \cup {0}]]
      /\ conns \in [Conn -> Connection] /\ backlog \in Seq(Conn) /\ Library = Held(ctx)
  BY <1>1 DEF IInv, ObjectInv, TypeOK, SocketsTypeOK, Connection
<1>3. /\ fds' \in [Fd -> [use : Uses, conn : Conn \cup {0}]]
      /\ \A fd \in Fd : fds'[fd].use \in {"free", "foreign"} /\ fds'[fd].conn = 0
      /\ LeavesForeign
  <2>1. fds' = [fd \in Fd |-> IF fd \in Library THEN FreeFd ELSE fds[fd]]
    BY <1>1, <1>2 DEF Close
  <2>2. FreeFd \in [use : Uses, conn : Conn \cup {0}] /\ FreeFd.use = "free" /\ FreeFd.conn = 0
    BY DEF FreeFd, Use, Uses
  <2>3. \A fd \in Fd : fd \notin Library =>
          fds[fd].use \in {"free", "foreign"} /\ fds[fd].conn = 0
    BY DEF Library, IInv, TableInv
  <2>4. LeavesForeign
    BY <2>1, <2>2 DEF LeavesForeign, UsedFor, Library
  <2> QED
    BY <1>2, <2>1, <2>2, <2>3, <2>4
<1>4. /\ conns' \in [Conn -> Connection]
      /\ \A c \in Conn : conns'[c] = Gone \/ conns'[c] = conns[c]
  BY <1>1, <1>2, GoneIsConnection DEF Close
<1>5. backlog' = <<>>
  <2>1. CASE \E fd \in Held(ctx) : fds[fd].use = "listen"
    BY <1>1, <2>1 DEF Close
  <2>2. CASE ~ \E fd \in Held(ctx) : fds[fd].use = "listen"
    <3>1. UsedFor("listen") = {}
      BY <1>2, <2>2 DEF UsedFor, Library
    <3> QED
      BY <1>1, <2>2, <3>1 DEF Close, IInv, BacklogInv
  <2> QED
    BY <2>1, <2>2
<1>6. ctx'.sock = Invalid /\ ctx'.listen = Invalid
      /\ ctx' \in [sock : Fd \cup {Invalid}, listen : Fd \cup {Invalid},
                   server : BOOLEAN, nonblock : BOOLEAN]
  BY <1>1 DEF ResetCtx, Ctx
<1>7. TableInv'
  BY <1>3 DEF TableInv
<1>8. ObjectInv'
  <2>1. Library' = {} /\ Held(ctx)' = {}
    BY <1>3, <1>6 DEF Library, Held
  <2> QED
    BY <1>1, <1>6, <2>1 DEF ObjectInv
<1>9. BacklogInv'
  BY <1>5 DEF BacklogInv
<1>10. UnreadInv'
  BY <1>4, GoneIsConnection DEF IInv, UnreadInv
<1>11. StreamInv' /\ PoppedIsOneStream'
  BY <1>1, <1>6 DEF StreamInv, IInv, PoppedIsOneStream
<1>12. result' \in Outcome
       /\ ReadyMeansPopReturns'
  BY <1>1, ResultTyped, Codes DEF Returns, ReadyMeansPopReturns
<1>13. TypeOK'
  BY <1>1, <1>3, <1>4, <1>5, <1>6, <1>12 DEF IInv, TypeOK, SocketsTypeOK, Connection
<1> QED
  BY <1>3, <1>7, <1>8, <1>9, <1>10, <1>11, <1>12, <1>13 DEF IInv

-----------------------------------------------------------------------------
(* smls_io_create.                                                         *)

\* An object that is not open has nothing in the table, and nobody waits.
LEMMA NothingOpen ==
  ASSUME IInv, kind = "none"
  PROVE  Library = {} /\ UsedFor("listen") = {} /\ backlog = <<>>
<1>1. Library = {}
  BY DEF IInv, TypeOK, ObjectInv, Held
<1>2. UsedFor("listen") = {}
  BY <1>1 DEF Library, UsedFor
<1> QED
  BY <1>1, <1>2 DEF IInv, BacklogInv

\* A create that fails closes what it opened and leaves a closed object.
LEMMA OpenFailsKeeps ==
  ASSUME IInv, kind = "none", NEW S \in SUBSET UsedFor("free"), NEW x, Held(x) = S,
         NEW table, table = [fd \in Fd |-> IF fd \in S THEN Use("socket", 0) ELSE fds[fd]],
         OpenFails(x, table), created' = TRUE, got' = <<>>, faults' \in 0 .. MaxFaults
  PROVE  IInv' /\ LeavesForeign
<1>1. /\ Close(table, S) /\ ctx' = ResetCtx /\ kind' = "none" /\ Returns("create", ErrIo)
  BY DEF OpenFails
<1>2. UNCHANGED <<fds, conns, backlog>>
  BY <1>1, CloseOfUnused DEF IInv, sockVars
<1>3. ctx'.sock = Invalid /\ ctx'.listen = Invalid
      /\ ctx' \in [sock : Fd \cup {Invalid}, listen : Fd \cup {Invalid},
                   server : BOOLEAN, nonblock : BOOLEAN]
  BY <1>1 DEF ResetCtx, Ctx
<1>4. TableInv' /\ BacklogInv' /\ UnreadInv'
  BY <1>2 DEF IInv, TableInv, BacklogInv, UnreadInv, UsedFor
<1>5. ObjectInv'
  <2>1. Library' = {} /\ Held(ctx)' = {}
    BY <1>2, <1>3, NothingOpen DEF Library, Held
  <2> QED
    BY <1>1, <1>3, <2>1 DEF ObjectInv
<1>6. StreamInv' /\ PoppedIsOneStream'
  BY <1>1, <1>3 DEF StreamInv, PoppedIsOneStream
<1>7. result' \in Outcome
      /\ ReadyMeansPopReturns'
  BY <1>1, ResultTyped, Codes DEF Returns, ReadyMeansPopReturns
<1>8. TypeOK'
  BY <1>1, <1>2, <1>3, <1>7 DEF IInv, TypeOK, SocketsTypeOK
<1>9. LeavesForeign
  BY <1>2 DEF LeavesForeign, UsedFor
<1> QED
  BY <1>4, <1>5, <1>6, <1>7, <1>8, <1>9 DEF IInv

\* The ways a create can fail: before there is a socket, or with one.
LEMMA CreateFailsKeeps ==
  ASSUME IInv, kind = "none", created' = TRUE, got' = <<>>, Fault \/ NoFault,
         \/ OpenFails(ResetCtx, fds)
         \/ \E nb : /\ LowestFree # Invalid
                    /\ \/ OpenFails(Ctx(Invalid, LowestFree, TRUE, nb),
                                    [fds EXCEPT ![LowestFree] = Use("socket", 0)])
                       \/ OpenFails(Ctx(LowestFree, Invalid, FALSE, nb),
                                    [fds EXCEPT ![LowestFree] = Use("socket", 0)])
  PROVE  IInv' /\ LeavesForeign
<1>1. faults' \in 0 .. MaxFaults
  BY TcpIoAssumption DEF Fault, NoFault, IInv, TypeOK
<1>2. fds = [fd \in Fd |-> fds[fd]]
  BY DEF IInv, TypeOK, SocketsTypeOK
<1>3. CASE OpenFails(ResetCtx, fds)
  <2> DEFINE S == {}
  <2>1. Held(ResetCtx) = S /\ S \in SUBSET UsedFor("free")
    BY DEF Held, ResetCtx, Ctx
  <2>2. fds = [fd \in Fd |-> IF fd \in S THEN Use("socket", 0) ELSE fds[fd]]
    BY <1>2
  <2> HIDE DEF S
  <2> QED
    BY <1>1, <1>3, <2>1, <2>2, OpenFailsKeeps
<1>4. ASSUME NEW x, LowestFree # Invalid, Held(x) = {LowestFree},
             OpenFails(x, [fds EXCEPT ![LowestFree] = Use("socket", 0)])
      PROVE  IInv' /\ LeavesForeign
  <2> DEFINE S == {LowestFree}
             table == [fds EXCEPT ![LowestFree] = Use("socket", 0)]
  <2>1. LowestFree \in Fd /\ S \in SUBSET UsedFor("free")
    BY <1>4, LowestFreeIsFree DEF UsedFor
  <2>2. table = [fd \in Fd |-> IF fd \in S THEN Use("socket", 0) ELSE fds[fd]]
    BY <1>2, <2>1
  <2>3. Held(x) = S /\ OpenFails(x, table)
    BY <1>4
  <2> HIDE DEF S, table
  <2> QED
    BY <1>1, <2>1, <2>2, <2>3, OpenFailsKeeps
<1>5. ASSUME NEW nb, LowestFree # Invalid
      PROVE  /\ Held(Ctx(Invalid, LowestFree, TRUE, nb)) = {LowestFree}
             /\ Held(Ctx(LowestFree, Invalid, FALSE, nb)) = {LowestFree}
  BY <1>5 DEF Held, Ctx
<1> QED
  BY <1>3, <1>4, <1>5

\* smls_io_create of a server: one listening socket, nobody connected.
LEMMA ServerOpensKeeps ==
  ASSUME IInv, kind = "none", NEW nb \in BOOLEAN, LowestFree # Invalid,
         OpenSucceeds(Ctx(Invalid, LowestFree, TRUE, nb),
                      [fds EXCEPT ![LowestFree] = Use("listen", 0)]),
         UNCHANGED <<conns, backlog>>, NoFault, created' = TRUE, got' = <<>>
  PROVE  IInv' /\ LeavesForeign
<1> DEFINE new == LowestFree
<1>1. new \in Fd /\ fds[new].use = "free" /\ new # Invalid
  BY LowestFreeIsFree
<1>2. /\ fds' = [fds EXCEPT ![new] = Use("listen", 0)] /\ kind' = "stream"
      /\ ctx' = Ctx(Invalid, new, TRUE, nb) /\ Returns("create", 0)
  BY DEF OpenSucceeds
<1> HIDE DEF new
<1>3. /\ fds' \in [Fd -> [use : Uses, conn : Conn \cup {0}]]
      /\ fds'[new].use = "listen" /\ fds'[new].conn = 0
      /\ \A fd \in Fd : fd # new => fds'[fd] = fds[fd]
  <2>1. Use("listen", 0) \in [use : Uses, conn : Conn \cup {0}]
    BY DEF Use, Uses
  <2> QED
    BY <1>1, <1>2, <2>1 DEF IInv, TypeOK, SocketsTypeOK, Use
<1>4. /\ ctx' \in [sock : Fd \cup {Invalid}, listen : Fd \cup {Invalid},
                   server : BOOLEAN, nonblock : BOOLEAN]
      /\ ctx'.sock = Invalid /\ ctx'.listen = new /\ ctx'.server
  BY <1>1, <1>2 DEF Ctx
<1>5. TableInv'
  BY <1>1, <1>3 DEF IInv, TableInv
<1>6. ObjectInv'
  <2>1. Library' = {new}
    BY <1>1, <1>3, NothingOpen DEF Library
  <2>2. Held(ctx)' = {new}
    BY <1>1, <1>4 DEF Held
  <2> QED
    BY <1>1, <1>2, <1>3, <1>4, <2>1, <2>2 DEF ObjectInv
<1>7. BacklogInv'
  BY NothingOpen DEF BacklogInv
<1>8. UnreadInv'
  BY DEF IInv, UnreadInv
<1>9. StreamInv' /\ PoppedIsOneStream'
  BY <1>4 DEF StreamInv, PoppedIsOneStream
<1>10. result' \in Outcome
       /\ ReadyMeansPopReturns'
  <2>1. result' = [call |-> "create", ret |-> 0] /\ 0 \in -1 .. 2
    BY <1>2 DEF Returns
  <2> QED
    BY <2>1, ResultTyped, Codes DEF ReadyMeansPopReturns
<1>11. TypeOK'
  <2>1. kind' = "stream" /\ faults' = faults
    BY <1>2 DEF NoFault
  <2>2. SocketsTypeOK'
    BY <1>3 DEF IInv, TypeOK, SocketsTypeOK
  <2> QED
    BY <1>4, <1>10, <2>1, <2>2 DEF IInv, TypeOK
<1>12. LeavesForeign
  BY <1>1, <1>3 DEF LeavesForeign, UsedFor
<1> QED
  BY <1>5, <1>6, <1>7, <1>8, <1>9, <1>10, <1>11, <1>12 DEF IInv

\* smls_io_create of a client: one socket, connected or on the way.
LEMMA ClientOpensKeeps ==
  ASSUME IInv, kind = "none", NEW nb \in BOOLEAN, LowestFree # Invalid,
         NEW c \in Conn, conns[c].state = "idle", NEW s \in {"up", "connecting", "refused"},
         conns' = [conns EXCEPT ![c].state = s],
         OpenSucceeds(Ctx(LowestFree, Invalid, FALSE, nb),
                      [fds EXCEPT ![LowestFree] = Use("conn", c)]),
         UNCHANGED backlog, NoFault, created' = TRUE, got' = <<>>
  PROVE  IInv' /\ LeavesForeign
<1> DEFINE new == LowestFree
<1>1. new \in Fd /\ fds[new].use = "free" /\ new # Invalid
  BY LowestFreeIsFree
<1>2. /\ fds' = [fds EXCEPT ![new] = Use("conn", c)] /\ kind' = "stream"
      /\ ctx' = Ctx(new, Invalid, FALSE, nb) /\ Returns("create", 0)
  BY DEF OpenSucceeds
<1> HIDE DEF new
<1>3. /\ fds' \in [Fd -> [use : Uses, conn : Conn \cup {0}]]
      /\ fds'[new].use = "conn" /\ fds'[new].conn = c
      /\ \A fd \in Fd : fd # new => fds'[fd] = fds[fd]
  <2>1. Use("conn", c) \in [use : Uses, conn : Conn \cup {0}]
    BY DEF Use, Uses
  <2> QED
    BY <1>1, <1>2, <2>1 DEF IInv, TypeOK, SocketsTypeOK, Use
<1>4. /\ ctx' \in [sock : Fd \cup {Invalid}, listen : Fd \cup {Invalid},
                   server : BOOLEAN, nonblock : BOOLEAN]
      /\ ctx'.sock = new /\ ctx'.listen = Invalid /\ ~ctx'.server
  BY <1>1, <1>2 DEF Ctx
<1>5. /\ conns' \in [Conn -> Connection]
      /\ conns'[c].state = s /\ conns'[c].read = 0
      /\ \A d \in Conn : d # c => conns'[d] = conns[d]
  BY DEF IInv, TypeOK, SocketsTypeOK, UnreadInv, Connection, ConnStates
<1>6. \A fd \in Fd : fds[fd].use # "conn"
  BY NothingOpen DEF Library
<1>7. TableInv'
  BY <1>1, <1>3, <1>5, <1>6 DEF IInv, TableInv
<1>8. ObjectInv'
  <2>1. Library' = {new}
    BY <1>1, <1>3, NothingOpen DEF Library
  <2>2. Held(ctx)' = {new}
    BY <1>1, <1>4 DEF Held
  <2> QED
    BY <1>1, <1>2, <1>3, <1>4, <2>1, <2>2 DEF ObjectInv
<1>9. BacklogInv'
  BY NothingOpen DEF BacklogInv
<1>10. UnreadInv'
  BY <1>5 DEF IInv, UnreadInv
<1>11. StreamInv' /\ PoppedIsOneStream'
  <2>1. Current' = c
    BY <1>3, <1>4 DEF Current
  <2>2. got' = [i \in 1 .. conns'[c].read |-> <<c, i>>]
    BY <1>5
  <2> QED
    BY <1>1, <1>4, <2>1, <2>2 DEF StreamInv, PoppedIsOneStream
<1>12. result' \in Outcome
       /\ ReadyMeansPopReturns'
  <2>1. result' = [call |-> "create", ret |-> 0] /\ 0 \in -1 .. 2
    BY <1>2 DEF Returns
  <2> QED
    BY <2>1, ResultTyped, Codes DEF ReadyMeansPopReturns
<1>13. TypeOK'
  <2>1. kind' = "stream" /\ faults' = faults
    BY <1>2 DEF NoFault
  <2>2. SocketsTypeOK'
    BY <1>3, <1>5 DEF IInv, TypeOK, SocketsTypeOK, Connection
  <2> QED
    BY <1>4, <1>12, <2>1, <2>2 DEF IInv, TypeOK
<1>14. LeavesForeign
  BY <1>1, <1>3 DEF LeavesForeign, UsedFor
<1> QED
  BY <1>7, <1>8, <1>9, <1>10, <1>11, <1>12, <1>13, <1>14 DEF IInv

LEMMA CreateKeeps ==
  ASSUME IInv, Create
  PROVE  IInv' /\ LeavesForeign
<1>1. kind = "none" /\ created' = TRUE /\ got' = <<>>
  BY DEF Create
<1>2. CASE CreateBadUri
  BY <1>1, <1>2, CreateFailsKeeps DEF CreateBadUri
<1>3. ASSUME NEW nb \in BOOLEAN, CreateServer(nb)
      PROVE  IInv' /\ LeavesForeign
  <2>1. CASE OpenFails(ResetCtx, fds) /\ NoFault
    BY <1>1, <2>1, CreateFailsKeeps
  <2>2. CASE /\ LowestFree # Invalid /\ (Fault \/ NoFault)
             /\ OpenFails(Ctx(Invalid, LowestFree, TRUE, nb),
                          [fds EXCEPT ![LowestFree] = Use("socket", 0)])
    BY <1>1, <2>2, CreateFailsKeeps
  <2>3. CASE /\ LowestFree # Invalid /\ UNCHANGED <<conns, backlog>> /\ NoFault
             /\ OpenSucceeds(Ctx(Invalid, LowestFree, TRUE, nb),
                             [fds EXCEPT ![LowestFree] = Use("listen", 0)])
    BY <1>1, <2>3, ServerOpensKeeps
  <2> QED
    BY <1>3, <2>1, <2>2, <2>3 DEF CreateServer
<1>4. ASSUME NEW nb \in BOOLEAN, NEW c \in Conn, CreateClient(nb, c)
      PROVE  IInv' /\ LeavesForeign
  <2>1. CASE OpenFails(ResetCtx, fds) /\ NoFault
    BY <1>1, <2>1, CreateFailsKeeps
  <2>2. CASE /\ LowestFree # Invalid /\ (Fault \/ NoFault)
             /\ OpenFails(Ctx(LowestFree, Invalid, FALSE, nb),
                          [fds EXCEPT ![LowestFree] = Use("socket", 0)])
    BY <1>1, <2>2, CreateFailsKeeps
  <2>3. ASSUME LowestFree # Invalid, conns[c].state = "idle",
               NEW s \in {"up", "connecting", "refused"}, conns' = [conns EXCEPT ![c].state = s],
               OpenSucceeds(Ctx(LowestFree, Invalid, FALSE, nb),
                            [fds EXCEPT ![LowestFree] = Use("conn", c)]),
               UNCHANGED backlog, NoFault
        PROVE  IInv' /\ LeavesForeign
    BY <1>1, <2>3, ClientOpensKeeps
  <2> QED
    BY <1>4, <2>1, <2>2, <2>3 DEF CreateClient
<1> QED
  BY <1>2, <1>3, <1>4 DEF Create

-----------------------------------------------------------------------------
(* The theorems.                                                           *)

LEMMA InitIInv == Init => IInv
<1> SUFFICES ASSUME Init
             PROVE  IInv
  OBVIOUS
<1> USE SocketsAssumption, TcpIoAssumption
<1>1. /\ fds \in [Fd -> [use : Uses, conn : Conn \cup {0}]]
      /\ \A fd \in Fd : fds[fd].use \in {"free", "foreign"} /\ fds[fd].conn = 0
  BY DEF Init, SocketsInit, FreeFd, Use, Uses
<1>2. /\ conns \in [Conn -> Connection] /\ backlog = <<>>
      /\ \A c \in Conn : conns[c].read = 0
  BY DEF Init, SocketsInit, NewConn, Connection, ConnStates
<1>3. /\ kind = "none" /\ created = FALSE /\ result = [call |-> "none", ret |-> 0]
      /\ got = <<>> /\ faults = 0
  BY DEF Init
<1>4. ctx \in [sock : Fd \cup {Invalid}, listen : Fd \cup {Invalid},
               server : BOOLEAN, nonblock : BOOLEAN]
  BY DEF Init, Ctx
<1>5. TypeOK
  <2>1. result \in Outcome
    BY <1>3 DEF Outcome
  <2>2. SocketsTypeOK
    BY <1>1, <1>2 DEF SocketsTypeOK, Connection
  <2>3. got \in Seq(Conn \X (1 .. MaxBytes)) /\ faults \in 0 .. MaxFaults
    BY <1>3
  <2> QED
    BY <1>3, <1>4, <2>1, <2>2, <2>3 DEF TypeOK
<1>6. TableInv /\ BacklogInv /\ UnreadInv
  BY <1>1, <1>2 DEF TableInv, BacklogInv, UnreadInv
<1>7. ObjectInv
  BY <1>1, <1>3 DEF ObjectInv, Library
<1>8. StreamInv
  BY <1>3 DEF StreamInv
<1>9. PoppedIsOneStream
  BY <1>3 DEF PoppedIsOneStream
<1>10. ReadyMeansPopReturns
  BY <1>3 DEF ReadyMeansPopReturns
<1> QED
  BY <1>5, <1>6, <1>7, <1>8, <1>9, <1>10 DEF IInv

LEMMA NextKeepsIInv == IInv /\ [Next]_vars => IInv'
<1> SUFFICES ASSUME IInv, [Next]_vars
             PROVE  IInv'
  OBVIOUS
<1>1. CASE Create
  BY <1>1, CreateKeeps
<1>2. CASE Destroy
  BY <1>2, DestroyKeeps
<1>3. CASE Push
  BY <1>3, PushKeeps
<1>4. CASE Pop
  BY <1>4, PopKeeps
<1>5. CASE Poll
  BY <1>5, PollKeeps
<1>6. CASE World /\ UNCHANGED <<kind, ctx, created, result, got, faults>>
  BY <1>6, WorldKeeps
<1>7. CASE UNCHANGED vars
  <2>1. UNCHANGED <<fds, conns, backlog, kind, ctx, created, result, got, faults>>
    BY <1>7 DEF vars, sockVars
  <2>2. TypeOK'
    BY <2>1 DEF IInv, TypeOK, SocketsTypeOK
  <2>3. TableInv' /\ ObjectInv' /\ StreamInv' /\ PoppedIsOneStream'
    BY <2>1, ConnsStep
  <2>4. BacklogInv' /\ UnreadInv'
    BY <2>1 DEF IInv, BacklogInv, UsedFor, UnreadInv
  <2>5. ReadyMeansPopReturns'
    BY <2>1, ReadyStays
  <2> QED
    BY <2>2, <2>3, <2>4, <2>5 DEF IInv
<1> QED
  BY <1>1, <1>2, <1>3, <1>4, <1>5, <1>6, <1>7 DEF Next

\* The invariant that carries the four theorems below.
LEMMA Invariance == Spec => []IInv
  BY InitIInv, NextKeepsIInv, PTL DEF Spec

\* Every field keeps the range the C types and the codes of the calls allow.
THEOREM TypeCorrect == Spec => []TypeOK
<1>1. IInv => TypeOK
  BY DEF IInv
<1> QED
  BY <1>1, Invariance, PTL

\* smls_io_create, smls_io_poll and smls_io_destroy neither leak a descriptor
\* nor keep a number they gave back, on any path.
THEOREM OwnsItsSockets == Spec => []HoldsItsSockets
<1>1. IInv => HoldsItsSockets
  BY DEF IInv, TypeOK, ObjectInv, Library, HoldsItsSockets, Held
<1> QED
  BY <1>1, Invariance, PTL

\* smls_io_pop hands out the bytes of one peer from the first one on.
THEOREM PopsOneStream == Spec => []PoppedIsOneStream
<1>1. IInv => PoppedIsOneStream
  BY DEF IInv
<1> QED
  BY <1>1, Invariance, PTL

\* After smls_io_poll returned 1 there is something for smls_io_pop to return.
THEOREM ReadyIsReady == Spec => []ReadyMeansPopReturns
<1>1. IInv => ReadyMeansPopReturns
  BY DEF IInv
<1> QED
  BY <1>1, Invariance, PTL

\* No call closes a descriptor somebody else got, also not one whose number
\* the object had before.
THEOREM LeavesOthersAlone == Spec => ForeignStaysOpen
<1>1. IInv /\ [Next]_vars =>
        [Create \/ Destroy \/ Push \/ Pop \/ Poll
           => \A fd \in UsedFor("foreign") : fds'[fd].use = "foreign"]_vars
  BY CreateKeeps, DestroyKeeps, PushKeeps, PopKeeps, PollKeeps DEF LeavesForeign
<1> QED
  BY <1>1, Invariance, PTL DEF Spec, ForeignStaysOpen

=============================================================================
