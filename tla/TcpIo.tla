------------------------------- MODULE TcpIo -------------------------------
(***************************************************************************)
(* One smls_io_t object over the TCP backend: smls_io.c and smls_io_tcp.c  *)
(* on the POSIX port. The caller passes pointers that are not NULL and     *)
(* packets that are not empty, creates the object before it uses it, and   *)
(* destroys it before it creates it again.                                 *)
(***************************************************************************)
EXTENDS Sockets

CONSTANTS
  Roles,         \* which URIs the caller opens: subset of {"server", "client"}
  MaxFaults      \* bound: operating system calls that fail for no visible reason

ASSUME TcpIoAssumption ==
  Roles \subseteq {"server", "client"} /\ MaxFaults \in Nat

VARIABLES
  kind,          \* io->kind
  ctx,           \* smls_io_tcp_ctx_t
  created,       \* smls_io_create was called at least once
  result,        \* the last call and what it returned
  got,           \* the bytes popped since the last create, <<connection, index>>
  faults

vars == <<sockVars, kind, ctx, created, result, got, faults>>

ErrIo == -5
ErrClosed == -6

Ctx(sock, listen, server, nb) ==
  [sock |-> sock, listen |-> listen, server |-> server, nonblock |-> nb]

\* smls_tcp_ctx_reset
ResetCtx == Ctx(Invalid, Invalid, FALSE, FALSE)

\* The sockets an object holds.
Held(x) == {x.sock, x.listen} \ {Invalid}

\* The connection on ctx->sock.
Current == fds[ctx.sock].conn

\* The caller gives the object as zeroed memory: sock is 0, not Invalid.
Init ==
  /\ SocketsInit
  /\ kind = "none" /\ ctx = Ctx(0, 0, FALSE, FALSE) /\ created = FALSE
  /\ result = [call |-> "none", ret |-> 0] /\ got = <<>> /\ faults = 0

-----------------------------------------------------------------------------

\* A send to a connection that was reset raises SIGPIPE: the process ends.
Alive == result.call # "SIGPIPE"

Returns(call, ret) == result' = [call |-> call, ret |-> ret]

Fault == faults < MaxFaults /\ faults' = faults + 1
NoFault == UNCHANGED faults

\* The end of smls_io_tcp_open when it succeeds, with the table as it is then.
OpenSucceeds(x, table) ==
  /\ fds' = table /\ ctx' = x /\ kind' = "stream" /\ Returns("create", 0)

\* Faulty variant: only sock is closed.
OpenFailsKeepsListen(x, table) ==
  /\ Close(table, {x.sock} \ {Invalid})
  /\ ctx' = ResetCtx /\ kind' = "none" /\ Returns("create", ErrIo)

\* The label fail of smls_io_tcp_open.
OpenFails(x, table) ==
  /\ Close(table, Held(x))
  /\ ctx' = ResetCtx /\ kind' = "none" /\ Returns("create", ErrIo)

\* parse_url or make_ipv4_addr rejects the URI: no socket yet.
CreateBadUri == OpenFails(ResetCtx, fds) /\ NoFault

\* The server branch: socket, bind, listen, set_nonblock. bind fails while
\* another socket listens on the port; any of the later calls may fail.
CreateServer(nb) ==
  \/ LowestFree = Invalid /\ OpenFails(ResetCtx, fds) /\ NoFault
  \/ LET x == Ctx(Invalid, LowestFree, TRUE, nb)
     IN /\ LowestFree # Invalid
        /\ \/ /\ IF UsedFor("listen") # {} THEN NoFault ELSE Fault
              /\ OpenFails(x, [fds EXCEPT ![LowestFree] = Use("socket", 0)])
           \/ /\ UsedFor("listen") = {}
              /\ OpenSucceeds(x, [fds EXCEPT ![LowestFree] = Use("listen", 0)])
              /\ UNCHANGED <<conns, backlog>> /\ NoFault

\* The client branch: socket, set_nonblock, connect. A refused connect is
\* fatal on a blocking socket only; a nonblocking one takes every error for a
\* connect in progress.
CreateClient(nb, c) ==
  \/ LowestFree = Invalid /\ OpenFails(ResetCtx, fds) /\ NoFault
  \/ LET x == Ctx(LowestFree, Invalid, FALSE, nb)
     IN /\ LowestFree # Invalid
        /\ \/ /\ IF nb THEN Fault ELSE NoFault
              /\ OpenFails(x, [fds EXCEPT ![LowestFree] = Use("socket", 0)])
           \/ /\ conns[c].state = "idle"
              /\ \E s \in IF nb THEN {"up", "connecting", "refused"} ELSE {"up"} :
                   conns' = [conns EXCEPT ![c].state = s]
              /\ OpenSucceeds(x, [fds EXCEPT ![LowestFree] = Use("conn", c)])
              /\ UNCHANGED backlog /\ NoFault

\* smls_io_create: the context is reset before anything else, so what it
\* held before would be forgotten, not closed.
Create ==
  /\ Alive /\ kind = "none"
  /\ \/ CreateBadUri
     \/ "server" \in Roles /\ \E nb \in BOOLEAN : CreateServer(nb)
     \/ "client" \in Roles /\ \E nb \in BOOLEAN, c \in Conn : CreateClient(nb, c)
  /\ created' = TRUE /\ got' = <<>>

\* Faulty variant: the number of the listening socket survives its close.
DestroyKeepsListen ==
  /\ Alive /\ created
  /\ Close(fds, Held(ctx))
  /\ ctx' = [ResetCtx EXCEPT !.listen = ctx.listen] /\ kind' = "none" /\ Returns("destroy", 0)
  /\ UNCHANGED <<created, got, faults>>

\* smls_io_destroy, smls_io_tcp_close
Destroy ==
  /\ Alive /\ created
  /\ Close(fds, Held(ctx))
  /\ ctx' = ResetCtx /\ kind' = "none" /\ Returns("destroy", 0)
  /\ UNCHANGED <<created, got, faults>>

\* smls_io_push, smls_io_tcp_push: whatever send() returns. A peer that has
\* closed answers the first send with a reset.
Push ==
  /\ Alive /\ created
  /\ IF ctx.sock = Invalid
     THEN Returns("push", ErrClosed) /\ UNCHANGED conns
     ELSE LET c == conns[Current]
              answered == conns' = [conns EXCEPT ![Current].rst = c.eof \/ c.state = "refused"]
          IN \/ c.state = "up" /\ ~c.rst /\ Returns("push", 1) /\ answered
             \/ c.state = "refused" /\ ~c.rst /\ Returns("push", -1) /\ answered
             \/ /\ c.state = "connecting" \/ (c.state = "up" /\ ~c.rst)
                /\ ctx.nonblock /\ Returns("push", -1) /\ UNCHANGED conns
             \/ c.rst /\ Returns("SIGPIPE", 0) /\ UNCHANGED conns
  /\ UNCHANGED <<fds, backlog, kind, ctx, created, got, faults>>

\* Faulty variant: the size of the caller's buffer for the number of bytes.
ReceivedAsAsked(n) == n \in 1 .. MaxBytes /\ conns[Current].state = "up"

\* What recv() may give the caller: some of the bytes that have arrived, 0 at
\* the end of the stream, -1 for an error and for "nothing yet".
Received(n) ==
  LET c == conns[Current]
  IN \/ n > 0 /\ c.state = "up" /\ n <= c.sent - c.read
     \/ n = 0 /\ ((c.state = "up" /\ c.eof /\ c.read = c.sent) \/ c.state = "refused")
     \/ /\ n = -1
        /\ \/ c.rst \/ c.state = "refused"
           \/ ctx.nonblock /\ c.state \in {"up", "connecting"} /\ c.read = c.sent /\ ~c.eof

\* smls_io_pop, smls_io_tcp_pop
Pop ==
  /\ Alive /\ created
  /\ IF ctx.sock = Invalid
     THEN Returns("pop", ErrClosed) /\ UNCHANGED <<conns, got>>
     ELSE \E n \in -1 .. MaxBytes :
            /\ Received(n) /\ Returns("pop", n)
            /\ IF n <= 0 THEN UNCHANGED <<conns, got>>
               ELSE /\ conns' = [conns EXCEPT ![Current].read = @ + n]
                    /\ got' = got \o [i \in 1 .. n |-> <<Current, conns[Current].read + i>>]
  /\ UNCHANGED <<fds, backlog, kind, ctx, created, faults>>

\* Faulty variants: a server always, or never, looks at its listening socket.
TargetAlwaysListen == IF ctx.server THEN ctx.listen ELSE ctx.sock
TargetNeverListen == ctx.sock

\* target of smls_io_tcp_poll
Target == IF ctx.server /\ ctx.sock = Invalid THEN ctx.listen ELSE ctx.sock

\* Faulty variant: an accept reported as readiness.
AcceptedIsReady == 1

\* What smls_io_tcp_poll returns after an accept.
Accepted == 2

\* The branch "first accept" of smls_io_tcp_poll. set_nonblock may fail: the
\* connection is closed again.
AcceptFirst ==
  IF LowestFree = Invalid
  THEN Returns("poll", ErrIo) /\ UNCHANGED <<fds, conns, backlog, ctx>> /\ NoFault
  ELSE LET c == Head(backlog)
           table == [fds EXCEPT ![LowestFree] = Use("conn", c)]
       IN /\ backlog' = Tail(backlog)
          /\ \/ /\ fds' = [fd \in Fd |-> IF fd = ctx.sock THEN FreeFd ELSE table[fd]]
                /\ conns' = [d \in Conn |->
                     IF d = c THEN [conns[d] EXCEPT !.state = "up"]
                     ELSE IF ctx.sock # Invalid /\ d = Current THEN Gone
                     ELSE conns[d]]
                /\ ctx' = [ctx EXCEPT !.sock = LowestFree]
                /\ Returns("poll", Accepted) /\ NoFault
             \/ /\ ctx.nonblock /\ Fault
                /\ conns' = [conns EXCEPT ![c] = Gone]
                /\ Returns("poll", ErrIo) /\ UNCHANGED <<fds, ctx>>

\* smls_io_poll, smls_io_tcp_poll. The timeout ends the wait only while there
\* is nothing to read.
Poll ==
  /\ Alive /\ created
  /\ CASE Target = Invalid ->
            Returns("poll", ErrClosed) /\ UNCHANGED <<sockVars, ctx>> /\ NoFault
       [] Target # Invalid /\ ~Readable(Target) ->
            Returns("poll", 0) /\ UNCHANGED <<sockVars, ctx>> /\ NoFault
       [] Target # Invalid /\ Readable(Target) ->
            \/ ctx.server /\ Target = ctx.listen /\ AcceptFirst
            \/ ~(ctx.server /\ Target = ctx.listen) /\ Returns("poll", 1)
                 /\ UNCHANGED <<sockVars, ctx>> /\ NoFault
            \/ Returns("poll", -1) /\ UNCHANGED <<sockVars, ctx>> /\ Fault
  /\ UNCHANGED <<kind, created, got>>

Next ==
  \/ Create \/ Destroy \/ Push \/ Pop \/ Poll
  \/ Alive /\ World /\ UNCHANGED <<kind, ctx, created, result, got, faults>>

Spec == Init /\ [][Next]_vars

\* The caller polls in a loop, as wait_until_ready of smls_io_tcp_test.c.
PollingSpec == Spec /\ WF_vars(Poll)

-----------------------------------------------------------------------------

\* What a call may return: a number of bytes, a readiness code or a status.
Outcome ==
  [call : {"none", "create", "destroy", "push", "pop", "poll", "SIGPIPE"},
   ret : {ErrClosed, ErrIo} \cup -1 .. (2 + MaxBytes)]

TypeOK ==
  /\ SocketsTypeOK
  /\ kind \in {"none", "stream"}
  /\ ctx \in [sock : Fd \cup {Invalid}, listen : Fd \cup {Invalid},
              server : BOOLEAN, nonblock : BOOLEAN]
  /\ created \in BOOLEAN
  /\ result \in Outcome
  /\ got \in Seq(Conn \X (1 .. MaxBytes))
  /\ faults \in 0 .. MaxFaults

\* The object holds exactly the library's descriptors: none is forgotten on a
\* failing path or by an accept, and none it holds has been closed under it.
\* The kind tells whether there are any.
HoldsItsSockets ==
  created =>
    /\ {fd \in Fd : fds[fd].use \notin {"free", "foreign"}} = Held(ctx)
    /\ (kind = "stream") <=> (Held(ctx) # {})

\* No call of the library closes a descriptor that belongs to somebody else,
\* in particular not one that got the number of a socket it closed before.
ForeignStaysOpen ==
  [][Create \/ Destroy \/ Push \/ Pop \/ Poll
       => \A fd \in UsedFor("foreign") : fds'[fd].use = "foreign"]_vars

\* What the caller pops between two creates is the stream of one peer from
\* its first byte on: nothing is lost, repeated or mixed with another peer.
PoppedIsOneStream == \A i \in 1 .. Len(got) : got[i] = <<got[1][1], i>>

\* After poll returned 1 a pop does not block, in blocking mode either: there
\* is data, the end of the stream or an error to report: a nonblocking connect that
\* was refused is "ready" too.
ReadyMeansPopReturns ==
  result = [call |-> "poll", ret |-> 1] => ctx.sock # Invalid /\ Readable(ctx.sock)

\* A peer in the queue of a server that has no connection is not left there by
\* a caller who polls, whatever is sent, closed or fails meanwhile, as long as
\* the process has a descriptor for it.
WaitingPeerIsAccepted ==
  \A c \in Conn :
    conns[c].state = "waiting" /\ kind = "stream" /\ ctx.sock = Invalid
      ~> conns[c].state # "waiting" \/ ctx.sock # Invalid \/ LowestFree = Invalid

\* "Number of bytes or status code" (smls_io.h): smls_io_push returns.
PushReturns == Alive

=============================================================================
