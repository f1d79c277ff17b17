------------------------------ MODULE Sockets ------------------------------
(***************************************************************************)
(* The operating system's sockets and the world behind them, as far as     *)
(* smls_io_tcp.c and the POSIX port use them: the descriptor table of the  *)
(* process, the TCP connections, the listen queue. None of it is code of   *)
(* the repository. Descriptors the program opens elsewhere (standard input,*)
(* files, other IO objects) are "foreign"; they compete for the numbers,   *)
(* and a number that is closed is handed out again.                        *)
(***************************************************************************)
EXTENDS Integers, Sequences, FiniteSets

CONSTANTS
  Fd,            \* the numbers of the descriptor table
  Conn,          \* names of TCP connections, each used once
  MaxBytes,      \* bound: bytes the peer of a connection sends
  MaxForeign,    \* bound: foreign descriptors open at a time
  BacklogMax     \* the length given to smls_listen

ASSUME SocketsAssumption ==
  /\ IsFiniteSet(Fd) /\ Fd \subseteq Nat /\ 0 \in Fd
  /\ IsFiniteSet(Conn) /\ Conn \subseteq Nat \ {0}
  /\ MaxBytes \in Nat /\ MaxForeign \in Nat /\ BacklogMax \in Nat

VARIABLES
  fds,           \* the descriptor table
  conns,         \* the connections
  backlog        \* connections that wait to be accepted, oldest first

sockVars == <<fds, conns, backlog>>

Invalid == -1    \* SMLS_SOCKET_INVALID

Uses == {"free", "foreign", "socket", "listen", "conn"}
Use(use, c) == [use |-> use, conn |-> c]
FreeFd == Use("free", 0)

ConnStates == {"idle", "waiting", "connecting", "up", "refused", "gone"}
NewConn == [state |-> "idle", sent |-> 0, read |-> 0, eof |-> FALSE, rst |-> FALSE]

\* A connection the process has closed; what had arrived on it is lost.
Gone == [NewConn EXCEPT !.state = "gone"]

SocketsInit ==
  /\ fds = [fd \in Fd |-> IF fd = 0 THEN Use("foreign", 0) ELSE FreeFd]
  /\ conns = [c \in Conn |-> NewConn]
  /\ backlog = <<>>

SocketsTypeOK ==
  /\ fds \in [Fd -> [use : Uses, conn : Conn \cup {0}]]
  /\ conns \in [Conn -> [state : ConnStates, sent : 0 .. MaxBytes,
                         read : 0 .. MaxBytes, eof : BOOLEAN, rst : BOOLEAN]]
  /\ backlog \in Seq(Conn)

-----------------------------------------------------------------------------
(* What the calls of the port find and do.                                 *)

UsedFor(use) == {fd \in Fd : fds[fd].use = use}

\* socket() and accept() take the lowest free number.
LowestFree ==
  IF UsedFor("free") = {} THEN Invalid
  ELSE CHOOSE fd \in UsedFor("free") : \A g \in UsedFor("free") : fd <= g

\* close() of every descriptor of S in table: a connection ends with its
\* descriptor, the peers in the queue with the listening one.
Close(table, S) ==
  LET listening == \E fd \in S : table[fd].use = "listen"
      ended == {table[fd].conn : fd \in S}
                 \cup (IF listening THEN {backlog[i] : i \in DOMAIN backlog} ELSE {})
  IN /\ fds' = [fd \in Fd |-> IF fd \in S THEN FreeFd ELSE table[fd]]
     /\ conns' = [c \in Conn |-> IF c \in ended THEN Gone ELSE conns[c]]
     /\ backlog' = IF listening THEN <<>> ELSE backlog

\* select() on one descriptor, for reading only.
Readable(fd) ==
  CASE fds[fd].use = "listen" -> backlog # <<>>
    [] fds[fd].use = "conn" ->
         LET c == conns[fds[fd].conn]
         IN \/ c.state = "up" /\ (c.read < c.sent \/ c.eof)
            \/ c.state = "refused"
    [] OTHER -> FALSE

-----------------------------------------------------------------------------
(* The world's own steps.                                                  *)

PeerConnects(c) ==
  /\ conns[c].state = "idle" /\ UsedFor("listen") # {} /\ Len(backlog) < BacklogMax
  /\ conns' = [conns EXCEPT ![c].state = "waiting"]
  /\ backlog' = Append(backlog, c)
  /\ UNCHANGED fds

\* A peer may send before it is accepted, and until it closes its end.
PeerSends(c) ==
  /\ conns[c].state \in {"waiting", "up"} /\ ~conns[c].eof /\ conns[c].sent < MaxBytes
  /\ conns' = [conns EXCEPT ![c].sent = @ + 1]
  /\ UNCHANGED <<fds, backlog>>

PeerCloses(c) ==
  /\ conns[c].state \in {"waiting", "up"} /\ ~conns[c].eof
  /\ conns' = [conns EXCEPT ![c].eof = TRUE]
  /\ UNCHANGED <<fds, backlog>>

\* The outcome of a connect() in progress.
RemoteAnswers(c) ==
  /\ conns[c].state = "connecting"
  /\ \E s \in {"up", "refused"} : conns' = [conns EXCEPT ![c].state = s]
  /\ UNCHANGED <<fds, backlog>>

ForeignOpens ==
  /\ LowestFree # Invalid /\ Cardinality(UsedFor("foreign")) < MaxForeign
  /\ fds' = [fds EXCEPT ![LowestFree] = Use("foreign", 0)]
  /\ UNCHANGED <<conns, backlog>>

ForeignCloses(fd) ==
  /\ fds[fd].use = "foreign"
  /\ fds' = [fds EXCEPT ![fd] = FreeFd]
  /\ UNCHANGED <<conns, backlog>>

World ==
  \/ \E c \in Conn : PeerConnects(c) \/ PeerSends(c) \/ PeerCloses(c) \/ RemoteAnswers(c)
  \/ ForeignOpens
  \/ \E fd \in Fd : ForeignCloses(fd)

=============================================================================
