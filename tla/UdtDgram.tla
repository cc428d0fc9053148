------------------------------ MODULE UdtDgram ------------------------------
(***************************************************************************)
(* The UDT library as the datagram programs see it: one pair of connected   *)
(* sockets per client, each socket with a bounded send and receive buffer.  *)
(* The library itself is not modelled; these are the outcomes its calls     *)
(* have at the call sites of udt_dgram_client and udt_dgram_server with     *)
(* non-blocking sockets and sendmsg(..., -1, true), that is, no             *)
(* time-to-live and in-order delivery.                                      *)
(***************************************************************************)
EXTENDS Naturals, Sequences

CONSTANTS
  Conns,    \* one connection per client process
  SndCap,   \* messages that fit in a send buffer (UDT_SNDBUF)
  RcvCap    \* messages that fit in a receive buffer (UDT_RCVBUF)

ASSUME BufferAssumption == SndCap \in Nat \ {0} /\ RcvCap \in Nat \ {0}

VARIABLES
  status,     \* socket -> its state as its own side knows it
  sndBuf,     \* socket -> messages sendmsg took that the peer has not got yet
  rcvBuf,     \* socket -> messages that arrived and recvmsg has not returned
  backlog,    \* connections set up by the listener that accept has not returned
  listener,   \* "listening" while the listening socket answers handshakes
  accepted,   \* history: socket -> all messages its sendmsg took
  taken       \* history: socket -> all messages its recvmsg returned

udtVars == <<status, sndBuf, rcvBuf, backlog, listener, accepted, taken>>
flowVars == <<sndBuf, rcvBuf, accepted, taken>>

Sides == {"client", "server"}
Socks == Conns \X Sides
ClientSock(c) == <<c, "client">>
ServerSock(c) == <<c, "server">>
Peer(s) == IF s[2] = "client" THEN ServerSock(s[1]) ELSE ClientSock(s[1])

\* Message n of connection c. The text of a message is a time stamp and padding;
\* only its origin and its place in the order matter here.
Msgs == Conns \X (Nat \ {0})

Statuses == {"none", "connecting", "up", "broken", "closed"}

UdtTypeOK ==
  /\ status \in [Socks -> Statuses]
  /\ sndBuf \in [Socks -> Seq(Msgs)]
  /\ rcvBuf \in [Socks -> Seq(Msgs)]
  /\ backlog \in SUBSET Conns
  /\ listener \in {"none", "listening"}
  /\ accepted \in [Socks -> Seq(Msgs)]
  /\ taken \in [Socks -> Seq(Msgs)]

UdtInit ==
  /\ status = [s \in Socks |-> "none"]
  /\ sndBuf = [s \in Socks |-> <<>>]
  /\ rcvBuf = [s \in Socks |-> <<>>]
  /\ backlog = {}
  /\ listener = "none"
  /\ accepted = [s \in Socks |-> <<>>]
  /\ taken = [s \in Socks |-> <<>>]

-----------------------------------------------------------------------------
(* Outcomes of the calls the programs make.                                *)

\* sendmsg returns the size: all or nothing, never a part of the message.
SendmsgOk(s, m) ==
  /\ status[s] = "up"
  /\ Len(sndBuf[s]) < SndCap
  /\ sndBuf' = [sndBuf EXCEPT ![s] = Append(@, m)]
  /\ accepted' = [accepted EXCEPT ![s] = Append(@, m)]
  /\ UNCHANGED <<status, rcvBuf, backlog, listener, taken>>

\* EASYNCSND: no room for the message in the send buffer.
SendmsgFull(s) == status[s] = "up" /\ Len(sndBuf[s]) >= SndCap /\ UNCHANGED udtVars

\* ECONNLOST, ENOCONN or EINVSOCK.
SendmsgError(s) == status[s] # "up" /\ UNCHANGED udtVars

\* recvmsg returns the oldest message; a broken socket still hands out what arrived.
RecvmsgOk(s) ==
  /\ status[s] \in {"up", "broken"}
  /\ rcvBuf[s] # <<>>
  /\ rcvBuf' = [rcvBuf EXCEPT ![s] = Tail(@)]
  /\ taken' = [taken EXCEPT ![s] = Append(@, Head(rcvBuf[s]))]
  /\ UNCHANGED <<status, sndBuf, backlog, listener, accepted>>

\* EASYNCRCV: nothing to read now.
RecvmsgNothing(s) == status[s] = "up" /\ rcvBuf[s] = <<>> /\ UNCHANGED udtVars

\* ECONNLOST or EINVSOCK: the connection is gone and nothing is left to read.
RecvmsgLost(s) ==
  /\ status[s] = "closed" \/ (status[s] = "broken" /\ rcvBuf[s] = <<>>)
  /\ UNCHANGED udtVars

\* ENOCONN: the handshake has not completed.
RecvmsgNoConn(s) == status[s] = "connecting" /\ UNCHANGED udtVars

\* UDT::connect on a non-blocking socket: returns before the handshake.
ConnectOk(c) ==
  /\ status' = [status EXCEPT ![ClientSock(c)] = "connecting"]
  /\ UNCHANGED <<backlog, listener, flowVars>>

\* UDT::close on a client's socket.
CloseSock(s) ==
  /\ status' = [status EXCEPT ![s] = "closed"]
  /\ UNCHANGED <<backlog, listener, flowVars>>

-----------------------------------------------------------------------------
(* What the library's own threads and the network do.                      *)

\* The listener answers a handshake and queues the new socket for accept.
Handshake(c) ==
  /\ status[ClientSock(c)] = "connecting"
  /\ status[ServerSock(c)] = "none"
  /\ listener = "listening"
  /\ status' = [status EXCEPT ![ServerSock(c)] = "up"]
  /\ backlog' = backlog \cup {c}
  /\ UNCHANGED <<listener, flowVars>>

\* The answer reaches the client.
Established(c) ==
  /\ status[ClientSock(c)] = "connecting"
  /\ status[ServerSock(c)] = "up"
  /\ status' = [status EXCEPT ![ClientSock(c)] = "up"]
  /\ UNCHANGED <<backlog, listener, flowVars>>

\* The oldest unacknowledged message arrives; losses on the wire are repaired below
\* this interface, and flow control stops the sender while the receiver is full.
Transmit(s) ==
  /\ status[s] = "up"
  /\ status[Peer(s)] = "up"
  /\ sndBuf[s] # <<>>
  /\ Len(rcvBuf[Peer(s)]) < RcvCap
  /\ sndBuf' = [sndBuf EXCEPT ![s] = Tail(@)]
  /\ rcvBuf' = [rcvBuf EXCEPT ![Peer(s)] = Append(@, Head(sndBuf[s]))]
  /\ UNCHANGED <<status, backlog, listener, accepted, taken>>

\* One side gives the connection up: a time-out, or the peer's shutdown.
Break(s) ==
  /\ status[s] = "up"
  /\ status' = [status EXCEPT ![s] = "broken"]
  /\ UNCHANGED <<backlog, listener, flowVars>>

\* The garbage collector drops a broken socket, read or not, accepted or not.
Collect(s) ==
  /\ status[s] = "broken"
  /\ status' = [status EXCEPT ![s] = "closed"]
  /\ backlog' = IF s[2] = "server" THEN backlog \ {s[1]} ELSE backlog
  /\ UNCHANGED <<listener, flowVars>>

Network ==
  \/ \E c \in Conns : Handshake(c) \/ Established(c)
  \/ \E s \in Socks : Transmit(s) \/ Break(s) \/ Collect(s)

\* The reliability the library promises: what one side took and has not handed to
\* the other side is still in the two buffers, in order and once.
UdtReliable ==
  \A s \in Socks : accepted[s] = taken[Peer(s)] \o rcvBuf[Peer(s)] \o sndBuf[s]
=============================================================================
