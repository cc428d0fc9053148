--------------------------- MODULE StreamService ---------------------------
(***************************************************************************)
(* The stream server with clients that connect, send and read when they     *)
(* like. Repeats are possible, so every byte has to be able to come back,   *)
(* not to come back once.                                                   *)
(***************************************************************************)
EXTENDS StreamServer

CONSTANT MaxBytes   \* bound: bytes one client sends

ASSUME BytesAssumption == MaxBytes \in Nat

vars == <<serverVars, udtVars>>

TypeOK == ServerTypeOK /\ UdtTypeOK

Init == ServerInit /\ UdtInit

\* Any client of the server: what it does is up to it.
ClientConnects(c) ==
  status[ClientSock(c)] = "none" /\ ConnectOk(c)

ClientSends(c) ==
  /\ Len(accepted[ClientSock(c)]) < MaxBytes
  /\ SendTakes(ClientSock(c), <<(<<c, Len(accepted[ClientSock(c)]) + 1>>)>>, 1)

ClientReads(c) == \E k \in 1 .. RcvCap : RecvReturns(ClientSock(c), k)

AnyClient(c) == ClientConnects(c) \/ ClientSends(c) \/ ClientReads(c)

Next ==
  \/ ServerStep
  \/ (Network \/ \E c \in Conns : AnyClient(c)) /\ UNCHANGED serverVars

Spec == Init /\ [][Next]_vars

\* Every thread of the server is scheduled (its loops sleep 1 ms), the library delivers
\* on a connection that stays up, and the clients go on reading.
Fairness ==
  /\ WF_vars(ServerRun)
  /\ \A c \in Conns : WF_vars(WorkThread(c))
  /\ \A c \in Conns : WF_vars(ClientReads(c) /\ UNCHANGED serverVars)
  /\ \A s \in Socks : WF_vars(Transmit(s) /\ UNCHANGED serverVars)

FairSpec == Spec /\ Fairness

\* The send buffer of a live connection is empty each time the worker gets to send: the
\* network takes a round's bytes within a round.
Drained ==
  \A c \in Conns :
    /\ worker[c] = "recv" /\ worker'[c] = "send"
    /\ status[ClientSock(c)] = "up" /\ status[ServerSock(c)] = "up"
    => sndBuf[ServerSock(c)] = <<>>

\* "The server sendback the data after receiving the packet" (bench_mark.md): every byte
\* the worker read comes back while the connection stays up on both sides, unless the
\* worker's string outgrows the send buffer (WorkThread, TrySendMsg, DoSendMsg).
ShortStringsComeBack ==
  \A c \in Conns : \A n \in 1 .. MaxBytes :
    <<c, n>> \in ToSet(taken[ServerSock(c)])
      ~> \/ <<c, n>> \in ToSet(taken[ClientSock(c)])
         \/ status[ClientSock(c)] # "up" \/ status[ServerSock(c)] # "up"
         \/ Len(msg_buf_need_send[c]) > SndCap

\* It is the repeats in the send buffer that keep bytes from coming back: once the network
\* always takes a round's bytes within a round, whatever happened before, every byte gets
\* through (WorkThread, TrySendMsg, DoSendMsg).
QuickNetworkEchoes == <>[][Drained]_vars => ShortStringsComeBack
=============================================================================
