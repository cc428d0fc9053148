-------------------------- MODULE DgramEchoProofs --------------------------
(***************************************************************************)
(* Safety of DgramEcho for any number of clients, any buffer sizes, any     *)
(* limit of the queue and any number of messages.                           *)
(***************************************************************************)
EXTENDS DgramEcho, SequenceLemmas

-----------------------------------------------------------------------------
(* Type correctness: one lemma per thread, over lemmas about the calls into *)
(* the library.                                                             *)

\* The initial values have their types.
LEMMA InitTypeOK == Init => TypeOK
  <1>. SUFFICES ASSUME Init PROVE TypeOK
    OBVIOUS
  <1>1. ClientTypeOK
    BY DEF Init, ClientInit, ClientTypeOK
  <1>2. ServerTypeOK
    BY DEF Init, ServerInit, ServerTypeOK
  <1>3. UdtTypeOK
    BY DEF Init, UdtInit, UdtTypeOK, Statuses
  <1>. QED BY <1>1, <1>2, <1>3 DEF TypeOK

\* The two sockets of a connection, each the other's peer.
LEMMA SocketNames ==
  ASSUME NEW c \in Conns
  PROVE  /\ ClientSock(c) \in Socks /\ ServerSock(c) \in Socks
         /\ Peer(ClientSock(c)) = ServerSock(c) /\ Peer(ServerSock(c)) = ClientSock(c)
  BY DEF Socks, Sides, ClientSock, ServerSock, Peer

\* No two connections, and no two sides, share a socket.
LEMMA OtherSockets ==
  ASSUME NEW c \in Conns, NEW d \in Conns
  PROVE  /\ ClientSock(c) # ServerSock(d)
         /\ c # d => ClientSock(c) # ClientSock(d) /\ ServerSock(c) # ServerSock(d)
  BY DEF ClientSock, ServerSock

\* Whatever sendmsg returns, the sockets keep their types.
LEMMA SendmsgType ==
  ASSUME UdtTypeOK, NEW s \in Socks, NEW m \in Msgs,
         SendmsgOk(s, m) \/ SendmsgFull(s) \/ SendmsgError(s)
  PROVE  UdtTypeOK'
  <1>1. CASE SendmsgOk(s, m)
    <2>1. Append(sndBuf[s], m) \in Seq(Msgs) /\ Append(accepted[s], m) \in Seq(Msgs)
      BY AppendProperties DEF UdtTypeOK
    <2>. QED BY <1>1, <2>1 DEF UdtTypeOK, SendmsgOk
  <1>2. CASE SendmsgFull(s) \/ SendmsgError(s)
    BY <1>2 DEF UdtTypeOK, SendmsgFull, SendmsgError, udtVars
  <1>. QED BY <1>1, <1>2

\* Whatever recvmsg returns, the sockets keep their types.
LEMMA RecvmsgType ==
  ASSUME UdtTypeOK, NEW s \in Socks,
         RecvmsgOk(s) \/ RecvmsgNothing(s) \/ RecvmsgLost(s) \/ RecvmsgNoConn(s)
  PROVE  UdtTypeOK'
  <1>1. CASE RecvmsgOk(s)
    <2>1. Head(rcvBuf[s]) \in Msgs /\ Tail(rcvBuf[s]) \in Seq(Msgs)
      BY <1>1, HeadTailProperties DEF UdtTypeOK, RecvmsgOk
    <2>2. Append(taken[s], Head(rcvBuf[s])) \in Seq(Msgs)
      BY <2>1, AppendProperties DEF UdtTypeOK
    <2>. QED BY <1>1, <2>1, <2>2 DEF UdtTypeOK, RecvmsgOk
  <1>2. CASE RecvmsgNothing(s) \/ RecvmsgLost(s) \/ RecvmsgNoConn(s)
    BY <1>2 DEF UdtTypeOK, RecvmsgNothing, RecvmsgLost, RecvmsgNoConn, udtVars
  <1>. QED BY <1>1, <1>2

\* So they do when the library's threads or the network act.
LEMMA NetworkType ==
  ASSUME UdtTypeOK, Network
  PROVE  UdtTypeOK'
  <1>1. ASSUME NEW c \in Conns, Handshake(c) \/ Established(c) PROVE UdtTypeOK'
    BY <1>1, SocketNames DEF UdtTypeOK, Handshake, Established, flowVars, Statuses
  <1>2. ASSUME NEW s \in Socks, Transmit(s) PROVE UdtTypeOK'
    <2>1. Peer(s) \in Socks
      BY DEF Peer, Socks, Sides, ClientSock, ServerSock
    <2>2. Head(sndBuf[s]) \in Msgs /\ Tail(sndBuf[s]) \in Seq(Msgs)
      BY <1>2, HeadTailProperties DEF UdtTypeOK, Transmit
    <2>3. Append(rcvBuf[Peer(s)], Head(sndBuf[s])) \in Seq(Msgs)
      BY <2>1, <2>2, AppendProperties DEF UdtTypeOK
    <2>. QED BY <1>2, <2>2, <2>3 DEF UdtTypeOK, Transmit
  <1>3. ASSUME NEW s \in Socks, Break(s) \/ Collect(s) PROVE UdtTypeOK'
    BY <1>3 DEF UdtTypeOK, Break, Collect, flowVars, Statuses
  <1>. QED BY <1>1, <1>2, <1>3 DEF Network

\* Every step of a client's main().
LEMMA MainType ==
  ASSUME ClientTypeOK, UdtTypeOK, NEW c \in Conns, Main(c)
  PROVE  ClientTypeOK' /\ UdtTypeOK'
  <1>1. CASE StartFails(c) \/ StartSpawns(c) \/ Measure(c)
    <2>1. UdtTypeOK'
      BY <1>1 DEF StartFails, StartSpawns, Measure, UdtTypeOK, udtVars
    <2>2. ClientTypeOK'
      BY <1>1 DEF StartFails, StartSpawns, Measure, ClientTypeOK, clientData
    <2>. QED BY <2>1, <2>2
  <1>2. CASE StartConnects(c)
    <2>1. UdtTypeOK'
      BY <1>2, SocketNames DEF StartConnects, ConnectOk, UdtTypeOK, flowVars, Statuses
    <2>2. ClientTypeOK'
      BY <1>2 DEF StartConnects, ClientTypeOK, clientData
    <2>. QED BY <2>1, <2>2
  <1>3. CASE SendMsg(c)
    <2>1. UdtTypeOK'
      BY <1>3 DEF SendMsg, UdtTypeOK, udtVars
    <2>2. Len(made[c]) + 1 \in Nat \ {0}
      BY LenProperties DEF ClientTypeOK
    <2>3. <<c, Len(made[c]) + 1>> \in Msgs
      BY <2>2 DEF Msgs
    <2>4. /\ Append(made[c], <<c, Len(made[c]) + 1>>) \in Seq(Msgs)
          /\ Append(send_msg_queue[c], <<c, Len(made[c]) + 1>>) \in Seq(Msgs)
      BY <2>3, AppendProperties DEF ClientTypeOK
    <2>5. ClientTypeOK'
      BY <1>3, <2>4 DEF SendMsg, ClientTypeOK
    <2>. QED BY <2>1, <2>5
  <1>. QED BY <1>1, <1>2, <1>3 DEF Main

\* Every step of a client's I/O thread.
LEMMA RunType ==
  ASSUME ClientTypeOK, UdtTypeOK, NEW c \in Conns, Run(c)
  PROVE  ClientTypeOK' /\ UdtTypeOK'
  <1>. USE SocketNames
  <1>1. CASE RunBoots(c) \/ LoopEnds(c) \/ KeepBuff(c)
    <2>1. UdtTypeOK'
      BY <1>1 DEF RunBoots, LoopEnds, KeepBuff, UdtTypeOK, udtVars
    <2>2. ClientTypeOK'
      BY <1>1 DEF RunBoots, LoopEnds, KeepBuff, ClientTypeOK, clientData
    <2>. QED BY <2>1, <2>2
  <1>2. CASE TryGrabMsg(c)
    BY <1>2, EmptySeq DEF TryGrabMsg, ClientTypeOK, UdtTypeOK, udtVars
  <1>3. CASE SendOne(c)
    <2>1. Head(send_msg_buff[c]) \in Msgs /\ Tail(send_msg_buff[c]) \in Seq(Msgs)
      BY <1>3, HeadTailProperties DEF SendOne, ClientTypeOK
    <2>2. UdtTypeOK'
      BY <1>3, <2>1, SendmsgType DEF SendOne
    <2>3. ClientTypeOK'
      BY <1>3, <2>1 DEF SendOne, ClientTypeOK
    <2>. QED BY <2>2, <2>3
  <1>4. CASE SendEnds(c) \/ SendFails(c)
    <2>1. UdtTypeOK'
      BY <1>4 DEF SendEnds, SendFails, SendmsgFull, SendmsgError, UdtTypeOK, udtVars
    <2>2. ClientTypeOK'
      BY <1>4 DEF SendEnds, SendFails, ClientTypeOK, clientData
    <2>. QED BY <2>1, <2>2
  <1>5. CASE RecvOne(c)
    <2>1. Append(delivered[c], Head(rcvBuf[ClientSock(c)])) \in Seq(Msgs)
      BY <1>5, HeadTailProperties, AppendProperties
         DEF RecvOne, RecvmsgOk, ClientTypeOK, UdtTypeOK
    <2>2. UdtTypeOK'
      BY <1>5, RecvmsgType DEF RecvOne
    <2>3. ClientTypeOK'
      BY <1>5, <2>1 DEF RecvOne, ClientTypeOK
    <2>. QED BY <2>2, <2>3
  <1>6. CASE RecvEnds(c) \/ RecvFails(c)
    <2>1. UdtTypeOK'
      BY <1>6, RecvmsgType DEF RecvEnds, RecvFails
    <2>2. ClientTypeOK'
      BY <1>6 DEF RecvEnds, RecvFails, ClientTypeOK, clientData
    <2>. QED BY <2>1, <2>2
  <1>7. CASE RunCloses(c)
    <2>1. UdtTypeOK'
      BY <1>7 DEF RunCloses, CloseSock, UdtTypeOK, flowVars, Statuses
    <2>2. ClientTypeOK'
      BY <1>7 DEF RunCloses, ClientTypeOK, clientData
    <2>. QED BY <2>1, <2>2
  <1>. QED BY <1>1, <1>2, <1>3, <1>4, <1>5, <1>6, <1>7 DEF Run

\* Every step of UDTServer::Run and of the server's main().
LEMMA ServerRunType ==
  ASSUME ServerTypeOK, UdtTypeOK, ServerRun
  PROVE  ServerTypeOK' /\ UdtTypeOK'
  <1>1. CASE CreateListenSocket
    BY <1>1 DEF CreateListenSocket, ServerTypeOK, UdtTypeOK, flowVars
  <1>2. CASE TestRunning \/ AcceptNothing \/ AcceptFails
    <2>1. UdtTypeOK'
      BY <1>2 DEF TestRunning, AcceptNothing, AcceptFails, UdtTypeOK, udtVars
    <2>2. ServerTypeOK'
      BY <1>2 DEF TestRunning, AcceptNothing, AcceptFails, ServerTypeOK
    <2>. QED BY <2>1, <2>2
  <1>3. ASSUME NEW c \in Conns, Accept(c)
        PROVE  ServerTypeOK' /\ UdtTypeOK'
    BY <1>3 DEF Accept, ServerTypeOK, UdtTypeOK, flowVars
  <1>4. CASE CloseServer
    BY <1>4 DEF CloseServer, ServerTypeOK, UdtTypeOK, flowVars
  <1>5. CASE ProcessExit
    BY <1>5 DEF ProcessExit, ServerTypeOK, UdtTypeOK, flowVars, Statuses
  <1>. QED BY <1>1, <1>2, <1>3, <1>4, <1>5 DEF ServerRun

\* Every step of a WorkThread.
LEMMA WorkThreadType ==
  ASSUME ServerTypeOK, UdtTypeOK, NEW c \in Conns, WorkThread(c)
  PROVE  ServerTypeOK' /\ UdtTypeOK'
  <1>. USE SocketNames
  <1>1. CASE WorkerRecvOne(c)
    <2>1. Append(msg_queue_need_send[c], Head(rcvBuf[ServerSock(c)])) \in Seq(Msgs)
      BY <1>1, HeadTailProperties, AppendProperties
         DEF WorkerRecvOne, RecvmsgOk, ServerTypeOK, UdtTypeOK
    <2>2. UdtTypeOK'
      BY <1>1, RecvmsgType DEF WorkerRecvOne
    <2>3. ServerTypeOK'
      BY <1>1, <2>1 DEF WorkerRecvOne, ServerTypeOK
    <2>. QED BY <2>2, <2>3
  <1>2. CASE WorkerRecvEnds(c)
    <2>1. UdtTypeOK'
      BY <1>2, RecvmsgType DEF WorkerRecvEnds
    <2>2. ServerTypeOK'
      BY <1>2 DEF WorkerRecvEnds, ServerTypeOK
    <2>. QED BY <2>1, <2>2
  <1>3. CASE WorkerSendOne(c)
    <2>1. /\ Head(msg_queue_need_send[c]) \in Msgs
          /\ Tail(msg_queue_need_send[c]) \in Seq(Msgs)
      BY <1>3, HeadTailProperties DEF WorkerSendOne, ServerTypeOK
    <2>2. UdtTypeOK'
      BY <1>3, <2>1, SendmsgType DEF WorkerSendOne
    <2>3. ServerTypeOK'
      BY <1>3, <2>1 DEF WorkerSendOne, ServerTypeOK
    <2>. QED BY <2>2, <2>3
  <1>4. CASE WorkerSendEnds(c) \/ WorkerSendFails(c)
    <2>1. UdtTypeOK'
      BY <1>4 DEF WorkerSendEnds, WorkerSendFails, SendmsgFull, SendmsgError, UdtTypeOK, udtVars
    <2>2. ServerTypeOK'
      BY <1>4 DEF WorkerSendEnds, WorkerSendFails, ServerTypeOK
    <2>. QED BY <2>1, <2>2
  <1>. QED BY <1>1, <1>2, <1>3, <1>4 DEF WorkThread

\* Every variable keeps its type, however many clients and however large the buffers.
THEOREM TypeCorrect == Spec => []TypeOK
  <1>1. ASSUME TypeOK, [Next]_vars PROVE TypeOK'
    <2>. USE <1>1 DEF TypeOK
    <2>1. CASE Client
      <3>1. PICK c \in Conns : ClientStep(c) /\ UNCHANGED serverVars
        BY <2>1 DEF Client
      <3>2. ServerTypeOK'
        BY <3>1 DEF ServerTypeOK, serverVars
      <3>. QED BY <3>1, <3>2, MainType, RunType DEF ClientStep
    <2>2. CASE Server
      <3>1. ClientTypeOK'
        BY <2>2 DEF Server, ClientTypeOK, clientVars
      <3>. QED BY <2>2, <3>1, ServerRunType, WorkThreadType DEF Server, ServerStep
    <2>3. CASE Library
      <3>1. ClientTypeOK' /\ ServerTypeOK'
        BY <2>3 DEF Library, ClientTypeOK, ServerTypeOK, clientVars, serverVars
      <3>. QED BY <2>3, <3>1, NetworkType DEF Library
    <2>4. CASE UNCHANGED vars
      BY <2>4 DEF vars, clientVars, serverVars, udtVars, ClientTypeOK, ServerTypeOK, UdtTypeOK
    <2>. QED BY <1>1, <2>1, <2>2, <2>3, <2>4 DEF Next
  <1>. QED BY <1>1, InitTypeOK, PTL DEF Spec

-----------------------------------------------------------------------------
(* No message is lost, repeated or overtaken.                              *)

\* The lemmas on queues, for queues of messages.
LEMMA MsgAppendLast ==
  \A a, b \in Seq(Msgs) : \A m \in Msgs : a \o Append(b, m) = Append(a \o b, m)
  BY AppendLast

\* The lemmas on sequences, for messages.
LEMMA MsgMoveHead ==
  \A a, b \in Seq(Msgs) : b # <<>> => Append(a, Head(b)) \o Tail(b) = a \o b
  BY MoveHead

\* Two message queues in a row are a message queue.
LEMMA MsgConcat == \A a, b \in Seq(Msgs) : a \o b \in Seq(Msgs)
  BY ConcatProperties

\* An empty queue at the end adds nothing.
LEMMA MsgConcatEmpty == \A a \in Seq(Msgs) : a \o <<>> = a
  BY ConcatEmptySeq

\* Along a message's way every hand-over conserves: what left one place is in the next.
PathsConserve ==
  SendPathConserves /\ UdtReliable /\ EchoPathConserves /\ CallbackSeesAll

\* The variables that hold messages.
pathVars == <<clientData, flowVars, msg_queue_need_send>>

\* The steps that move a message; every other step leaves all messages where they are.
Moves(c) ==
  \/ SendMsg(c) /\ UNCHANGED serverVars
  \/ TryGrabMsg(c) /\ UNCHANGED serverVars
  \/ SendOne(c) /\ UNCHANGED serverVars
  \/ RecvOne(c) /\ UNCHANGED serverVars
  \/ WorkerRecvOne(c) /\ UNCHANGED clientVars
  \/ WorkerSendOne(c) /\ UNCHANGED clientVars

\* A step is one of those that move a message, or leaves every place a message can be alone.
LEMMA MovesOrNot ==
  ASSUME [Next]_vars
  PROVE  \/ \E c \in Conns : Moves(c)
         \/ \E s \in Socks : Transmit(s) /\ UNCHANGED <<clientVars, serverVars>>
         \/ UNCHANGED pathVars
  <1>. USE DEF pathVars, clientData, clientVars, serverVars, udtVars, flowVars
  <1>1. CASE Client
    <2>1. PICK c \in Conns : ClientStep(c) /\ UNCHANGED serverVars
      BY <1>1 DEF Client
    <2>2. CASE Main(c)
      BY <2>1, <2>2
         DEF Main, StartFails, StartConnects, ConnectOk, StartSpawns, Measure, Moves
    <2>3. CASE RunBoots(c) \/ LoopEnds(c) \/ KeepBuff(c) \/ RunCloses(c)
      BY <2>1, <2>3 DEF RunBoots, LoopEnds, KeepBuff, RunCloses, CloseSock
    <2>4. CASE SendEnds(c) \/ SendFails(c) \/ RecvEnds(c) \/ RecvFails(c)
      BY <2>1, <2>4
         DEF SendEnds, SendFails, RecvEnds, RecvFails, SendmsgFull, SendmsgError,
             RecvmsgNothing, RecvmsgNoConn, RecvmsgLost
    <2>5. CASE TryGrabMsg(c) \/ SendOne(c) \/ RecvOne(c)
      BY <2>1, <2>5 DEF Moves
    <2>. QED BY <2>1, <2>2, <2>3, <2>4, <2>5 DEF ClientStep, Run
  <1>2. CASE Server
    <2>1. CASE ServerRun
      BY <1>2, <2>1
         DEF Server, ServerRun, CreateListenSocket, TestRunning, Accept, AcceptNothing,
             AcceptFails, CloseServer, ProcessExit
    <2>2. ASSUME NEW c \in Conns, WorkThread(c)
          PROVE  Moves(c) \/ UNCHANGED pathVars
      BY <1>2, <2>2
         DEF Server, WorkThread, Moves, WorkerRecvEnds, WorkerSendEnds, WorkerSendFails,
             SendmsgFull, SendmsgError, RecvmsgNothing, RecvmsgLost
    <2>. QED BY <1>2, <2>1, <2>2 DEF Server, ServerStep
  <1>3. CASE Library
    BY <1>3 DEF Library, Network, Handshake, Established, Break, Collect
  <1>4. CASE UNCHANGED vars
    BY <1>4 DEF vars
  <1>. QED BY <1>1, <1>2, <1>3, <1>4 DEF Next

-----------------------------------------------------------------------------
(* What each call into the library does to UdtReliable.                    *)

\* The two ends of a connection are each other's peer and never the same.
LEMMA PeerOfPeer ==
  ASSUME NEW s \in Socks
  PROVE  Peer(s) \in Socks /\ Peer(Peer(s)) = s /\ Peer(s) # s
  BY DEF Socks, Sides, Peer, ClientSock, ServerSock

\* A call on one socket leaves the histories of every other socket alone.
LEMMA SendmsgFrame ==
  ASSUME UdtTypeOK, NEW s \in Socks, NEW m, SendmsgOk(s, m)
  PROVE  /\ UNCHANGED taken
         /\ accepted'[s] = Append(accepted[s], m)
         /\ \A r \in Socks : r # s => accepted'[r] = accepted[r]
  BY DEF SendmsgOk, UdtTypeOK

\* recvmsg touches the buffer and the history of its own socket only.
LEMMA RecvmsgFrame ==
  ASSUME UdtTypeOK, NEW s \in Socks, RecvmsgOk(s)
  PROVE  /\ UNCHANGED accepted
         /\ taken'[s] = Append(taken[s], Head(rcvBuf[s]))
         /\ \A r \in Socks : r # s => taken'[r] = taken[r]
  BY DEF RecvmsgOk, UdtTypeOK

\* sendmsg keeps the library reliable: what it took is at the end of the send buffer.
LEMMA SendmsgReliable ==
  ASSUME UdtTypeOK, UdtReliable, NEW s \in Socks, NEW m \in Msgs, SendmsgOk(s, m)
  PROVE  UdtReliable'
  <1>. SUFFICES ASSUME NEW r \in Socks
                PROVE  accepted'[r] = taken'[Peer(r)] \o rcvBuf'[Peer(r)] \o sndBuf'[r]
    BY DEF UdtReliable
  <1>1. accepted[r] = taken[Peer(r)] \o rcvBuf[Peer(r)] \o sndBuf[r]
    BY DEF UdtReliable
  <1>2. /\ taken[Peer(r)] \o rcvBuf[Peer(r)] \in Seq(Msgs)
        /\ sndBuf[r] \in Seq(Msgs)
    BY PeerOfPeer, ConcatProperties DEF UdtTypeOK
  <1>3. CASE r = s
    <2>1. taken[Peer(r)] \o rcvBuf[Peer(r)] \o Append(sndBuf[r], m)
            = Append(taken[Peer(r)] \o rcvBuf[Peer(r)] \o sndBuf[r], m)
      BY <1>2, MsgAppendLast, Zenon
    <2>2. /\ accepted'[r] = Append(accepted[r], m) /\ sndBuf'[r] = Append(sndBuf[r], m)
          /\ UNCHANGED <<taken, rcvBuf>>
      BY <1>3 DEF SendmsgOk, UdtTypeOK
    <2>. QED BY <1>1, <2>1, <2>2
  <1>4. CASE r # s
    BY <1>1, <1>4 DEF SendmsgOk, UdtTypeOK
  <1>. QED BY <1>3, <1>4

\* recvmsg keeps the library reliable: what it returned was first in the receive buffer.
LEMMA RecvmsgReliable ==
  ASSUME UdtTypeOK, UdtReliable, NEW s \in Socks, RecvmsgOk(s)
  PROVE  UdtReliable'
  <1>. SUFFICES ASSUME NEW r \in Socks
                PROVE  accepted'[r] = taken'[Peer(r)] \o rcvBuf'[Peer(r)] \o sndBuf'[r]
    BY DEF UdtReliable
  <1>1. accepted[r] = taken[Peer(r)] \o rcvBuf[Peer(r)] \o sndBuf[r]
    BY DEF UdtReliable
  <1>2. CASE Peer(r) = s
    <2>1. taken[s] \in Seq(Msgs) /\ rcvBuf[s] \in Seq(Msgs) /\ rcvBuf[s] # <<>>
      BY DEF RecvmsgOk, UdtTypeOK
    <2>2. Append(taken[s], Head(rcvBuf[s])) \o Tail(rcvBuf[s]) = taken[s] \o rcvBuf[s]
      BY <2>1, MsgMoveHead, Zenon
    <2>3. /\ taken'[s] = Append(taken[s], Head(rcvBuf[s])) /\ rcvBuf'[s] = Tail(rcvBuf[s])
          /\ UNCHANGED <<accepted, sndBuf>>
      BY DEF RecvmsgOk, UdtTypeOK
    <2>. QED BY <1>1, <1>2, <2>2, <2>3
  <1>3. CASE Peer(r) # s
    BY <1>1, <1>3, PeerOfPeer DEF RecvmsgOk, UdtTypeOK
  <1>. QED BY <1>2, <1>3

\* An arrival keeps the library reliable: it moves the head of one buffer to the end of the other.
LEMMA TransmitReliable ==
  ASSUME UdtTypeOK, UdtReliable, NEW s \in Socks, Transmit(s)
  PROVE  UdtReliable'
  <1>. SUFFICES ASSUME NEW r \in Socks
                PROVE  accepted'[r] = taken'[Peer(r)] \o rcvBuf'[Peer(r)] \o sndBuf'[r]
    BY DEF UdtReliable
  <1>1. accepted[r] = taken[Peer(r)] \o rcvBuf[Peer(r)] \o sndBuf[r]
    BY DEF UdtReliable
  <1>2. CASE r = s
    <2>. DEFINE h == Head(sndBuf[s])
    <2>1. sndBuf[s] # <<>> /\ sndBuf[s] \in Seq(Msgs) /\ h \in Msgs
      BY HeadTailProperties DEF Transmit, UdtTypeOK
    <2>2. taken[Peer(s)] \in Seq(Msgs) /\ rcvBuf[Peer(s)] \in Seq(Msgs)
      BY PeerOfPeer DEF UdtTypeOK
    <2>. HIDE DEF h
    <2>3. taken[Peer(s)] \o Append(rcvBuf[Peer(s)], h)
            = Append(taken[Peer(s)] \o rcvBuf[Peer(s)], h)
      BY <2>1, <2>2, MsgAppendLast, Zenon
    <2>4. taken[Peer(s)] \o rcvBuf[Peer(s)] \in Seq(Msgs)
      BY <2>2, ConcatProperties
    <2>5. Append(taken[Peer(s)] \o rcvBuf[Peer(s)], h) \o Tail(sndBuf[s])
            = taken[Peer(s)] \o rcvBuf[Peer(s)] \o sndBuf[s]
      BY <2>1, <2>4, MsgMoveHead, Zenon DEF h
    <2>6. /\ accepted'[s] = accepted[s] /\ taken'[Peer(s)] = taken[Peer(s)]
          /\ rcvBuf'[Peer(s)] = Append(rcvBuf[Peer(s)], h)
          /\ sndBuf'[s] = Tail(sndBuf[s])
      BY PeerOfPeer DEF Transmit, UdtTypeOK, h
    <2>. QED BY <1>1, <1>2, <2>3, <2>5, <2>6
  <1>3. CASE r # s
    <2>1. Peer(r) # Peer(s) /\ Peer(r) \in Socks
      BY <1>3, PeerOfPeer
    <2>. QED BY <1>1, <1>3, <2>1 DEF Transmit, UdtTypeOK
  <1>. QED BY <1>2, <1>3

-----------------------------------------------------------------------------
(* What each hand-over does to the paths.                                  *)

\* A push by main() keeps all paths whole.
LEMMA SendMsgConserves ==
  ASSUME TypeOK, PathsConserve, NEW c \in Conns, SendMsg(c), UNCHANGED serverVars
  PROVE  PathsConserve'
  <1>. USE DEF PathsConserve
  <1>1. UdtReliable' /\ EchoPathConserves' /\ CallbackSeesAll'
    BY DEF SendMsg, udtVars, serverVars, UdtReliable, EchoPathConserves, CallbackSeesAll
  <1>2. ASSUME NEW d \in Conns
        PROVE  made'[d] = accepted'[ClientSock(d)] \o send_msg_buff'[d] \o send_msg_queue'[d]
    <2>. DEFINE msg == <<c, Len(made[c]) + 1>>
    <2>1. made[d] = accepted[ClientSock(d)] \o send_msg_buff[d] \o send_msg_queue[d]
      BY DEF SendPathConserves
    <2>2. CASE d = c
      <3>1. Len(made[c]) + 1 \in Nat \ {0}
        BY LenProperties DEF TypeOK, ClientTypeOK
      <3>2. msg \in Msgs
        BY <3>1 DEF Msgs
      <3>3. accepted[ClientSock(c)] \o send_msg_buff[c] \in Seq(Msgs)
        BY SocketNames, MsgConcat DEF TypeOK, ClientTypeOK, UdtTypeOK
      <3>4. send_msg_queue[c] \in Seq(Msgs)
        BY DEF TypeOK, ClientTypeOK
      <3>5. /\ made'[c] = Append(made[c], msg)
            /\ send_msg_queue'[c] = Append(send_msg_queue[c], msg)
            /\ UNCHANGED <<accepted, send_msg_buff>>
        BY DEF SendMsg, udtVars, TypeOK, ClientTypeOK
      <3>. HIDE DEF msg
      <3>6. accepted[ClientSock(c)] \o send_msg_buff[c] \o Append(send_msg_queue[c], msg)
              = Append(accepted[ClientSock(c)] \o send_msg_buff[c] \o send_msg_queue[c], msg)
        BY <3>2, <3>3, <3>4, MsgAppendLast, Zenon
      <3>. QED BY <2>1, <2>2, <3>5, <3>6
    <2>3. CASE d # c
      BY <2>1, <2>3 DEF SendMsg, udtVars, TypeOK, ClientTypeOK
    <2>. QED BY <2>2, <2>3
  <1>. QED BY <1>1, <1>2 DEF SendPathConserves

\* The grab keeps all paths whole, because the buffer it fills was empty.
LEMMA TryGrabMsgConserves ==
  ASSUME TypeOK, PathsConserve, NEW c \in Conns, TryGrabMsg(c), UNCHANGED serverVars
  PROVE  PathsConserve'
  <1>. USE DEF PathsConserve
  <1>1. UdtReliable' /\ EchoPathConserves' /\ CallbackSeesAll'
    BY DEF TryGrabMsg, udtVars, serverVars, UdtReliable, EchoPathConserves, CallbackSeesAll
  <1>2. ASSUME NEW d \in Conns
        PROVE  made'[d] = accepted'[ClientSock(d)] \o send_msg_buff'[d] \o send_msg_queue'[d]
    <2>1. made[d] = accepted[ClientSock(d)] \o send_msg_buff[d] \o send_msg_queue[d]
      BY DEF SendPathConserves
    <2>2. CASE d = c
      <3>1. /\ accepted[ClientSock(c)] \in Seq(Msgs) /\ send_msg_queue[c] \in Seq(Msgs)
        BY SocketNames DEF TypeOK, ClientTypeOK, UdtTypeOK
      <3>2. /\ send_msg_buff[c] = <<>>
            /\ send_msg_buff'[c] = send_msg_queue[c] /\ send_msg_queue'[c] = <<>>
            /\ UNCHANGED <<made, accepted>>
        BY DEF TryGrabMsg, udtVars, TypeOK, ClientTypeOK
      <3>3. accepted[ClientSock(c)] \o <<>> = accepted[ClientSock(c)]
        BY <3>1, MsgConcatEmpty, Zenon
      <3>4. accepted[ClientSock(c)] \o send_msg_queue[c] \in Seq(Msgs)
        BY <3>1, MsgConcat, Zenon
      <3>5. accepted[ClientSock(c)] \o send_msg_queue[c] \o <<>>
              = accepted[ClientSock(c)] \o send_msg_queue[c]
        BY <3>4, MsgConcatEmpty, Zenon
      <3>. QED BY <2>1, <2>2, <3>2, <3>3, <3>5
    <2>3. CASE d # c
      BY <2>1, <2>3 DEF TryGrabMsg, udtVars, TypeOK, ClientTypeOK
    <2>. QED BY <2>2, <2>3
  <1>. QED BY <1>1, <1>2 DEF SendPathConserves

\* A message the client sends leaves its buffer as it enters the library.
LEMMA SendOneConserves ==
  ASSUME TypeOK, PathsConserve, NEW c \in Conns, SendOne(c), UNCHANGED serverVars
  PROVE  PathsConserve'
  <1>. USE DEF PathsConserve
  <1>. DEFINE s == ClientSock(c)
              m == Head(send_msg_buff[c])
  <1>1. /\ send_msg_buff[c] # <<>> /\ send_msg_buff[c] \in Seq(Msgs)
        /\ accepted[s] \in Seq(Msgs) /\ m \in Msgs /\ SendmsgOk(s, m)
    BY SocketNames, HeadTailProperties DEF SendOne, TypeOK, ClientTypeOK, UdtTypeOK
  <1>2. UdtReliable'
    BY <1>1, SocketNames, SendmsgReliable DEF TypeOK
  <1>6. /\ UNCHANGED taken
        /\ accepted'[s] = Append(accepted[s], m)
        /\ \A r \in Socks : r # s => accepted'[r] = accepted[r]
    BY <1>1, SocketNames, SendmsgFrame DEF TypeOK
  <1>3. CallbackSeesAll'
    BY <1>6 DEF CallbackSeesAll, SendOne
  <1>4. EchoPathConserves'
    BY <1>1, <1>6, SocketNames, OtherSockets DEF EchoPathConserves, serverVars
  <1>5. ASSUME NEW d \in Conns
        PROVE  made'[d] = accepted'[ClientSock(d)] \o send_msg_buff'[d] \o send_msg_queue'[d]
    <2>1. made[d] = accepted[ClientSock(d)] \o send_msg_buff[d] \o send_msg_queue[d]
      BY DEF SendPathConserves
    <2>2. CASE d = c
      <3>1. /\ accepted'[s] = Append(accepted[s], m)
            /\ send_msg_buff'[c] = Tail(send_msg_buff[c])
            /\ UNCHANGED <<made, send_msg_queue>>
        BY <1>6 DEF SendOne, TypeOK, ClientTypeOK
      <3>2. Append(accepted[s], m) \o Tail(send_msg_buff[c]) = accepted[s] \o send_msg_buff[c]
        BY <1>1, MsgMoveHead, Zenon
      <3>. QED BY <2>1, <2>2, <3>1, <3>2
    <2>3. CASE d # c
      BY <1>6, <2>1, <2>3, SocketNames, OtherSockets DEF SendOne, TypeOK, ClientTypeOK
    <2>. QED BY <2>2, <2>3
  <1>. QED BY <1>2, <1>3, <1>4, <1>5 DEF SendPathConserves

\* A message the client reads goes to the callback.
LEMMA RecvOneConserves ==
  ASSUME TypeOK, PathsConserve, NEW c \in Conns, RecvOne(c), UNCHANGED serverVars
  PROVE  PathsConserve'
  <1>. USE DEF PathsConserve
  <1>1. ClientSock(c) \in Socks /\ RecvmsgOk(ClientSock(c))
    BY SocketNames DEF RecvOne
  <1>2. UdtReliable'
    BY <1>1, RecvmsgReliable DEF TypeOK
  <1>6. /\ UNCHANGED accepted
        /\ taken'[ClientSock(c)] = Append(taken[ClientSock(c)], Head(rcvBuf[ClientSock(c)]))
        /\ \A r \in Socks : r # ClientSock(c) => taken'[r] = taken[r]
    BY <1>1, RecvmsgFrame DEF TypeOK
  <1>3. ASSUME NEW d \in Conns PROVE delivered'[d] = taken'[ClientSock(d)]
    <2>1. CASE d = c
      BY <1>6, <2>1 DEF CallbackSeesAll, RecvOne, TypeOK, ClientTypeOK
    <2>2. CASE d # c
      BY <1>6, <2>2, SocketNames, OtherSockets
         DEF CallbackSeesAll, RecvOne, TypeOK, ClientTypeOK
    <2>. QED BY <2>1, <2>2
  <1>4. SendPathConserves'
    BY <1>1 DEF SendPathConserves, RecvOne, RecvmsgOk
  <1>5. EchoPathConserves'
    BY <1>6, SocketNames, OtherSockets DEF EchoPathConserves, serverVars
  <1>. QED BY <1>2, <1>3, <1>4, <1>5 DEF CallbackSeesAll

\* A message a worker reads goes to the end of its own queue.
LEMMA WorkerRecvOneConserves ==
  ASSUME TypeOK, PathsConserve, NEW c \in Conns, WorkerRecvOne(c), UNCHANGED clientVars
  PROVE  PathsConserve'
  <1>. USE DEF PathsConserve
  <1>. DEFINE s == ServerSock(c)
              m == Head(rcvBuf[s])
  <1>1. s \in Socks /\ RecvmsgOk(s)
    BY SocketNames DEF WorkerRecvOne
  <1>2. UdtReliable'
    BY <1>1, RecvmsgReliable DEF TypeOK
  <1>6. /\ UNCHANGED accepted
        /\ taken'[s] = Append(taken[s], m)
        /\ \A r \in Socks : r # s => taken'[r] = taken[r]
    BY <1>1, RecvmsgFrame DEF TypeOK
  <1>3. SendPathConserves'
    BY <1>6 DEF SendPathConserves, clientVars
  <1>4. CallbackSeesAll'
    BY <1>6, SocketNames, OtherSockets DEF CallbackSeesAll, clientVars
  <1>5. ASSUME NEW d \in Conns
        PROVE  taken'[ServerSock(d)] = accepted'[ServerSock(d)] \o msg_queue_need_send'[d]
    <2>1. taken[ServerSock(d)] = accepted[ServerSock(d)] \o msg_queue_need_send[d]
      BY DEF EchoPathConserves
    <2>2. CASE d = c
      <3>1. /\ accepted[s] \in Seq(Msgs) /\ msg_queue_need_send[c] \in Seq(Msgs) /\ m \in Msgs
        BY <1>1, HeadTailProperties DEF RecvmsgOk, TypeOK, ServerTypeOK, UdtTypeOK
      <3>2. /\ taken'[s] = Append(taken[s], m) /\ UNCHANGED accepted
            /\ msg_queue_need_send'[c] = Append(msg_queue_need_send[c], m)
        BY <1>6 DEF WorkerRecvOne, TypeOK, ServerTypeOK
      <3>. HIDE DEF m
      <3>3. accepted[s] \o Append(msg_queue_need_send[c], m)
              = Append(accepted[s] \o msg_queue_need_send[c], m)
        BY <3>1, MsgAppendLast, Zenon
      <3>. QED BY <2>1, <2>2, <3>2, <3>3
    <2>3. CASE d # c
      BY <1>6, <2>1, <2>3, SocketNames, OtherSockets
         DEF WorkerRecvOne, TypeOK, ServerTypeOK
    <2>. QED BY <2>2, <2>3
  <1>. QED BY <1>2, <1>3, <1>4, <1>5 DEF EchoPathConserves

\* A message a worker echoes leaves its queue as it enters the library.
LEMMA WorkerSendOneConserves ==
  ASSUME TypeOK, PathsConserve, NEW c \in Conns, WorkerSendOne(c), UNCHANGED clientVars
  PROVE  PathsConserve'
  <1>. USE DEF PathsConserve
  <1>. DEFINE s == ServerSock(c)
              m == Head(msg_queue_need_send[c])
  <1>1. /\ s \in Socks /\ accepted[s] \in Seq(Msgs)
        /\ msg_queue_need_send[c] # <<>> /\ msg_queue_need_send[c] \in Seq(Msgs)
        /\ m \in Msgs /\ SendmsgOk(s, m)
    BY SocketNames, HeadTailProperties DEF WorkerSendOne, TypeOK, ServerTypeOK, UdtTypeOK
  <1>2. UdtReliable'
    BY <1>1, SendmsgReliable DEF TypeOK
  <1>6. /\ UNCHANGED taken
        /\ accepted'[s] = Append(accepted[s], m)
        /\ \A r \in Socks : r # s => accepted'[r] = accepted[r]
    BY <1>1, SendmsgFrame DEF TypeOK
  <1>3. SendPathConserves'
    BY <1>6, SocketNames, OtherSockets DEF SendPathConserves, clientVars
  <1>4. CallbackSeesAll'
    BY <1>6 DEF CallbackSeesAll, clientVars
  <1>5. ASSUME NEW d \in Conns
        PROVE  taken'[ServerSock(d)] = accepted'[ServerSock(d)] \o msg_queue_need_send'[d]
    <2>1. taken[ServerSock(d)] = accepted[ServerSock(d)] \o msg_queue_need_send[d]
      BY DEF EchoPathConserves
    <2>2. CASE d = c
      <3>1. /\ accepted'[s] = Append(accepted[s], m) /\ UNCHANGED taken
            /\ msg_queue_need_send'[c] = Tail(msg_queue_need_send[c])
        BY <1>6 DEF WorkerSendOne, TypeOK, ServerTypeOK
      <3>2. Append(accepted[s], m) \o Tail(msg_queue_need_send[c])
              = accepted[s] \o msg_queue_need_send[c]
        BY <1>1, MsgMoveHead, Zenon
      <3>. QED BY <2>1, <2>2, <3>1, <3>2
    <2>3. CASE d # c
      BY <1>6, <2>1, <2>3, SocketNames, OtherSockets
         DEF WorkerSendOne, TypeOK, ServerTypeOK
    <2>. QED BY <2>2, <2>3
  <1>. QED BY <1>2, <1>3, <1>4, <1>5 DEF EchoPathConserves

\* An arrival leaves the queues of both programs alone.
LEMMA TransmitConserves ==
  ASSUME TypeOK, PathsConserve, NEW s \in Socks, Transmit(s),
         UNCHANGED <<clientVars, serverVars>>
  PROVE  PathsConserve'
  <1>. USE DEF PathsConserve
  <1>1. UdtReliable'
    BY TransmitReliable DEF TypeOK
  <1>2. SendPathConserves' /\ EchoPathConserves' /\ CallbackSeesAll'
    BY DEF Transmit, clientVars, serverVars, SendPathConserves, EchoPathConserves,
           CallbackSeesAll
  <1>. QED BY <1>1, <1>2

-----------------------------------------------------------------------------

\* Every step keeps all paths whole.
LEMMA PathsConserveStep ==
  ASSUME TypeOK, PathsConserve, [Next]_vars
  PROVE  PathsConserve'
  <1>1. ASSUME NEW c \in Conns, Moves(c) PROVE PathsConserve'
    BY <1>1, SendMsgConserves, TryGrabMsgConserves, SendOneConserves, RecvOneConserves,
       WorkerRecvOneConserves, WorkerSendOneConserves DEF Moves
  <1>2. ASSUME NEW s \in Socks, Transmit(s) /\ UNCHANGED <<clientVars, serverVars>>
        PROVE  PathsConserve'
    BY <1>2, TransmitConserves
  <1>3. CASE UNCHANGED pathVars
    BY <1>3 DEF pathVars, clientData, flowVars, PathsConserve, SendPathConserves,
                UdtReliable, EchoPathConserves, CallbackSeesAll
  <1>. QED BY <1>1, <1>2, <1>3, MovesOrNot

\* At the start every place is empty.
LEMMA InitPathsConserve == Init => PathsConserve
  <1>1. <<>> \o <<>> = <<>> /\ <<>> \o <<>> \o <<>> = <<>>
    BY EmptySeq, MsgConcatEmpty
  <1>. QED
    BY <1>1, SocketNames, PeerOfPeer
       DEF Init, ClientInit, ServerInit, UdtInit, PathsConserve, SendPathConserves,
           UdtReliable, EchoPathConserves, CallbackSeesAll

\* No message is lost, doubled or overtaken at any place between main() and the callback.
THEOREM NothingLost == Spec => []PathsConserve
  <1>1. TypeOK /\ PathsConserve /\ [Next]_vars => PathsConserve'
    BY PathsConserveStep
  <1>. QED BY <1>1, InitPathsConserve, TypeCorrect, PTL DEF Spec

\* Every message main() made was taken by UDT, or waits in the buffer or the queue.
THEOREM SendPathSafe == Spec => []SendPathConserves
  BY NothingLost, PTL DEF PathsConserve

\* Every message a worker read was sent back on its connection, or waits to be.
THEOREM EchoPathSafe == Spec => []EchoPathConserves
  BY NothingLost, PTL DEF PathsConserve

\* Queue w begins with queue a.
Begins(a, w) == \E rest \in Seq(Msgs) : w = a \o rest

\* Being the beginning of a sequence passes through a longer one.
LEMMA BeginsGrows ==
  \A a, w, more \in Seq(Msgs) : Begins(a, w) => Begins(a, w \o more)
  <1>. SUFFICES ASSUME NEW a \in Seq(Msgs), NEW w \in Seq(Msgs), NEW more \in Seq(Msgs),
                       Begins(a, w)
                PROVE  Begins(a, w \o more)
    OBVIOUS
  <1>1. PICK rest \in Seq(Msgs) : w = a \o rest
    BY DEF Begins
  <1>2. w \o more = a \o (rest \o more) /\ rest \o more \in Seq(Msgs)
    BY <1>1, ConcatAssociative, ConcatProperties
  <1>. QED BY <1>2 DEF Begins

\* Begins is IsPrefix.
LEMMA BeginsIsPrefix ==
  \A a, b, w \in Seq(Msgs) : Begins(a \o b, w) => IsPrefix(a, w)
  <1>. SUFFICES ASSUME NEW a \in Seq(Msgs), NEW b \in Seq(Msgs), NEW w \in Seq(Msgs),
                       Begins(a \o b, w)
                PROVE  IsPrefix(a, w)
    OBVIOUS
  <1>1. PICK rest \in Seq(Msgs) : w = (a \o b) \o rest
    BY DEF Begins
  <1>2. w = a \o (b \o rest) /\ b \o rest \in Seq(Msgs)
    BY <1>1, ConcatAssociative, ConcatProperties
  <1>. QED BY <1>2, FirstIsPrefix

\* All paths of one connection in a row: what the callback saw and what is about to
\* arrive, what is on its way back, in the server, on its way there, and in the client,
\* is what main() made.
LEMMA RoundTrip ==
  ASSUME TypeOK, PathsConserve, NEW c \in Conns
  PROVE  Begins(delivered[c] \o rcvBuf[ClientSock(c)], made[c])
  <1>. DEFINE cs == ClientSock(c)
              ss == ServerSock(c)
              back == delivered[c] \o rcvBuf[cs]
  <1>1. /\ accepted[ss] = back \o sndBuf[ss]
        /\ taken[ss] = accepted[ss] \o msg_queue_need_send[c]
        /\ accepted[cs] = (taken[ss] \o rcvBuf[ss]) \o sndBuf[cs]
        /\ made[c] = (accepted[cs] \o send_msg_buff[c]) \o send_msg_queue[c]
    BY SocketNames DEF PathsConserve, CallbackSeesAll, UdtReliable, EchoPathConserves,
                       SendPathConserves
  <1>2. /\ delivered[c] \in Seq(Msgs) /\ rcvBuf[cs] \in Seq(Msgs) /\ sndBuf[ss] \in Seq(Msgs)
        /\ msg_queue_need_send[c] \in Seq(Msgs) /\ rcvBuf[ss] \in Seq(Msgs)
        /\ sndBuf[cs] \in Seq(Msgs) /\ send_msg_buff[c] \in Seq(Msgs)
        /\ send_msg_queue[c] \in Seq(Msgs)
        /\ accepted[ss] \in Seq(Msgs) /\ taken[ss] \in Seq(Msgs) /\ accepted[cs] \in Seq(Msgs)
    BY SocketNames DEF TypeOK, ClientTypeOK, ServerTypeOK, UdtTypeOK
  <1>3. /\ back \in Seq(Msgs)
        /\ taken[ss] \o rcvBuf[ss] \in Seq(Msgs)
        /\ accepted[cs] \o send_msg_buff[c] \in Seq(Msgs)
    BY <1>2, MsgConcat
  <1>. HIDE DEF cs, ss, back
  <1>4. Begins(back, accepted[ss])
    BY <1>1, <1>2 DEF Begins
  <1>5. Begins(back, taken[ss])
    BY <1>1, <1>2, <1>3, <1>4, BeginsGrows
  <1>6. Begins(back, taken[ss] \o rcvBuf[ss])
    BY <1>2, <1>3, <1>5, BeginsGrows
  <1>7. Begins(back, accepted[cs])
    BY <1>1, <1>2, <1>3, <1>6, BeginsGrows
  <1>8. Begins(back, accepted[cs] \o send_msg_buff[c])
    BY <1>2, <1>3, <1>7, BeginsGrows
  <1>9. Begins(back, made[c])
    BY <1>1, <1>2, <1>3, <1>8, BeginsGrows
  <1>. QED BY <1>9 DEF back, cs

\* What a client's callback saw is the beginning of what the client made.
THEOREM EchoSafe == Spec => []EchoesInOrder
  <1>1. ASSUME TypeOK, PathsConserve, NEW c \in Conns PROVE IsPrefix(delivered[c], made[c])
    <2>1. /\ delivered[c] \in Seq(Msgs) /\ rcvBuf[ClientSock(c)] \in Seq(Msgs)
          /\ made[c] \in Seq(Msgs)
      BY <1>1, SocketNames DEF TypeOK, ClientTypeOK, UdtTypeOK
    <2>2. Begins(delivered[c] \o rcvBuf[ClientSock(c)], made[c])
      BY <1>1, RoundTrip
    <2>. QED BY <2>1, <2>2, BeginsIsPrefix
  <1>2. TypeOK /\ PathsConserve => EchoesInOrder
    BY <1>1 DEF EchoesInOrder
  <1>. QED BY <1>2, TypeCorrect, NothingLost, PTL

-----------------------------------------------------------------------------
(* The refinement.                                                         *)

\* The message a read is about to return is the first one not answered yet.
LEMMA NextAnswer ==
  \A a, b, w \in Seq(Msgs) :
    Begins(a \o b, w) /\ b # <<>> => Len(a) < Len(w) /\ w[Len(a) + 1] = Head(b)
  <1>. SUFFICES ASSUME NEW a \in Seq(Msgs), NEW b \in Seq(Msgs), NEW w \in Seq(Msgs),
                       Begins(a \o b, w), b # <<>>
                PROVE  Len(a) < Len(w) /\ w[Len(a) + 1] = Head(b)
    OBVIOUS
  <1>1. PICK rest \in Seq(Msgs) : w = (a \o b) \o rest
    BY DEF Begins
  <1>2. Len(a) < Len(a \o b) /\ (a \o b)[Len(a) + 1] = Head(b)
    BY ElementAfter
  <1>3. /\ Len(a) \in Nat /\ Len(a \o b) \in Nat /\ Len(rest) \in Nat
        /\ a \o b \in Seq(Msgs)
    BY LenProperties, ConcatProperties
  <1>4. /\ Len(w) = Len(a \o b) + Len(rest)
        /\ w[Len(a) + 1] = (a \o b)[Len(a) + 1]
    BY <1>1, <1>2, <1>3, ConcatProperties
  <1>. QED BY <1>2, <1>3, <1>4

\* Every step is a question, an answer, or a step the service does not have.
LEMMA EchoStep ==
  ASSUME TypeOK, PathsConserve, [Next]_vars
  PROVE  [Echo!Next]_<<made, delivered>>
  <1>1. ASSUME NEW c \in Conns, SendMsg(c) PROVE Echo!Ask(c)
    BY <1>1 DEF SendMsg, Echo!Ask, TypeOK, ClientTypeOK
  <1>2. ASSUME NEW c \in Conns, RecvOne(c) PROVE Echo!Answer(c)
    <2>1. /\ rcvBuf[ClientSock(c)] # <<>>
          /\ delivered' = [delivered EXCEPT ![c] = Append(@, Head(rcvBuf[ClientSock(c)]))]
          /\ UNCHANGED made
      BY <1>2 DEF RecvOne, RecvmsgOk
    <2>2. /\ delivered[c] \in Seq(Msgs) /\ rcvBuf[ClientSock(c)] \in Seq(Msgs)
          /\ made[c] \in Seq(Msgs)
      BY SocketNames DEF TypeOK, ClientTypeOK, UdtTypeOK
    <2>3. /\ Len(delivered[c]) < Len(made[c])
          /\ made[c][Len(delivered[c]) + 1] = Head(rcvBuf[ClientSock(c)])
      BY <2>1, <2>2, RoundTrip, NextAnswer
    <2>. QED BY <2>1, <2>3 DEF Echo!Answer
  <1>3. ASSUME NEW c \in Conns, Moves(c) PROVE [Echo!Next]_<<made, delivered>>
    <2>1. CASE SendMsg(c) \/ RecvOne(c)
      BY <1>1, <1>2, <2>1 DEF Echo!Next
    <2>2. CASE TryGrabMsg(c) \/ SendOne(c) \/ UNCHANGED clientVars
      BY <2>2 DEF TryGrabMsg, SendOne, clientVars
    <2>. QED BY <1>3, <2>1, <2>2 DEF Moves
  <1>4. CASE \E s \in Socks : Transmit(s) /\ UNCHANGED <<clientVars, serverVars>>
    BY <1>4 DEF clientVars
  <1>5. CASE UNCHANGED pathVars
    BY <1>5 DEF pathVars, clientData
  <1>. QED BY <1>3, <1>4, <1>5, MovesOrNot

\* The programs and the library between them implement the service EchoService describes.
THEOREM EchoRefined == Spec => ImplementsEcho
  <1>1. Init => Echo!Init
    BY DEF Init, ClientInit, Echo!Init
  <1>2. TypeOK /\ PathsConserve /\ [Next]_vars => [Echo!Next]_<<made, delivered>>
    BY EchoStep
  <1>. QED BY <1>1, <1>2, TypeCorrect, NothingLost, PTL DEF Spec, ImplementsEcho, Echo!Spec

-----------------------------------------------------------------------------
(* The two ways this system comes to rest: a client that holds back, and a  *)
(* server that gives up. First the client's queue.                          *)

\* main() pushes only after it saw the queue within the limit, and only main() makes the
\* queue longer: what it saw may be old, but never too small.
BacklogInv ==
  \A c \in Conns :
    /\ main[c] # "measure" => Len(send_msg_queue[c]) <= QueueLimit
    /\ Len(send_msg_queue[c]) <= QueueLimit + 1
    /\ Len(send_msg_buff[c]) <= QueueLimit + 1

\* Every step keeps the queue and the buffer within the limit.
LEMMA BacklogStep ==
  ASSUME TypeOK, BacklogInv, [Next]_vars
  PROVE  BacklogInv'
  <1>. SUFFICES ASSUME NEW d \in Conns
                PROVE  /\ main'[d] # "measure" => Len(send_msg_queue'[d]) <= QueueLimit
                       /\ Len(send_msg_queue'[d]) <= QueueLimit + 1
                       /\ Len(send_msg_buff'[d]) <= QueueLimit + 1
    BY DEF BacklogInv
  <1>. USE ClientAssumption
  <1>1. /\ main[d] # "measure" => Len(send_msg_queue[d]) <= QueueLimit
        /\ Len(send_msg_queue[d]) <= QueueLimit + 1
        /\ Len(send_msg_buff[d]) <= QueueLimit + 1
    BY DEF BacklogInv
  <1>2. /\ send_msg_queue[d] \in Seq(Msgs) /\ send_msg_buff[d] \in Seq(Msgs)
        /\ Len(send_msg_queue[d]) \in Nat /\ Len(send_msg_buff[d]) \in Nat
    BY LenProperties DEF TypeOK, ClientTypeOK
  <1>3. ASSUME NEW c \in Conns, ClientStep(c)
        PROVE  /\ main'[d] # "measure" => Len(send_msg_queue'[d]) <= QueueLimit
               /\ Len(send_msg_queue'[d]) <= QueueLimit + 1
               /\ Len(send_msg_buff'[d]) <= QueueLimit + 1
    <2>. USE DEF TypeOK, ClientTypeOK
    <2>1. CASE StartFails(c) \/ StartConnects(c) \/ StartSpawns(c)
      BY <1>1, <2>1 DEF StartFails, StartConnects, StartSpawns, clientData
    <2>2. CASE SendMsg(c)
      <3>1. CASE d = c
        <4>. DEFINE msg == <<c, Len(made[c]) + 1>>
        <4>1. Len(send_msg_queue[c]) <= QueueLimit
          BY <1>1, <2>2, <3>1 DEF SendMsg
        <4>2. Len(made[c]) + 1 \in Nat \ {0}
          BY LenProperties
        <4>3. Len(Append(send_msg_queue[c], msg)) = Len(send_msg_queue[c]) + 1
          BY <4>2, AppendProperties DEF Msgs
        <4>4. /\ main'[c] = "measure" /\ UNCHANGED send_msg_buff
              /\ send_msg_queue'[c] = Append(send_msg_queue[c], msg)
          BY <2>2 DEF SendMsg
        <4>. QED BY <1>1, <1>2, <3>1, <4>1, <4>3, <4>4
      <3>2. CASE d # c
        BY <1>1, <2>2, <3>2 DEF SendMsg
      <3>. QED BY <3>1, <3>2
    <2>3. CASE Measure(c)
      <3>1. UNCHANGED <<send_msg_queue, send_msg_buff>>
        BY <2>3 DEF Measure, clientData
      <3>2. main'[d] = main[d] \/ Len(send_msg_queue[d]) <= QueueLimit
        BY <1>2, <2>3 DEF Measure
      <3>. QED BY <1>1, <3>1, <3>2
    <2>4. CASE TryGrabMsg(c)
      <3>1. UNCHANGED main
        BY <2>4 DEF TryGrabMsg
      <3>2. CASE d = c
        <4>1. send_msg_queue'[c] = <<>> /\ send_msg_buff'[c] = send_msg_queue[c]
          BY <2>4 DEF TryGrabMsg
        <4>2. Len(<<>>) = 0
          BY EmptySeq
        <4>. QED BY <1>1, <3>1, <3>2, <4>1, <4>2
      <3>3. CASE d # c
        BY <1>1, <2>4, <3>3 DEF TryGrabMsg
      <3>. QED BY <3>2, <3>3
    <2>5. CASE SendOne(c)
      <3>1. UNCHANGED <<main, send_msg_queue>>
        BY <2>5 DEF SendOne
      <3>2. CASE d = c
        <4>1. send_msg_buff[c] # <<>> /\ send_msg_buff'[c] = Tail(send_msg_buff[c])
          BY <2>5 DEF SendOne
        <4>2. Len(Tail(send_msg_buff[c])) = Len(send_msg_buff[c]) - 1
          BY <4>1, HeadTailProperties
        <4>. QED BY <1>1, <1>2, <3>1, <3>2, <4>1, <4>2
      <3>3. CASE d # c
        BY <1>1, <2>5, <3>3 DEF SendOne
      <3>. QED BY <3>2, <3>3
    <2>6. CASE UNCHANGED <<main, send_msg_queue, send_msg_buff>>
      BY <1>1, <2>6
    <2>7. CASE \/ RunBoots(c) \/ LoopEnds(c) \/ KeepBuff(c) \/ SendEnds(c) \/ SendFails(c)
               \/ RecvOne(c) \/ RecvEnds(c) \/ RecvFails(c) \/ RunCloses(c)
      BY <2>6, <2>7
         DEF RunBoots, LoopEnds, KeepBuff, SendEnds, SendFails, RecvOne, RecvEnds,
             RecvFails, RunCloses, clientData
    <2>. QED BY <1>3, <2>1, <2>2, <2>3, <2>4, <2>5, <2>7 DEF ClientStep, Main, Run
  <1>4. CASE UNCHANGED clientVars
    BY <1>1, <1>4 DEF clientVars
  <1>. QED BY <1>3, <1>4 DEF Next, Client, Server, Library, vars

\* What main() saw of its queue, and what the I/O thread took over, in every state.
THEOREM BacklogInvHolds == Spec => []BacklogInv
  <1>1. Init => BacklogInv
    <2>1. Len(<<>>) = 0 /\ 0 <= QueueLimit /\ 0 <= QueueLimit + 1
      BY EmptySeq, ClientAssumption
    <2>. QED BY <2>1 DEF Init, ClientInit, BacklogInv
  <1>2. TypeOK /\ BacklogInv /\ [Next]_vars => BacklogInv'
    BY BacklogStep
  <1>. QED BY <1>1, <1>2, TypeCorrect, PTL DEF Spec

\* However long main() sleeps on an old size, neither the queue nor the buffer gets more
\* than one message over the limit.
THEOREM BacklogSafe == Spec => []BacklogBounded
  <1>1. BacklogInv => BacklogBounded
    BY DEF BacklogInv, BacklogBounded
  <1>. QED BY <1>1, BacklogInvHolds, PTL

\* No step moves a client whose I/O thread is over and whose queue is past the limit: main()
\* can only measure again, and another client cannot reach it.
LEMMA StalledStep ==
  ASSUME TypeOK, BacklogInv, [Next]_vars, NEW c \in Conns,
         io[c] = "done", Len(send_msg_queue[c]) > QueueLimit
  PROVE  UNCHANGED <<main[c], io[c], made[c], send_msg_queue[c]>>
  <1>. USE DEF TypeOK, ClientTypeOK
  <1>1. main[c] = "measure"
    <2>1. Len(send_msg_queue[c]) \in Nat
      BY LenProperties
    <2>. QED BY <2>1, ClientAssumption DEF BacklogInv
  <1>2. ASSUME NEW d \in Conns, Main(d)
        PROVE  UNCHANGED <<main[c], io[c], made[c], send_msg_queue[c]>>
    <2>1. CASE d = c
      BY <1>1, <1>2, <2>1
         DEF Main, StartFails, StartConnects, StartSpawns, SendMsg, Measure, clientData
    <2>2. CASE d # c
      BY <1>2, <2>2
         DEF Main, StartFails, StartConnects, StartSpawns, SendMsg, Measure, clientData
    <2>. QED BY <2>1, <2>2
  <1>3. ASSUME NEW d \in Conns, Run(d)
        PROVE  UNCHANGED <<main[c], io[c], made[c], send_msg_queue[c]>>
    <2>1. d # c
      BY <1>3 DEF Run, RunBoots, LoopEnds, TryGrabMsg, KeepBuff, SendOne, SendEnds, SendFails,
                  RecvOne, RecvEnds, RecvFails, RunCloses
    <2>. QED
      BY <1>3, <2>1
         DEF Run, RunBoots, LoopEnds, TryGrabMsg, KeepBuff, SendOne, SendEnds, SendFails,
             RecvOne, RecvEnds, RecvFails, RunCloses, clientData
  <1>4. CASE UNCHANGED clientVars
    BY <1>4 DEF clientVars, clientData
  <1>. QED BY <1>2, <1>3, <1>4 DEF Next, Client, ClientStep, Server, Library, vars

\* A client that stalled behind a stopped I/O thread stays as it is, whatever the rest of the
\* system does.
THEOREM StallIsForGood == Spec => StalledForGood
  <1>1. TypeOK /\ BacklogInv /\ [Next]_vars
          => [\A c \in Conns :
                io[c] = "done" /\ Len(send_msg_queue[c]) > QueueLimit
                  => UNCHANGED <<main[c], io[c], made[c], send_msg_queue[c]>>]_clientVars
    BY StalledStep
  <1>. QED BY <1>1, BacklogInvHolds, TypeCorrect, PTL DEF Spec, StalledForGood

-----------------------------------------------------------------------------
(* The server's end.                                                       *)

\* Why the accept loop may give up.
Failure ==
  \/ listener = "none" /\ \A c \in Conns : worker[c] = "none"
  \/ \E c \in Conns : status[ServerSock(c)] \in {"broken", "closed"}

\* The flag is clear, or the loop is over, only for such a reason; the sockets a worker
\* has, or may get, were connected once.
StopInv ==
  /\ run # "create" /\ srv_running = 0 => Failure
  /\ run \in {"close", "exit", "gone"} => srv_running = 0
  /\ run \in {"top", "accept"} /\ listener = "none" => \A c \in Conns : worker[c] = "none"
  /\ run = "create" => \A c \in Conns : worker[c] = "none"
  /\ \A c \in Conns :
       c \in backlog \/ worker[c] # "none"
         => status[ServerSock(c)] \in {"up", "broken", "closed"}

\* A client touches neither a socket of the server nor the queue of its listener.
LEMMA ClientKeepsServerEnd ==
  ASSUME TypeOK, Client, NEW c \in Conns
  PROVE  /\ status'[ServerSock(c)] = status[ServerSock(c)]
         /\ UNCHANGED <<backlog, listener>>
  <1>. USE SocketNames, OtherSockets DEF TypeOK, UdtTypeOK
  <1>1. ASSUME NEW d \in Conns, StartConnects(d) \/ RunCloses(d)
        PROVE  /\ status'[ServerSock(c)] = status[ServerSock(c)]
               /\ UNCHANGED <<backlog, listener>>
    BY <1>1 DEF StartConnects, ConnectOk, RunCloses, CloseSock
  <1>2. ASSUME NEW d \in Conns,
               \/ StartFails(d) \/ StartSpawns(d) \/ SendMsg(d) \/ Measure(d) \/ RunBoots(d)
               \/ LoopEnds(d) \/ TryGrabMsg(d) \/ KeepBuff(d)
        PROVE  UNCHANGED <<status, backlog, listener>>
    BY <1>2 DEF StartFails, StartSpawns, SendMsg, Measure, RunBoots, LoopEnds, TryGrabMsg,
                KeepBuff, udtVars
  <1>3. ASSUME NEW d \in Conns,
               \/ SendOne(d) \/ SendEnds(d) \/ SendFails(d)
               \/ RecvOne(d) \/ RecvEnds(d) \/ RecvFails(d)
        PROVE  UNCHANGED <<status, backlog, listener>>
    BY <1>3 DEF SendOne, SendEnds, SendFails, RecvOne, RecvEnds, RecvFails, SendmsgOk,
                SendmsgFull, SendmsgError, RecvmsgOk, RecvmsgNothing, RecvmsgLost,
                RecvmsgNoConn, udtVars
  <1>. QED BY <1>1, <1>2, <1>3 DEF Client, ClientStep, Main, Run

\* Nor does the library, but for a handshake, a loss and the collection of a lost socket.
LEMMA LibraryMakesEnd ==
  ASSUME TypeOK, Network, NEW c \in Conns, c \in backlog', c \notin backlog
  PROVE  Handshake(c)
  BY DEF Network, Handshake, Established, Transmit, Break, Collect

\* A lost connection on the server's side stays lost.
LEMMA LostForGood ==
  ASSUME TypeOK, [Next]_vars, NEW c \in Conns,
         status[ServerSock(c)] \in {"broken", "closed"}
  PROVE  status'[ServerSock(c)] \in {"broken", "closed"}
  <1>. USE SocketNames, OtherSockets DEF TypeOK, UdtTypeOK
  <1>2. CASE Client
    BY <1>2, ClientKeepsServerEnd
  <1>3. CASE ServerRun
    BY <1>3
       DEF ServerRun, CreateListenSocket, TestRunning, Accept, AcceptNothing, AcceptFails,
           CloseServer, ProcessExit, udtVars
  <1>4. ASSUME NEW d \in Conns, WorkThread(d)
        PROVE  status'[ServerSock(c)] = status[ServerSock(c)]
    BY <1>4
       DEF WorkThread, WorkerRecvOne, WorkerRecvEnds, WorkerSendOne, WorkerSendEnds,
           WorkerSendFails, SendmsgOk, SendmsgFull, SendmsgError,
           RecvmsgOk, RecvmsgNothing, RecvmsgLost, udtVars
  <1>5. CASE Network
    BY <1>5 DEF Network, Handshake, Established, Transmit, Break, Collect
  <1>6. CASE UNCHANGED vars
    BY <1>6 DEF vars, udtVars
  <1>. QED BY <1>2, <1>3, <1>4, <1>5, <1>6 DEF Next, Server, ServerStep, Library

\* What the steps of the clients and of the library do to the server's end: nothing that
\* they could not do to a healthy connection.
LEMMA OthersStop ==
  ASSUME TypeOK, StopInv, Client \/ Library
  PROVE  StopInv'
  <1>1. UNCHANGED serverVars /\ UNCHANGED listener
    <2>1. CASE Client
      <3>1. PICK d \in Conns : ClientStep(d)
        BY <2>1 DEF Client
      <3>. QED BY <2>1, <3>1, ClientKeepsServerEnd DEF Client
    <2>2. CASE Library
      BY <2>2 DEF Library, Network, Handshake, Established, Transmit, Break, Collect
    <2>. QED BY <2>1, <2>2
  <1>2. Failure => Failure'
    BY <1>1, LostForGood DEF Failure, serverVars, Next
  <1>3. ASSUME NEW c \in Conns, (c \in backlog \/ worker[c] # "none")'
        PROVE  status'[ServerSock(c)] \in {"up", "broken", "closed"}
    <2>. USE SocketNames, OtherSockets DEF TypeOK, UdtTypeOK
    <2>1. CASE c \in backlog \/ worker[c] # "none"
      <3>1. status[ServerSock(c)] \in {"up", "broken", "closed"}
        BY <2>1 DEF StopInv
      <3>2. CASE status[ServerSock(c)] = "up"
        <4>1. CASE Client
          BY <3>2, <4>1, ClientKeepsServerEnd
        <4>2. CASE Library
          BY <3>2, <4>2
             DEF Library, Network, Handshake, Established, Transmit, Break, Collect
        <4>. QED BY <4>1, <4>2
      <3>. QED BY <3>1, <3>2, LostForGood DEF Next
    <2>2. CASE c \notin backlog /\ worker[c] = "none"
      <3>1. c \in backlog' /\ c \notin backlog
        BY <1>1, <1>3, <2>2 DEF serverVars
      <3>2. Handshake(c)
        BY <3>1, ClientKeepsServerEnd, LibraryMakesEnd DEF Library
      <3>. QED BY <3>2 DEF Handshake
    <2>. QED BY <2>1, <2>2
  <1>. QED BY <1>1, <1>2, <1>3 DEF StopInv, serverVars

\* Every step of the server keeps the reasons it may stop for.
LEMMA ServerStops ==
  ASSUME TypeOK, StopInv, Server
  PROVE  StopInv'
  <1>. USE DEF TypeOK, ServerTypeOK
  <1>1. CASE CreateListenSocket
    BY <1>1 DEF CreateListenSocket, StopInv
  <1>2. CASE TestRunning
    BY <1>2 DEF TestRunning, StopInv, Failure, udtVars
  <1>3. ASSUME NEW c \in Conns, Accept(c) PROVE StopInv'
    BY <1>3 DEF Accept, StopInv, Failure
  <1>4. CASE AcceptNothing
    BY <1>4 DEF AcceptNothing, StopInv, Failure, udtVars
  <1>5. CASE AcceptFails
    BY <1>5 DEF AcceptFails, StopInv, Failure, udtVars
  <1>6. CASE CloseServer
    BY <1>6 DEF CloseServer, StopInv, Failure
  <1>7. CASE ProcessExit
    <2>1. ASSUME NEW c \in Conns, status[ServerSock(c)] # "none"
          PROVE  status'[ServerSock(c)] = "closed"
      BY <1>7, <2>1, SocketNames DEF ProcessExit, ServerSock
    <2>2. Failure => Failure'
      BY <1>7, LostForGood DEF ProcessExit, Failure, Next
    <2>3. ASSUME NEW c \in Conns, worker'[c] # "none" PROVE worker[c] # "none"
      BY <1>7, <2>3 DEF ProcessExit
    <2>. QED BY <1>7, <2>1, <2>2, <2>3 DEF ProcessExit, StopInv
  <1>8. ASSUME NEW c \in Conns, WorkThread(c) PROVE StopInv'
    <2>1. CASE WorkerRecvOne(c) \/ WorkerRecvEnds(c) \/ WorkerSendOne(c) \/ WorkerSendEnds(c)
      <3>1. UNCHANGED <<run, srv_running, status, listener, backlog>>
        BY <2>1
           DEF WorkerRecvOne, WorkerRecvEnds, WorkerSendOne, WorkerSendEnds, SendmsgOk,
               SendmsgFull, RecvmsgOk, RecvmsgNothing, RecvmsgLost, udtVars
      <3>2. /\ worker[c] # "none"
            /\ \A d \in Conns : d # c => worker'[d] = worker[d]
        BY <2>1 DEF WorkerRecvOne, WorkerRecvEnds, WorkerSendOne, WorkerSendEnds
      <3>. QED BY <3>1, <3>2 DEF StopInv, Failure
    <2>2. CASE WorkerSendFails(c)
      <3>1. worker[c] # "none" /\ status[ServerSock(c)] # "up"
        BY <2>2 DEF WorkerSendFails, SendmsgError
      <3>2. status[ServerSock(c)] \in {"broken", "closed"}
        BY <3>1 DEF StopInv
      <3>3. UNCHANGED <<run, status, listener, backlog>>
        BY <2>2 DEF WorkerSendFails, SendmsgError, udtVars
      <3>4. \A d \in Conns : d # c => worker'[d] = worker[d]
        BY <2>2 DEF WorkerSendFails
      <3>5. srv_running' = 0
        BY <2>2 DEF WorkerSendFails
      <3>. QED BY <3>1, <3>2, <3>3, <3>4, <3>5 DEF StopInv, Failure
    <2>. QED BY <1>8, <2>1, <2>2 DEF WorkThread
  <1>. QED
    BY <1>1, <1>2, <1>3, <1>4, <1>5, <1>6, <1>7, <1>8 DEF Server, ServerStep, ServerRun

\* The accept loop ends only after a connection was lost on the server's side or because
\* it never could listen, however many clients there are.
THEOREM StopSafe == Spec => []StopsOnlyAfterFailure
  <1>1. Init => StopInv
    BY DEF Init, ServerInit, UdtInit, StopInv
  <1>2. TypeOK /\ StopInv /\ [Next]_vars => StopInv'
    <2>1. TypeOK /\ StopInv /\ UNCHANGED vars => StopInv'
      BY DEF vars, serverVars, udtVars, StopInv, Failure
    <2>. QED BY <2>1, OthersStop, ServerStops DEF Next
  <1>3. StopInv => StopsOnlyAfterFailure
    BY DEF StopInv, Failure, StopsOnlyAfterFailure
  <1>. QED BY <1>1, <1>2, <1>3, TypeCorrect, PTL DEF Spec
=============================================================================
