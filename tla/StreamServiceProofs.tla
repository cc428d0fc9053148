------------------------ MODULE StreamServiceProofs ------------------------
(***************************************************************************)
(* The promises of the stream server, for any number of connections and     *)
(* bytes and any buffer sizes: what a worker keeps, what it has sent back,  *)
(* and when the accept loop may end.                                        *)
(***************************************************************************)
EXTENDS StreamService, StreamServerProofs

\* The bytes of one connection, on their way to the worker and owed by it.
InOrder == \A c \in Conns : ForthInOrder(c) /\ OwesInOrder(c)

ServiceInvariant == TypeOK /\ LoopInv /\ InOrder

\* A client's step keeps the types.
LEMMA ClientType ==
  ASSUME UdtTypeOK, NEW c \in Conns, AnyClient(c)
  PROVE  UdtTypeOK'
  <1>. USE SocketNames
  <1>1. CASE ClientConnects(c)
    BY <1>1 DEF ClientConnects, ConnectOk, UdtTypeOK, flowVars, Statuses
  <1>2. CASE ClientSends(c)
    <2>1. accepted[ClientSock(c)] \in Seq(Msgs)
      BY ConnTypes
    <2>2. <<(<<c, Len(accepted[ClientSock(c)]) + 1>>)>> \in Seq(Msgs)
      <3>1. Len(accepted[ClientSock(c)]) + 1 \in Nat \ {0}
        BY <2>1, LenProperties
      <3>2. <<c, Len(accepted[ClientSock(c)]) + 1>> \in Msgs
        BY <3>1 DEF Msgs
      <3>. QED BY <3>2
    <2>. QED BY <1>2, <2>2, SendTakesType DEF ClientSends
  <1>3. CASE ClientReads(c)
    BY <1>3, RecvReturnsType DEF ClientReads
  <1>. QED BY <1>1, <1>2, <1>3 DEF AnyClient

\* It keeps the order of its own connection and touches no other.
LEMMA ClientInOrder ==
  ASSUME UdtTypeOK, NEW c \in Conns, ForthInOrder(c), OwesInOrder(c),
         NEW d \in Conns, AnyClient(d), UNCHANGED serverVars
  PROVE  ForthInOrder(c)' /\ OwesInOrder(c)'
  <1>. DEFINE cs == ClientSock(c)
              ss == ServerSock(c)
  <1>0. /\ cs \in Socks /\ ss \in Socks /\ ClientSock(d) \in Socks
        /\ ClientSock(d) # ss /\ (c # d => ClientSock(d) # cs)
    BY SocketNames, OtherSockets
  <1>1. ASSUME UNCHANGED <<taken[ss], rcvBuf[ss], sndBuf[cs], accepted[cs], accepted[ss]>>
        PROVE  ForthInOrder(c)' /\ OwesInOrder(c)'
    BY <1>1 DEF ForthInOrder, OwesInOrder, serverVars
  <1>2. CASE ClientConnects(d)
    BY <1>1, <1>2 DEF ClientConnects, ConnectOk, flowVars
  <1>3. CASE ClientReads(d)
    BY <1>0, <1>1, <1>3 DEF ClientReads, RecvReturns, UdtTypeOK
  <1>4. CASE ClientSends(d) /\ c # d
    BY <1>0, <1>1, <1>4 DEF ClientSends, SendTakes, UdtTypeOK
  <1>5. CASE ClientSends(d) /\ c = d
    <2>. DEFINE data == <<(<<c, Len(accepted[cs]) + 1>>)>>
    <2>1. Len(accepted[cs]) + 1 \in Nat \ {0}
      BY <1>0, ConnTypes, LenProperties
    <2>2. <<c, Len(accepted[cs]) + 1>> \in Msgs
      BY <2>1 DEF Msgs
    <2>3. data \in Seq(Msgs) /\ Numbered(data, c, Len(accepted[cs]))
      BY <2>2 DEF Numbered
    <2>4. SendTakes(ClientSock(c), data, 1)
      BY <1>5 DEF ClientSends
    <2>. HIDE DEF data
    <2>5. ForthInOrder(c)'
      BY <2>3, <2>4, SendForth
    <2>6. UNCHANGED <<taken[ss], accepted[ss], msg_buf_need_send>>
      <3>1. ClientSock(d) # ss /\ ClientSock(c) # ss
        BY <1>0, <1>5
      <3>2. /\ taken' = taken
            /\ accepted' = [accepted EXCEPT ![ClientSock(c)] =
                              Recorded(@, SubSeq(data, 1, 1))]
        BY <2>4 DEF SendTakes
      <3>3. accepted'[ss] = accepted[ss]
        BY <1>0, <3>1, <3>2 DEF UdtTypeOK
      <3>. QED BY <3>2, <3>3 DEF serverVars
    <2>7. OwesInOrder(c)'
      BY <2>6 DEF OwesInOrder
    <2>. QED BY <2>5, <2>7
  <1>. QED BY <1>2, <1>3, <1>4, <1>5 DEF AnyClient

\* The network's steps leave the debts alone.
LEMMA NetworkOwes ==
  ASSUME UdtTypeOK, NEW c \in Conns, ForthInOrder(c), OwesInOrder(c),
         Network, UNCHANGED serverVars
  PROVE  ForthInOrder(c)' /\ OwesInOrder(c)'
  BY NetworkInOrder DEF OwesInOrder, serverVars

\* The accept loop's invariant needs the server's steps only: the library never
\* listens by itself.
LEMMA OthersKeepLoop ==
  ASSUME LoopInv, Network \/ (\E c \in Conns : AnyClient(c)), UNCHANGED serverVars
  PROVE  LoopInv'
  <1>1. UNCHANGED listener
    BY DEF Network, Handshake, Established, Transmit, Break, Collect, AnyClient,
           ClientConnects, ClientSends, ClientReads, ConnectOk, SendTakes, RecvReturns
  <1>. QED BY <1>1 DEF LoopInv, serverVars

\* All of it holds initially,
LEMMA ServiceInit == Init => ServiceInvariant
  <1>. SUFFICES ASSUME Init PROVE ServiceInvariant
    OBVIOUS
  <1>. USE EmptySeq
  <1>1. TypeOK
    BY DEF Init, ServerInit, UdtInit, TypeOK, ServerTypeOK, UdtTypeOK, Statuses
  <1>2. LoopInv
    BY DEF Init, ServerInit, UdtInit, LoopInv
  <1>3. ASSUME NEW c \in Conns PROVE ForthInOrder(c) /\ OwesInOrder(c)
    <2>1. /\ \A s \in Socks : /\ sndBuf[s] = <<>> /\ rcvBuf[s] = <<>>
                              /\ accepted[s] = <<>> /\ taken[s] = <<>>
          /\ msg_buf_need_send[c] = <<>>
      BY DEF Init, ServerInit, UdtInit
    <2>2. Len(<<>>) = 0 /\ \A n : Numbered(<<>>, c, n)
      BY DEF Numbered
    <2>3. Pipe(c, <<>>, <<>>, <<>>, <<>>) /\ Debt(c, <<>>, <<>>, <<>>)
      BY <2>2 DEF Pipe, Debt
    <2>. QED BY <2>1, <2>3, SocketNames DEF ForthInOrder, OwesInOrder
  <1>. QED BY <1>1, <1>2, <1>3 DEF ServiceInvariant, InOrder

\* and every step keeps it.
LEMMA ServiceStep == ServiceInvariant /\ [Next]_vars => ServiceInvariant'
  <1>. SUFFICES ASSUME ServiceInvariant, [Next]_vars PROVE ServiceInvariant'
    OBVIOUS
  <1>0. /\ ServerTypeOK /\ UdtTypeOK /\ LoopInv
        /\ \A c \in Conns : ForthInOrder(c) /\ OwesInOrder(c)
    BY DEF ServiceInvariant, TypeOK, InOrder
  <1>1. CASE ServerStep
    <2>1. TypeOK'
      BY <1>0, <1>1, ServerType DEF TypeOK
    <2>2. LoopInv'
      BY <1>0, <1>1, LoopStep
    <2>3. ASSUME NEW c \in Conns PROVE ForthInOrder(c)' /\ OwesInOrder(c)'
      BY <1>0, <1>1, ServerInOrder
    <2>. QED BY <2>1, <2>2, <2>3 DEF ServiceInvariant, InOrder
  <1>2. CASE Network /\ UNCHANGED serverVars
    <2>1. TypeOK'
      BY <1>0, <1>2, NetworkType DEF TypeOK, ServerTypeOK, serverVars
    <2>2. LoopInv'
      BY <1>0, <1>2, OthersKeepLoop
    <2>3. ASSUME NEW c \in Conns PROVE ForthInOrder(c)' /\ OwesInOrder(c)'
      BY <1>0, <1>2, NetworkOwes
    <2>. QED BY <2>1, <2>2, <2>3 DEF ServiceInvariant, InOrder
  <1>3. ASSUME NEW d \in Conns, AnyClient(d), UNCHANGED serverVars PROVE ServiceInvariant'
    <2>1. TypeOK'
      BY <1>0, <1>3, ClientType DEF TypeOK, ServerTypeOK, serverVars
    <2>2. LoopInv'
      BY <1>0, <1>3, OthersKeepLoop
    <2>3. ASSUME NEW c \in Conns PROVE ForthInOrder(c)' /\ OwesInOrder(c)'
      BY <1>0, <1>3, ClientInOrder
    <2>. QED BY <2>1, <2>2, <2>3 DEF ServiceInvariant, InOrder
  <1>4. CASE UNCHANGED vars
    BY <1>0, <1>4 DEF ServiceInvariant, InOrder, TypeOK, ServerTypeOK, UdtTypeOK, LoopInv,
                      ForthInOrder, OwesInOrder, vars, serverVars, udtVars
  <1>. QED BY <1>1, <1>2, <1>3, <1>4 DEF Next

\* The inductive invariant of the stream server with any clients.
THEOREM ServiceInvariantHolds == Spec => []ServiceInvariant
  <1>1. Init => ServiceInvariant
    BY ServiceInit
  <1>2. ServiceInvariant /\ [Next]_vars => ServiceInvariant'
    BY ServiceStep
  <1>. QED BY <1>1, <1>2, PTL DEF Spec

\* The programs' variables and the sockets stay in their types.
THEOREM TypeCorrect == Spec => []TypeOK
  BY ServiceInvariantHolds, PTL DEF ServiceInvariant

\* No lost connection ends the server: the accept loop ends only if it never could listen,
\* and then there is no worker either.
THEOREM ServerOutlivesItsClients == Spec => []OutlivesItsClients
  <1>1. ServiceInvariant => OutlivesItsClients
    BY DEF ServiceInvariant, LoopInv, OutlivesItsClients
  <1>. QED BY <1>1, ServiceInvariantHolds, PTL

\* What an order says of a worker, connection by connection.
LEMMA WorkerFacts ==
  ASSUME ServiceInvariant, NEW c \in Conns
  PROVE  LET t == taken[ServerSock(c)]
             b == accepted[ServerSock(c)]
             o == msg_buf_need_send[c]
         IN /\ t \in Seq(Msgs) /\ b \in Seq(Msgs) /\ o \in Seq(Msgs)
            /\ Numbered(t, c, 0) /\ Debt(c, t, o, b)
  <1>1. ServerTypeOK /\ UdtTypeOK /\ ForthInOrder(c) /\ OwesInOrder(c)
    BY DEF ServiceInvariant, TypeOK, InOrder
  <1>. QED BY <1>1, ConnTypes, SocketNames DEF ServerTypeOK, ForthInOrder, OwesInOrder, Pipe

\* A worker keeps the last bytes it read, whole and in order, however reads, full and partial
\* sends and losses follow each other.
THEOREM WorkerOwesTheRest == Spec => []OwesTheRest
  <1>1. ASSUME ServiceInvariant, NEW c \in Conns
        PROVE  IsSuffix(msg_buf_need_send[c], taken[ServerSock(c)])
    <2>. DEFINE t == taken[ServerSock(c)]
                o == msg_buf_need_send[c]
    <2>1. /\ t \in Seq(Msgs) /\ o \in Seq(Msgs) /\ Numbered(t, c, 0)
          /\ Len(o) <= Len(t) /\ Numbered(o, c, Len(t) - Len(o))
      BY <1>1, WorkerFacts DEF Debt
    <2>. HIDE DEF t, o
    <2>2. IsSuffix(o, t)
      BY <2>1, NumberedSuffix
    <2>. QED BY <2>2 DEF t, o
  <1>2. ServiceInvariant => OwesTheRest
    BY <1>1 DEF OwesTheRest
  <1>. QED BY <1>2, ServiceInvariantHolds, PTL

\* Resending a part never leaves a gap: without the repeats, what went back is a prefix of
\* what was read, and what is still kept reaches up to its end.
THEOREM NoGapInReplies == Spec => []RepliesHaveNoGap
  <1>1. ASSUME ServiceInvariant, NEW c \in Conns
        PROVE  /\ IsPrefix(accepted[ServerSock(c)], taken[ServerSock(c)])
               /\ Len(accepted[ServerSock(c)]) + Len(msg_buf_need_send[c])
                    >= Len(taken[ServerSock(c)])
    <2>. DEFINE t == taken[ServerSock(c)]
                b == accepted[ServerSock(c)]
                o == msg_buf_need_send[c]
    <2>1. /\ t \in Seq(Msgs) /\ b \in Seq(Msgs) /\ o \in Seq(Msgs)
          /\ Numbered(t, c, 0) /\ Numbered(b, c, 0)
          /\ Len(b) <= Len(t) /\ Len(t) <= Len(b) + Len(o)
      BY <1>1, WorkerFacts DEF Debt
    <2>. HIDE DEF t, b, o
    <2>2. IsPrefix(b, t)
      BY <2>1, NumberedPrefix
    <2>3. Len(b) + Len(o) >= Len(t)
      BY <2>1, LenProperties
    <2>. QED BY <2>2, <2>3 DEF t, b, o
  <1>2. ServiceInvariant => RepliesHaveNoGap
    BY <1>1 DEF RepliesHaveNoGap
  <1>. QED BY <1>2, ServiceInvariantHolds, PTL
=============================================================================
