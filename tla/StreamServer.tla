---------------------------- MODULE StreamServer ----------------------------
(***************************************************************************)
(* udt_stream_server: as the datagram server, but a worker keeps the bytes  *)
(* it owes in one string, hands UDT the whole of it each round, and tells   *)
(* nobody when the connection is lost.                                      *)
(***************************************************************************)
EXTENDS UdtStream

VARIABLES
  run,               \* what UDTServer::Run does next
  worker,            \* connection -> what its WorkThread does next
  msg_buf_need_send  \* connection -> bytes received and not erased

serverVars == <<run, worker, msg_buf_need_send>>

ServerTypeOK ==
  /\ run \in {"create", "accept", "close", "exit", "gone"}
  /\ worker \in [Conns -> {"none", "recv", "send", "dead"}]
  /\ msg_buf_need_send \in [Conns -> Seq(Msgs)]

ServerInit ==
  /\ run = "create"
  /\ worker = [c \in Conns |-> "none"]
  /\ msg_buf_need_send = [c \in Conns |-> <<>>]

-----------------------------------------------------------------------------
(* UDTServer::Run and main().                                              *)

\* CreateListenSocket may fail; Run ignores the result.
CreateListenSocket ==
  /\ run = "create"
  /\ listener' \in {"none", "listening"}
  /\ run' = "accept"
  /\ UNCHANGED <<status, backlog, flowVars, worker, msg_buf_need_send>>

\* while (true): a WorkThread for each connection. EASYNCRCV changes nothing here.
Accept(c) ==
  /\ run = "accept"
  /\ listener = "listening"
  /\ c \in backlog
  /\ backlog' = backlog \ {c}
  /\ worker' = [worker EXCEPT ![c] = "recv"]
  /\ UNCHANGED <<run, msg_buf_need_send, status, listener, flowVars>>

\* Any other error, as on a socket that does not listen, ends the loop.
AcceptFails ==
  /\ run = "accept"
  /\ listener = "none"
  /\ run' = "close"
  /\ UNCHANGED <<worker, msg_buf_need_send, udtVars>>

\* UDT::close(listen_sock_); Run returns.
CloseServer ==
  /\ run = "close"
  /\ listener' = "none"
  /\ run' = "exit"
  /\ UNCHANGED <<worker, msg_buf_need_send, status, backlog, flowVars>>

\* main() returns: the process ends, with its threads and its sockets.
ProcessExit ==
  /\ run = "exit"
  /\ run' = "gone"
  /\ worker' = [c \in Conns |-> IF worker[c] = "none" THEN "none" ELSE "dead"]
  /\ status' = [s \in Socks |->
                  IF s[2] = "server" /\ status[s] # "none" THEN "closed" ELSE status[s]]
  /\ backlog' = {}
  /\ UNCHANGED <<msg_buf_need_send, listener, flowVars>>

ServerRun ==
  CreateListenSocket \/ (\E c \in Conns : Accept(c)) \/ AcceptFails \/ CloseServer
    \/ ProcessExit

-----------------------------------------------------------------------------
(* UDTServer::WorkThread for connection c.                                 *)

\* Mutant of WorkerRecv: the string is assigned, not appended to.
WorkerRecvAssigns(c) ==
  /\ worker[c] = "recv"
  /\ \E k \in 1 .. RcvCap :
       /\ RecvReturns(ServerSock(c), k)
       /\ msg_buf_need_send' =
            [msg_buf_need_send EXCEPT ![c] = SubSeq(rcvBuf[ServerSock(c)], 1, k)]
  /\ UNCHANGED <<run, worker>>

\* Mutant of WorkerRecv: the string is built with one character too many.
WorkerRecvTerminated(c) ==
  /\ worker[c] = "recv"
  /\ \E k \in 1 .. RcvCap :
       /\ RecvReturns(ServerSock(c), k)
       /\ msg_buf_need_send' =
            [msg_buf_need_send EXCEPT
               ![c] = @ \o Append(SubSeq(rcvBuf[ServerSock(c)], 1, k), <<c, 0>>)]
  /\ UNCHANGED <<run, worker>>

\* TryRecvMsg: what recv returned is appended, and the loop reads again.
WorkerRecv(c) ==
  /\ worker[c] = "recv"
  /\ \E k \in 1 .. RcvCap :
       /\ RecvReturns(ServerSock(c), k)
       /\ msg_buf_need_send' =
            [msg_buf_need_send EXCEPT ![c] = @ \o SubSeq(rcvBuf[ServerSock(c)], 1, k)]
  /\ UNCHANGED <<run, worker>>

\* DoRecvMsg returns "": nothing to read, or any error; the thread goes on.
WorkerRecvEnds(c) ==
  /\ worker[c] = "recv"
  /\ RecvmsgNothing(ServerSock(c)) \/ RecvmsgLost(ServerSock(c))
  /\ worker' = [worker EXCEPT ![c] = "send"]
  /\ UNCHANGED <<run, msg_buf_need_send>>

\* TrySendMsg: send took the whole string, and it is erased.
WorkerSendAll(c) ==
  /\ worker[c] = "send"
  /\ SendTakes(ServerSock(c), msg_buf_need_send[c], Len(msg_buf_need_send[c]))
  /\ msg_buf_need_send' = [msg_buf_need_send EXCEPT ![c] = <<>>]
  /\ worker' = [worker EXCEPT ![c] = "recv"]
  /\ UNCHANGED run

\* Mutant of WorkerSendPart: erase(k), which erases what comes after the part.
WorkerSendPartErasesRest(c) ==
  /\ worker[c] = "send"
  /\ \E k \in 1 .. SndCap :
       /\ k < Len(msg_buf_need_send[c])
       /\ SendTakes(ServerSock(c), msg_buf_need_send[c], k)
       /\ msg_buf_need_send' = [msg_buf_need_send EXCEPT ![c] = SubSeq(@, 1, k)]
  /\ worker' = [worker EXCEPT ![c] = "recv"]
  /\ UNCHANGED run

\* send took a part: DoSendMsg says "not all msg send!" and returns 0, so TrySendMsg
\* erases nothing, and the next round sends the part again.
WorkerSendPart(c) ==
  /\ worker[c] = "send"
  /\ \E k \in 1 .. SndCap :
       /\ k < Len(msg_buf_need_send[c])
       /\ SendTakes(ServerSock(c), msg_buf_need_send[c], k)
  /\ worker' = [worker EXCEPT ![c] = "recv"]
  /\ UNCHANGED <<run, msg_buf_need_send>>

\* Mutant of WorkerSendNone: a lost connection ends the accept loop.
WorkerSendNoneStops(c) ==
  /\ worker[c] = "send"
  /\ msg_buf_need_send[c] = <<>> \/ SendmsgFull(ServerSock(c)) \/ SendmsgError(ServerSock(c))
  /\ run' = IF status[ServerSock(c)] # "up" /\ run = "accept" THEN "close" ELSE run
  /\ worker' = [worker EXCEPT ![c] = "recv"]
  /\ UNCHANGED <<msg_buf_need_send, udtVars>>

\* Nothing to send, no room (EASYNCSND), or the connection is lost: sleep, then again.
WorkerSendNone(c) ==
  /\ worker[c] = "send"
  /\ msg_buf_need_send[c] = <<>> \/ SendmsgFull(ServerSock(c)) \/ SendmsgError(ServerSock(c))
  /\ worker' = [worker EXCEPT ![c] = "recv"]
  /\ UNCHANGED <<run, msg_buf_need_send, udtVars>>

WorkThread(c) ==
  \/ WorkerRecv(c) \/ WorkerRecvEnds(c)
  \/ WorkerSendAll(c) \/ WorkerSendPart(c) \/ WorkerSendNone(c)

ServerStep == ServerRun \/ \E c \in Conns : WorkThread(c)

-----------------------------------------------------------------------------
(* What the server promises.                                               *)

\* The string a worker keeps is the last bytes it read, whole and in order: a byte
\* leaves only from the front, after every byte before it (TryRecvMsg, TrySendMsg).
OwesTheRest ==
  \A c \in Conns : IsSuffix(msg_buf_need_send[c], taken[ServerSock(c)])

\* However often a part is sent again, the bytes go back in order without a gap: a
\* client that dropped repeats would read its own stream.
RepliesHaveNoGap ==
  \A c \in Conns :
    /\ IsPrefix(accepted[ServerSock(c)], taken[ServerSock(c)])
    /\ Len(accepted[ServerSock(c)]) + Len(msg_buf_need_send[c]) >= Len(taken[ServerSock(c)])

\* No lost connection ends the accept loop: it ends only when it never could listen.
OutlivesItsClients ==
  run \in {"close", "exit", "gone"} =>
    listener = "none" /\ \A c \in Conns : worker[c] = "none"

\* "return the actual size of data that has been sent" (udt_server.cpp, DoSendMsg): what
\* the caller erases is as much as UDT took.
ReturnsActualSize ==
  [][\A c \in Conns :
       worker[c] = "send" /\ worker'[c] = "recv" =>
         Len(sndBuf'[ServerSock(c)]) - Len(sndBuf[ServerSock(c)])
           = Len(msg_buf_need_send[c]) - Len(msg_buf_need_send'[c])]_serverVars
=============================================================================
