---------------------------- MODULE DgramServer ----------------------------
(***************************************************************************)
(* udt_dgram_server: UDTServer::Run accepts connections and starts one      *)
(* detached WorkThread per connection, which echoes every message. All      *)
(* threads share udt_running_, a plain int: a worker writes it, Run reads   *)
(* it. When Run returns, main() returns and the process takes the workers   *)
(* with it.                                                                 *)
(***************************************************************************)
EXTENDS UdtDgram

VARIABLES
  run,             \* what UDTServer::Run does next
  srv_running,     \* udt_running_ of the server
  worker,          \* connection -> what its WorkThread does next
  msg_queue_need_send  \* connection -> messages received and not echoed

serverVars == <<run, srv_running, worker, msg_queue_need_send>>

ServerTypeOK ==
  /\ run \in {"create", "top", "accept", "close", "exit", "gone"}
  /\ srv_running \in {0, 1}
  /\ worker \in [Conns -> {"none", "recv", "send", "dead"}]
  /\ msg_queue_need_send \in [Conns -> Seq(Msgs)]

ServerInit ==
  /\ run = "create"
  /\ srv_running = 0
  /\ worker = [c \in Conns |-> "none"]
  /\ msg_queue_need_send = [c \in Conns |-> <<>>]

-----------------------------------------------------------------------------
(* UDTServer::Run and main().                                              *)

\* CreateListenSocket may fail (no socket, no bind, no listen); Run ignores the result.
CreateListenSocket ==
  /\ run = "create"
  /\ listener' \in {"none", "listening"}
  /\ srv_running' = 1
  /\ run' = "top"
  /\ UNCHANGED <<status, backlog, flowVars, worker, msg_queue_need_send>>

\* Mutant of TestRunning: while (true).
TestRunningNever ==
  /\ run = "top"
  /\ run' = "accept"
  /\ UNCHANGED <<srv_running, worker, msg_queue_need_send, udtVars>>

\* while (udt_running_): read here, the accept comes after it.
TestRunning ==
  /\ run = "top"
  /\ run' = IF srv_running # 0 THEN "accept" ELSE "close"
  /\ UNCHANGED <<srv_running, worker, msg_queue_need_send, udtVars>>

\* accept returns a connection: a WorkThread is started for it.
Accept(c) ==
  /\ run = "accept"
  /\ listener = "listening"
  /\ c \in backlog
  /\ backlog' = backlog \ {c}
  /\ worker' = [worker EXCEPT ![c] = "recv"]
  /\ run' = "top"
  /\ UNCHANGED <<srv_running, msg_queue_need_send, status, listener, flowVars>>

\* EASYNCRCV: no connection now, try again.
AcceptNothing ==
  /\ run = "accept"
  /\ listener = "listening"
  /\ backlog = {}
  /\ run' = "top"
  /\ UNCHANGED <<srv_running, worker, msg_queue_need_send, udtVars>>

\* Any other error, as on a socket that does not listen, ends the loop.
AcceptFails ==
  /\ run = "accept"
  /\ listener = "none"
  /\ srv_running' = 0
  /\ run' = "close"
  /\ UNCHANGED <<worker, msg_queue_need_send, udtVars>>

\* UDT::close(listen_sock_); Run returns.
CloseServer ==
  /\ run = "close"
  /\ listener' = "none"
  /\ run' = "exit"
  /\ UNCHANGED <<srv_running, worker, msg_queue_need_send, status, backlog, flowVars>>

\* main() returns: the process ends, with its threads and its sockets.
ProcessExit ==
  /\ run = "exit"
  /\ run' = "gone"
  /\ worker' = [c \in Conns |-> IF worker[c] = "none" THEN "none" ELSE "dead"]
  /\ status' = [s \in Socks |->
                  IF s[2] = "server" /\ status[s] # "none" THEN "closed" ELSE status[s]]
  /\ backlog' = {}
  /\ UNCHANGED <<srv_running, msg_queue_need_send, listener, flowVars>>

ServerRun ==
  \/ CreateListenSocket \/ TestRunning \/ (\E c \in Conns : Accept(c))
  \/ AcceptNothing \/ AcceptFails \/ CloseServer \/ ProcessExit

-----------------------------------------------------------------------------
(* UDTServer::WorkThread for connection c.                                 *)

\* Mutant of WorkerRecvOne: a stack in place of the queue.
WorkerRecvOneInFront(c) ==
  /\ worker[c] = "recv"
  /\ RecvmsgOk(ServerSock(c))
  /\ msg_queue_need_send' =
       [msg_queue_need_send EXCEPT ![c] = <<Head(rcvBuf[ServerSock(c)])>> \o @]
  /\ UNCHANGED <<run, srv_running, worker>>

\* TryRecvMsg: a message is queued for the way back, and the loop reads again.
WorkerRecvOne(c) ==
  /\ worker[c] = "recv"
  /\ RecvmsgOk(ServerSock(c))
  /\ msg_queue_need_send' =
       [msg_queue_need_send EXCEPT ![c] = Append(@, Head(rcvBuf[ServerSock(c)]))]
  /\ UNCHANGED <<run, srv_running, worker>>

\* Mutant of WorkerRecvEnds: EASYNCRCV is taken for a failure.
WorkerRecvEndsStops(c) ==
  /\ worker[c] = "recv"
  /\ RecvmsgNothing(ServerSock(c)) \/ RecvmsgLost(ServerSock(c))
  /\ srv_running' = 0
  /\ worker' = [worker EXCEPT ![c] = "send"]
  /\ UNCHANGED <<run, msg_queue_need_send>>

\* EASYNCRCV, ECONNLOST or EINVSOCK: the reading ends, the thread goes on.
WorkerRecvEnds(c) ==
  /\ worker[c] = "recv"
  /\ RecvmsgNothing(ServerSock(c)) \/ RecvmsgLost(ServerSock(c))
  /\ worker' = [worker EXCEPT ![c] = "send"]
  /\ UNCHANGED <<run, srv_running, msg_queue_need_send>>

\* TrySendMsg: one message echoed and popped, the loop goes on.
WorkerSendOne(c) ==
  /\ worker[c] = "send"
  /\ msg_queue_need_send[c] # <<>>
  /\ SendmsgOk(ServerSock(c), Head(msg_queue_need_send[c]))
  /\ msg_queue_need_send' = [msg_queue_need_send EXCEPT ![c] = Tail(@)]
  /\ UNCHANGED <<run, srv_running, worker>>

\* Mutant of WorkerSendEnds: the message is popped although it was not sent.
WorkerSendEndsPops(c) ==
  /\ worker[c] = "send"
  /\ \/ msg_queue_need_send[c] = <<>> /\ UNCHANGED <<msg_queue_need_send, udtVars>>
     \/ /\ msg_queue_need_send[c] # <<>> /\ SendmsgFull(ServerSock(c))
        /\ msg_queue_need_send' = [msg_queue_need_send EXCEPT ![c] = Tail(@)]
  /\ worker' = [worker EXCEPT ![c] = "recv"]
  /\ UNCHANGED <<run, srv_running>>

\* Nothing left to echo, or no room now: sleep, then the next round.
WorkerSendEnds(c) ==
  /\ worker[c] = "send"
  /\ \/ msg_queue_need_send[c] = <<>> /\ UNCHANGED udtVars
     \/ msg_queue_need_send[c] # <<>> /\ SendmsgFull(ServerSock(c))
  /\ worker' = [worker EXCEPT ![c] = "recv"]
  /\ UNCHANGED <<run, srv_running, msg_queue_need_send>>

\* Mutant of WorkerSendFails: the flag is counted down, once per failed send.
WorkerSendFailsCounts(c) ==
  /\ worker[c] = "send"
  /\ msg_queue_need_send[c] # <<>>
  /\ SendmsgError(ServerSock(c))
  /\ srv_running' = srv_running - 1
  /\ worker' = [worker EXCEPT ![c] = "recv"]
  /\ UNCHANGED <<run, msg_queue_need_send>>

\* Any other error clears the flag the accept loop tests; this thread goes on.
WorkerSendFails(c) ==
  /\ worker[c] = "send"
  /\ msg_queue_need_send[c] # <<>>
  /\ SendmsgError(ServerSock(c))
  /\ srv_running' = 0
  /\ worker' = [worker EXCEPT ![c] = "recv"]
  /\ UNCHANGED <<run, msg_queue_need_send>>

WorkThread(c) ==
  \/ WorkerRecvOne(c) \/ WorkerRecvEnds(c)
  \/ WorkerSendOne(c) \/ WorkerSendEnds(c) \/ WorkerSendFails(c)

ServerStep == ServerRun \/ \E c \in Conns : WorkThread(c)

-----------------------------------------------------------------------------
(* What the server promises.                                               *)

\* What the worker read and has not sent back waits in its queue, in order and once,
\* on its own connection (WorkThread, TryRecvMsg, TrySendMsg).
EchoPathConserves ==
  \A c \in Conns :
    taken[ServerSock(c)] = accepted[ServerSock(c)] \o msg_queue_need_send[c]

\* The accept loop gives up only after a connection was lost on the server's side or
\* the listening socket never worked: no step of a healthy connection stops it.
StopsOnlyAfterFailure ==
  run \in {"close", "exit", "gone"} =>
    \/ listener = "none" /\ \A c \in Conns : worker[c] = "none"
    \/ \E c \in Conns : status[ServerSock(c)] \in {"broken", "closed"}
=============================================================================
