---------------------------- MODULE DgramClient ----------------------------
(***************************************************************************)
(* udt_dgram_client: main() makes a message every 50 ms and pushes it to    *)
(* send_msg_queue_; the thread UDTClient::Run started moves the queue to    *)
(* send_msg_buff_, sends it, and hands what arrives to the callback.        *)
(*                                                                         *)
(* The queue is the thread-safe queue of module ThreadsafeQueue, whose      *)
(* methods take effect in one step, so a call of one is one step here.      *)
(* send_msg_buff_, udt_running_ and udtbuf_ belong to the I/O thread alone. *)
(***************************************************************************)
EXTENDS UdtDgram

CONSTANTS
  QueueLimit,   \* main() waits while the queue is longer than this (2 in the code)
  MaxMsgs       \* bound: messages one client makes

ASSUME ClientAssumption == QueueLimit \in Nat /\ MaxMsgs \in Nat

VARIABLES
  main,             \* client -> what main() does next
  io,               \* client -> what the I/O thread does next
  udt_running,      \* client -> udt_running_
  send_msg_queue,   \* client -> messages pushed and not grabbed
  send_msg_buff,    \* client -> messages grabbed and not sent
  made,             \* history: client -> messages main() made
  delivered         \* history: client -> messages given to the callback

clientVars ==
  <<main, io, udt_running, send_msg_queue, send_msg_buff, made, delivered>>
clientData == <<send_msg_queue, send_msg_buff, made, delivered>>

ClientTypeOK ==
  /\ main \in [Conns -> {"start", "settle", "push", "measure", "exit"}]
  /\ io \in [Conns -> {"none", "boot", "top", "send", "recv", "close", "done"}]
  /\ udt_running \in [Conns -> {0, 1}]
  /\ send_msg_queue \in [Conns -> Seq(Msgs)]
  /\ send_msg_buff \in [Conns -> Seq(Msgs)]
  /\ made \in [Conns -> Seq(Msgs)]
  /\ delivered \in [Conns -> Seq(Msgs)]

ClientInit ==
  /\ main = [c \in Conns |-> "start"]
  /\ io = [c \in Conns |-> "none"]
  /\ udt_running = [c \in Conns |-> 0]
  /\ send_msg_queue = [c \in Conns |-> <<>>]
  /\ send_msg_buff = [c \in Conns |-> <<>>]
  /\ made = [c \in Conns |-> <<>>]
  /\ delivered = [c \in Conns |-> <<>>]

-----------------------------------------------------------------------------
(* main().                                                                 *)

\* Start() fails: no socket, or connect() refused at once. main() returns.
StartFails(c) ==
  /\ main[c] = "start"
  /\ main' = [main EXCEPT ![c] = "exit"]
  /\ UNCHANGED <<io, udt_running, clientData, udtVars>>

\* Start() up to its five-second sleep: connect() came back without an error.
StartConnects(c) ==
  /\ main[c] = "start"
  /\ ConnectOk(c)
  /\ main' = [main EXCEPT ![c] = "settle"]
  /\ UNCHANGED <<io, udt_running, clientData>>

\* The sleep is over: whatever became of the connection, the thread is started.
StartSpawns(c) ==
  /\ main[c] = "settle"
  /\ main' = [main EXCEPT ![c] = "push"]
  /\ io' = [io EXCEPT ![c] = "boot"]
  /\ UNCHANGED <<udt_running, clientData, udtVars>>

\* make_test_str, SendMsg: send_msg_queue_.push(msg). Then 50 ms of sleep.
SendMsg(c) ==
  /\ main[c] = "push"
  /\ Len(made[c]) < MaxMsgs
  /\ LET msg == <<c, Len(made[c]) + 1>>
     IN /\ made' = [made EXCEPT ![c] = Append(@, msg)]
        /\ send_msg_queue' = [send_msg_queue EXCEPT ![c] = Append(@, msg)]
  /\ main' = [main EXCEPT ![c] = "measure"]
  /\ UNCHANGED <<io, udt_running, send_msg_buff, delivered, udtVars>>

\* Mutant of Measure: the limit is off by one.
MeasureOffByOne(c) ==
  /\ main[c] = "measure"
  /\ main' = IF Len(send_msg_queue[c]) > QueueLimit + 1
             THEN main ELSE [main EXCEPT ![c] = "push"]
  /\ UNCHANGED <<io, udt_running, clientData, udtVars>>

\* Mutant of Measure: the wait ends once the I/O thread has stopped, and main() returns.
MeasureGivesUp(c) ==
  /\ main[c] = "measure"
  /\ main' = [main EXCEPT ![c] =
       IF Len(send_msg_queue[c]) <= QueueLimit THEN "push"
       ELSE IF io[c] = "done" THEN "exit" ELSE @]
  /\ UNCHANGED <<io, udt_running, clientData, udtVars>>

\* SendMsgQueueSize, and the test of the while loop on the value it returned.
Measure(c) ==
  /\ main[c] = "measure"
  /\ main' = IF Len(send_msg_queue[c]) > QueueLimit
             THEN main ELSE [main EXCEPT ![c] = "push"]
  /\ UNCHANGED <<io, udt_running, clientData, udtVars>>

Main(c) ==
  StartFails(c) \/ StartConnects(c) \/ StartSpawns(c) \/ SendMsg(c) \/ Measure(c)

-----------------------------------------------------------------------------
(* UDTClient::Run.                                                         *)

RunBoots(c) ==
  /\ io[c] = "boot"
  /\ udt_running' = [udt_running EXCEPT ![c] = 1]
  /\ io' = [io EXCEPT ![c] = "top"]
  /\ UNCHANGED <<main, clientData, udtVars>>

\* The loop ends once udt_running_ is 0.
LoopEnds(c) ==
  /\ io[c] = "top"
  /\ udt_running[c] = 0
  /\ io' = [io EXCEPT ![c] = "close"]
  /\ UNCHANGED <<main, udt_running, clientData, udtVars>>

\* Mutant of TryGrabMsg: the queue is grabbed whatever the buffer still holds.
TryGrabMsgAlways(c) ==
  /\ io[c] = "top"
  /\ udt_running[c] # 0
  /\ send_msg_buff' = [send_msg_buff EXCEPT ![c] = send_msg_queue[c]]
  /\ send_msg_queue' = [send_msg_queue EXCEPT ![c] = <<>>]
  /\ io' = [io EXCEPT ![c] = "send"]
  /\ UNCHANGED <<main, udt_running, made, delivered, udtVars>>

\* TryGrabMsg: send_msg_buff_ = send_msg_queue_.grab_all(), called on an empty buffer.
TryGrabMsg(c) ==
  /\ io[c] = "top"
  /\ udt_running[c] # 0
  /\ send_msg_buff[c] = <<>>
  /\ send_msg_buff' = [send_msg_buff EXCEPT ![c] = send_msg_queue[c]]
  /\ send_msg_queue' = [send_msg_queue EXCEPT ![c] = <<>>]
  /\ io' = [io EXCEPT ![c] = "send"]
  /\ UNCHANGED <<main, udt_running, made, delivered, udtVars>>

\* A buffer with something left from the last round is kept.
KeepBuff(c) ==
  /\ io[c] = "top"
  /\ udt_running[c] # 0
  /\ send_msg_buff[c] # <<>>
  /\ io' = [io EXCEPT ![c] = "send"]
  /\ UNCHANGED <<main, udt_running, clientData, udtVars>>

\* Mutant of SendOne: the message sent is not popped.
SendOneKeeps(c) ==
  /\ io[c] = "send"
  /\ send_msg_buff[c] # <<>>
  /\ SendmsgOk(ClientSock(c), Head(send_msg_buff[c]))
  /\ UNCHANGED <<main, io, udt_running, send_msg_buff, send_msg_queue, made, delivered>>

\* TrySendMsg: one message sent and popped, the loop goes on.
SendOne(c) ==
  /\ io[c] = "send"
  /\ send_msg_buff[c] # <<>>
  /\ SendmsgOk(ClientSock(c), Head(send_msg_buff[c]))
  /\ send_msg_buff' = [send_msg_buff EXCEPT ![c] = Tail(@)]
  /\ UNCHANGED <<main, io, udt_running, send_msg_queue, made, delivered>>

\* TrySendMsg returns: nothing left, or EASYNCSND and the message stays in front.
SendEnds(c) ==
  /\ io[c] = "send"
  /\ \/ send_msg_buff[c] = <<>> /\ UNCHANGED udtVars
     \/ send_msg_buff[c] # <<>> /\ SendmsgFull(ClientSock(c))
  /\ io' = [io EXCEPT ![c] = "recv"]
  /\ UNCHANGED <<main, udt_running, clientData>>

\* Any other error stops the loop; the message stays in front.
SendFails(c) ==
  /\ io[c] = "send"
  /\ send_msg_buff[c] # <<>>
  /\ SendmsgError(ClientSock(c))
  /\ udt_running' = [udt_running EXCEPT ![c] = 0]
  /\ io' = [io EXCEPT ![c] = "recv"]
  /\ UNCHANGED <<main, clientData>>

\* DoRecvMsg: a message goes to recv_callback_func_, and the loop reads again.
RecvOne(c) ==
  /\ io[c] = "recv"
  /\ RecvmsgOk(ClientSock(c))
  /\ delivered' = [delivered EXCEPT ![c] = Append(@, Head(rcvBuf[ClientSock(c)]))]
  /\ UNCHANGED <<main, io, udt_running, send_msg_queue, send_msg_buff, made>>

\* EASYNCRCV, or the connection is not up yet: back to the loop's head.
RecvEnds(c) ==
  /\ io[c] = "recv"
  /\ RecvmsgNothing(ClientSock(c)) \/ RecvmsgNoConn(ClientSock(c))
  /\ io' = [io EXCEPT ![c] = "top"]
  /\ UNCHANGED <<main, udt_running, clientData>>

\* Mutant of RecvFails: the error is printed and the loop goes on.
RecvFailsGoesOn(c) ==
  /\ io[c] = "recv"
  /\ RecvmsgLost(ClientSock(c))
  /\ io' = [io EXCEPT ![c] = "top"]
  /\ UNCHANGED <<main, udt_running, clientData>>

\* ECONNLOST or EINVSOCK stops the loop.
RecvFails(c) ==
  /\ io[c] = "recv"
  /\ RecvmsgLost(ClientSock(c))
  /\ udt_running' = [udt_running EXCEPT ![c] = 0]
  /\ io' = [io EXCEPT ![c] = "top"]
  /\ UNCHANGED <<main, clientData>>

RunCloses(c) ==
  /\ io[c] = "close"
  /\ CloseSock(ClientSock(c))
  /\ io' = [io EXCEPT ![c] = "done"]
  /\ UNCHANGED <<main, udt_running, clientData>>

Run(c) ==
  \/ RunBoots(c) \/ LoopEnds(c) \/ TryGrabMsg(c) \/ KeepBuff(c)
  \/ SendOne(c) \/ SendEnds(c) \/ SendFails(c)
  \/ RecvOne(c) \/ RecvEnds(c) \/ RecvFails(c) \/ RunCloses(c)

ClientStep(c) == Main(c) \/ Run(c)

-----------------------------------------------------------------------------
(* What the client promises, whatever the other side does.                 *)

\* Every message main() made was taken by UDT, or waits in the buffer or in the
\* queue: none lost, none twice, in the order made (SendMsg, TryGrabMsg, TrySendMsg).
SendPathConserves ==
  \A c \in Conns :
    made[c] = accepted[ClientSock(c)] \o send_msg_buff[c] \o send_msg_queue[c]

\* The wait in main() on a size it read earlier keeps the queue, and the buffer that
\* takes the queue over, within one message of the limit (main.cpp, the inner loop).
BacklogBounded ==
  \A c \in Conns :
    /\ Len(send_msg_queue[c]) <= QueueLimit + 1
    /\ Len(send_msg_buff[c]) <= QueueLimit + 1

\* Every message recvmsg returned went to the callback, in order, before the next call.
CallbackSeesAll == \A c \in Conns : delivered[c] = taken[ClientSock(c)]

\* "sleep 5 sencods for connect success" (udt_client.cpp, Start): when the I/O thread
\* starts, its connection is not still being set up.
SleepCoversConnect ==
  \A c \in Conns : io[c] = "boot" => status[ClientSock(c)] # "connecting"

\* Once main() waits behind an I/O thread that stopped, nothing releases it: the client
\* neither exits nor makes another message (Run never restarts, main() never looks).
StalledForGood ==
  [][\A c \in Conns :
       io[c] = "done" /\ Len(send_msg_queue[c]) > QueueLimit
         => UNCHANGED <<main[c], io[c], made[c], send_msg_queue[c]>>]_clientVars
=============================================================================
