----------------------------- MODULE StreamEcho -----------------------------
(***************************************************************************)
(* The stream benchmark as it runs: client processes, the server process,   *)
(* and the UDT connections between them, each thread stepping on its own.   *)
(***************************************************************************)
EXTENDS StreamClient, StreamServer

VARIABLE repeated   \* history: connection -> 1 once the server sent bytes it kept

vars == <<clientVars, serverVars, udtVars, repeated>>

TypeOK == ClientTypeOK /\ ServerTypeOK /\ UdtTypeOK /\ repeated \in [Conns -> {0, 1}]

Init == ClientInit /\ ServerInit /\ UdtInit /\ repeated = [c \in Conns |-> 0]

Client == (\E c \in Conns : ClientStep(c)) /\ UNCHANGED <<serverVars, repeated>>

Server ==
  /\ ServerStep
  /\ repeated' = [c \in Conns |->
                    IF sndBuf'[ServerSock(c)] # sndBuf[ServerSock(c)]
                         /\ msg_buf_need_send'[c] # <<>>
                    THEN 1 ELSE repeated[c]]
  /\ UNCHANGED clientVars

Library == Network /\ UNCHANGED <<clientVars, serverVars, repeated>>

Next == Client \/ Server \/ Library

Spec == Init /\ [][Next]_vars

-----------------------------------------------------------------------------

\* A latency the client prints is that of a message main() made, in its turn, as long as
\* no append clashed with an erase and the server repeated no part: then every piece
\* recv_func cuts off is a whole message (both programs; recv_func, handle_one_msg).
FramesAreMessages ==
  \A c \in Conns :
    clash[c] = 0 /\ repeated[c] = 0 =>
      /\ Len(frames[c]) <= made[c]
      /\ \A i \in 1 .. Len(frames[c]) : frames[c][i] = Msg(c, i)
=============================================================================
