----------------------------- MODULE DgramEcho -----------------------------
(***************************************************************************)
(* The datagram benchmark as it runs: the client processes, the server      *)
(* process, and the UDT connections between them, each thread stepping on   *)
(* its own.                                                                 *)
(***************************************************************************)
EXTENDS DgramClient, DgramServer, SequencesExt

vars == <<clientVars, serverVars, udtVars>>

TypeOK == ClientTypeOK /\ ServerTypeOK /\ UdtTypeOK

Init == ClientInit /\ ServerInit /\ UdtInit

Client == (\E c \in Conns : ClientStep(c)) /\ UNCHANGED serverVars
Server == ServerStep /\ UNCHANGED clientVars
Library == Network /\ UNCHANGED <<clientVars, serverVars>>

Next == Client \/ Server \/ Library

Spec == Init /\ [][Next]_vars

-----------------------------------------------------------------------------

\* End to end: what a client's callback saw is what that client made, from the first
\* message on, in order, once each, and never another client's (both programs whole).
EchoesInOrder == \A c \in Conns : IsPrefix(delivered[c], made[c])

\* The refinement: a client's push asks, its callback is the answer.
Echo == INSTANCE EchoService WITH asked <- made, answered <- delivered
ImplementsEcho == Echo!Spec

\* "The server sendback the data after receiving the packet" (bench_mark.md): the
\* process does not end while it owes a reply on a connection that is up on both sides.
NoReplyAbandoned ==
  [][\A c \in Conns :
       /\ run = "exit" /\ run' = "gone"
       /\ status[ClientSock(c)] = "up" /\ status[ServerSock(c)] = "up"
       => msg_queue_need_send[c] = <<>> /\ rcvBuf[ServerSock(c)] = <<>>]_vars

-----------------------------------------------------------------------------
(* Fairness: every thread is scheduled (each loop sleeps at most 50 ms) and *)
(* the library delivers on a connection that stays up.                      *)

Fairness ==
  /\ \A c \in Conns :
       /\ WF_vars(Main(c) /\ UNCHANGED serverVars)
       /\ WF_vars(Run(c) /\ UNCHANGED serverVars)
       /\ WF_vars(WorkThread(c) /\ UNCHANGED clientVars)
  /\ WF_vars(ServerRun /\ UNCHANGED clientVars)
  /\ \A c \in Conns : WF_vars(Established(c) /\ UNCHANGED <<clientVars, serverVars>>)
  /\ \A c \in Conns : WF_vars(Handshake(c) /\ UNCHANGED <<clientVars, serverVars>>)
  /\ \A s \in Socks : WF_vars(Transmit(s) /\ UNCHANGED <<clientVars, serverVars>>)

FairSpec == Spec /\ Fairness

\* Every message comes back unless its connection is lost on one side: no EASYNCSND on
\* either side, no full buffer and no order of the polling loops loses it or leaves it
\* lying somewhere (TryGrabMsg, TrySendMsg, TryRecvMsg of both programs).
EchoedUnlessLost ==
  \A c \in Conns : \A n \in 1 .. MaxMsgs :
    Len(made[c]) >= n
      ~> \/ Len(delivered[c]) >= n
         \/ \E s \in {ClientSock(c), ServerSock(c)} : status[s] \in {"broken", "closed"}

\* A client whose connection is lost finds out by its next send or by a read once the
\* arrived messages are read, and its I/O thread ends.
LossStopsClient ==
  \A c \in Conns :
    (io[c] # "none" /\ status[ClientSock(c)] \in {"broken", "closed"}) ~> io[c] = "done"

\* One connection lost while the server owes it a reply takes the whole server down:
\* the worker finds out by its next send, the accept loop by its next test.
LossStopsServer ==
  \A c \in Conns :
    (worker[c] # "none" /\ status[ServerSock(c)] # "up" /\ msg_queue_need_send[c] # <<>>)
      ~> run = "gone"
=============================================================================
