---------------------------- MODULE MCDgramEcho ----------------------------
(* Instances of DgramEcho for TLC. Clients are interchangeable.            *)
EXTENDS DgramEcho, FiniteSets

ClientSymmetry == Permutations(Conns)

\* Bound of the two-client runs: one side of one connection gives up at a time.
OneLossAtATime == Cardinality({s \in Socks : status[s] = "broken"}) <= 1

\* Bound of the same runs: two messages each while no connection is lost, and losses followed
\* up while no client has made a second one.
LossBeforeSecond ==
  (\E s \in Socks : status[s] \in {"broken", "closed"}) => \A c \in Conns : Len(made[c]) <= 1

\* Bound of the liveness run, on steps: a connection is given up while its client has made at
\* most one message, or when it has nothing left to send and waits for at most two replies.
\* No thread's step is left out by it, only the library's Break, which no fairness calls for.
EarlyOrLateLoss ==
  \A s \in Socks :
    status[s] = "up" /\ status'[s] = "broken" /\ status[Peer(s)] = "up"
      => \/ Len(made[s[1]]) <= 1
         \/ /\ Len(accepted[ClientSock(s[1])]) = MaxMsgs
            /\ Len(delivered[s[1]]) >= MaxMsgs - 2
=============================================================================
