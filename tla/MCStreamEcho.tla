---------------------------- MODULE MCStreamEcho ----------------------------
(* A bound for TLC on the stream benchmark.                                 *)
EXTENDS StreamEcho

\* After a clash the client goes on with a server that has not accepted it; after a repeat
\* the story ends. The invariants say nothing of the bytes in either case.
RightSoFar == \A c \in Conns : (clash[c] = 1 => worker[c] = "none") /\ repeated[c] = 0
=============================================================================
