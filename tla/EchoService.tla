---------------------------- MODULE EchoService ----------------------------
(***************************************************************************)
(* What the benchmark measures, without a network: each client asks, and    *)
(* the service answers each question with the question itself, once and in  *)
(* order. It may stop answering for good; it never answers wrongly.         *)
(***************************************************************************)
EXTENDS Naturals, Sequences

CONSTANTS Conns, MaxMsgs

VARIABLES asked, answered

Init ==
  /\ asked = [c \in Conns |-> <<>>]
  /\ answered = [c \in Conns |-> <<>>]

Ask(c) ==
  /\ Len(asked[c]) < MaxMsgs
  /\ asked' = [asked EXCEPT ![c] = Append(@, <<c, Len(@) + 1>>)]
  /\ UNCHANGED answered

Answer(c) ==
  /\ Len(answered[c]) < Len(asked[c])
  /\ answered' = [answered EXCEPT ![c] = Append(@, asked[c][Len(@) + 1])]
  /\ UNCHANGED asked

Next == \E c \in Conns : Ask(c) \/ Answer(c)

Spec == Init /\ [][Next]_<<asked, answered>>
=============================================================================
