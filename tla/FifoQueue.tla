----------------------------- MODULE FifoQueue -----------------------------
(***************************************************************************)
(* What threadsafe_queue promises its callers: every method takes effect in *)
(* one step, and the items leave in the order they came, each once.         *)
(***************************************************************************)
EXTENDS Naturals, Sequences

VARIABLES
  pushed,   \* items in the order they entered
  handed    \* items in the order callers received them

Init == pushed = <<>> /\ handed = <<>>

\* Items are numbered in the order they come.
Push == pushed' = Append(pushed, Len(pushed) + 1) /\ UNCHANGED handed

\* The oldest item, or all there are.
TakeUpTo(n) ==
  /\ Len(handed) < n /\ n <= Len(pushed)
  /\ handed' = SubSeq(pushed, 1, n)
  /\ UNCHANGED pushed

Next ==
  \/ Push
  \/ TakeUpTo(Len(handed) + 1)
  \/ TakeUpTo(Len(pushed))

Spec == Init /\ [][Next]_<<pushed, handed>>
=============================================================================
