--------------------------- MODULE SequenceLemmas ---------------------------
(* Facts about queues in a row: a message moves from the head of one to the *)
(* end of the one before it, and nothing else does.                         *)
EXTENDS Integers, Sequences, SequencesExt, SequenceTheorems, TLAPS

\* A message appended to the last of two queues in a row is appended to the whole.
LEMMA AppendLast ==
  ASSUME NEW S, NEW a \in Seq(S), NEW b \in Seq(S), NEW x \in S
  PROVE  a \o Append(b, x) = Append(a \o b, x)
  <1>1. a \o Append(b, x) = a \o (b \o <<x>>)
    BY AppendIsConcat
  <1>2. <<x>> \in Seq(S)
    OBVIOUS
  <1>3. a \o (b \o <<x>>) = (a \o b) \o <<x>>
    BY <1>2, ConcatAssociative
  <1>4. a \o b \in Seq(S)
    BY ConcatProperties
  <1>. QED BY <1>1, <1>3, <1>4, AppendIsConcat

\* The head of the second queue moved to the end of the first leaves the whole alone.
LEMMA MoveHead ==
  ASSUME NEW S, NEW a \in Seq(S), NEW b \in Seq(S), b # <<>>
  PROVE  /\ Head(b) \in S
         /\ Tail(b) \in Seq(S)
         /\ Append(a, Head(b)) \in Seq(S)
         /\ Append(a, Head(b)) \o Tail(b) = a \o b
  <1>1. Head(b) \in S /\ Tail(b) \in Seq(S)
    BY HeadTailProperties
  <1>2. b = <<Head(b)>> \o Tail(b)
    BY <1>1, SubSeqRecursiveFirst, SubSeqFull, TailIsSubSeq, LenProperties, EmptySeq
  <1>3. <<Head(b)>> \in Seq(S)
    BY <1>1
  <1>4. (a \o <<Head(b)>>) \o Tail(b) = a \o (<<Head(b)>> \o Tail(b))
    BY <1>1, <1>3, ConcatAssociative
  <1>5. Append(a, Head(b)) \o Tail(b) = a \o b
    BY <1>1, <1>2, <1>4, AppendIsConcat
  <1>. QED BY <1>1, <1>5, AppendProperties

\* The first of two queues in a row is a prefix of the whole.
LEMMA FirstIsPrefix ==
  ASSUME NEW S, NEW a \in Seq(S), NEW b \in Seq(S)
  PROVE  IsPrefix(a, a \o b)
  <1>1. a \o b \in Seq(S) /\ Len(a) <= Len(a \o b) /\ Len(a) \in Nat
    BY ConcatProperties, LenProperties
  <1>2. CASE Len(a) = 0
    <2>1. SubSeq(a, 1, Len(a)) = <<>> /\ SubSeq(a \o b, 1, Len(a)) = <<>>
      BY <1>2, SubSeqEmpty
    <2>. QED BY <1>1, <2>1 DEF IsPrefix
  <1>3. CASE Len(a) # 0
    <2>1. 1 \in 1 .. Len(a) /\ Len(a) \in 1 .. Len(a)
      BY <1>1, <1>3
    <2>2. SubSeq(a \o b, 1, Len(a)) = SubSeq(a, 1, Len(a))
      BY <2>1, SubSeqOfConcat1
    <2>. QED BY <1>1, <2>2 DEF IsPrefix
  <1>. QED BY <1>2, <1>3

\* The element after the first queue is the head of the second.
LEMMA ElementAfter ==
  ASSUME NEW S, NEW a \in Seq(S), NEW b \in Seq(S), b # <<>>
  PROVE  Len(a) < Len(a \o b) /\ (a \o b)[Len(a) + 1] = Head(b)
  <1>1. Len(a) \in Nat /\ Len(b) \in Nat \ {0}
    BY EmptySeq, LenProperties
  <1>2. Head(b) = b[1]
    OBVIOUS
  <1>. QED BY <1>1, <1>2, ConcatProperties

\* The first queue with the head of the second is a beginning of the whole.
LEMMA NextBeginning ==
  ASSUME NEW S, NEW a \in Seq(S), NEW b \in Seq(S), b # <<>>
  PROVE  /\ Len(a) < Len(a) + 1 /\ Len(a) + 1 <= Len(a \o b)
         /\ Append(a, Head(b)) = SubSeq(a \o b, 1, Len(a) + 1)
  <1>. DEFINE p == Append(a, Head(b))
  <1>1. /\ p \in Seq(S) /\ Tail(b) \in Seq(S) /\ Head(b) \in S
        /\ p \o Tail(b) = a \o b
    BY MoveHead
  <1>2. Len(p) = Len(a) + 1 /\ Len(a) \in Nat /\ Len(Tail(b)) \in Nat
    BY <1>1, AppendProperties, LenProperties
  <1>3. Len(a \o b) = Len(p) + Len(Tail(b))
    BY <1>1, ConcatProperties
  <1>. HIDE DEF p
  <1>4. 1 \in 1 .. Len(p) /\ Len(p) \in 1 .. Len(p)
    BY <1>2
  <1>5. SubSeq(p \o Tail(b), 1, Len(p)) = SubSeq(p, 1, Len(p))
    BY <1>1, <1>4, SubSeqOfConcat1
  <1>6. SubSeq(p, 1, Len(p)) = p
    BY <1>1, SubSeqFull
  <1>. QED BY <1>1, <1>2, <1>3, <1>5, <1>6 DEF p
=============================================================================
