------------------------- MODULE StreamServerProofs -------------------------
(***************************************************************************)
(* What the proofs about the stream programs share: bytes in their order,   *)
(* types of the stream calls, and the steps of the stream server.           *)
(***************************************************************************)
EXTENDS StreamServer, SequenceLemmas, FiniteSetTheorems

\* The elements of s are the bytes of client c that follow the first `from`.
Numbered(s, c, from) == \A i \in 1 .. Len(s) : s[i] = <<c, from + i>>

\* Two runs of bytes, the second going on where the first ends, make one.
LEMMA NumberedConcat ==
  ASSUME NEW c, NEW a \in Seq(Msgs), NEW b \in Seq(Msgs), NEW from \in Nat,
         Numbered(a, c, from), Numbered(b, c, from + Len(a))
  PROVE  /\ a \o b \in Seq(Msgs)
         /\ Len(a \o b) = Len(a) + Len(b)
         /\ Numbered(a \o b, c, from)
  <1>1. /\ a \o b \in Seq(Msgs) /\ Len(a \o b) = Len(a) + Len(b)
        /\ \A i \in 1 .. Len(a) + Len(b) :
             (a \o b)[i] = IF i <= Len(a) THEN a[i] ELSE b[i - Len(a)]
    BY ConcatProperties
  <1>2. Len(a) \in Nat /\ Len(b) \in Nat
    BY LenProperties
  <1>3. ASSUME NEW i \in 1 .. Len(a \o b) PROVE (a \o b)[i] = <<c, from + i>>
    <2>1. CASE i <= Len(a)
      BY <1>1, <1>2, <2>1 DEF Numbered
    <2>2. CASE ~(i <= Len(a))
      <3>1. i - Len(a) \in 1 .. Len(b) /\ from + Len(a) + (i - Len(a)) = from + i
        BY <1>1, <1>2, <2>2
      <3>. QED BY <1>1, <2>2, <3>1 DEF Numbered
    <2>. QED BY <2>1, <2>2
  <1>. QED BY <1>1, <1>3 DEF Numbered

\* A part of a run of bytes is one.
LEMMA NumberedPart ==
  ASSUME NEW c, NEW s \in Seq(Msgs), NEW from \in Nat, Numbered(s, c, from),
         NEW i \in Nat \ {0}, NEW j \in Nat, i <= j + 1, j <= Len(s)
  PROVE  /\ SubSeq(s, i, j) \in Seq(Msgs)
         /\ Len(SubSeq(s, i, j)) = j - i + 1
         /\ Numbered(SubSeq(s, i, j), c, from + (i - 1))
  <1>1. Len(s) \in Nat
    BY LenProperties
  <1>2. \A k \in i .. j : s[k] \in Msgs
    BY <1>1, ElementOfSeq
  <1>3. /\ SubSeq(s, i, j) \in Seq(Msgs)
        /\ Len(SubSeq(s, i, j)) = IF i <= j THEN j - i + 1 ELSE 0
        /\ \A k \in 1 .. j - i + 1 : SubSeq(s, i, j)[k] = s[i + k - 1]
    BY <1>2, SubSeqProperties
  <1>4. Len(SubSeq(s, i, j)) = j - i + 1
    BY <1>3
  <1>5. ASSUME NEW k \in 1 .. j - i + 1 PROVE SubSeq(s, i, j)[k] = <<c, from + (i - 1) + k>>
    <2>1. i + k - 1 \in 1 .. Len(s) /\ from + (i + k - 1) = from + (i - 1) + k
      BY <1>1
    <2>. QED BY <1>3, <2>1 DEF Numbered
  <1>. QED BY <1>3, <1>4, <1>5 DEF Numbered

\* What a history has recorded keeps its type.
LEMMA RecordedType ==
  ASSUME NEW h \in Seq(Msgs), NEW data \in Seq(Msgs)
  PROVE  Recorded(h, data) \in Seq(Msgs)
  <1>. DEFINE seen == {i \in 1 .. Len(data) : \A k \in 1 .. i : data[k] \in ToSet(h)}
  <1>1. Len(data) \in Nat
    BY LenProperties
  <1>2. IsFiniteSet(1 .. Len(data))
    BY <1>1, FS_Interval
  <1>3. IsFiniteSet(seen)
    BY <1>2, FS_Subset
  <1>4. Cardinality(seen) \in Nat
    BY <1>3, FS_CardinalityType
  <1>. DEFINE n == Cardinality(seen)
  <1>. HIDE DEF seen
  <1>5. \A k \in n + 1 .. Len(data) : data[k] \in Msgs
    BY <1>1, <1>4, ElementOfSeq
  <1>6. SubSeq(data, n + 1, Len(data)) \in Seq(Msgs)
    BY <1>1, <1>4, <1>5, SubSeqProperties
  <1>7. h \o SubSeq(data, n + 1, Len(data)) \in Seq(Msgs)
    BY <1>6, ConcatProperties
  <1>. QED BY <1>7 DEF Recorded, seen

\* A history of the first bytes in order, given a run of bytes that begins in it or at its
\* end, goes on to the end of that run.
LEMMA RecordedRun ==
  ASSUME NEW c, NEW h \in Seq(Msgs), NEW data \in Seq(Msgs), NEW from \in 0 .. Len(h),
         Numbered(h, c, 0), Numbered(data, c, from)
  PROVE  /\ Recorded(h, data) \in Seq(Msgs)
         /\ Numbered(Recorded(h, data), c, 0)
         /\ Len(Recorded(h, data)) = IF from + Len(data) > Len(h) THEN from + Len(data)
                                     ELSE Len(h)
  <1>. DEFINE seen == {i \in 1 .. Len(data) : \A k \in 1 .. i : data[k] \in ToSet(h)}
              n == IF from + Len(data) > Len(h) THEN Len(h) - from ELSE Len(data)
  <1>1. Len(data) \in Nat /\ Len(h) \in Nat /\ from \in Nat /\ n \in 0 .. Len(data)
    BY LenProperties
  <1>2. ASSUME NEW k \in 1 .. Len(data) PROVE data[k] \in ToSet(h) <=> k <= n
    <2>1. data[k] = <<c, from + k>>
      BY DEF Numbered
    <2>2. DOMAIN h = 1 .. Len(h)
      BY LenProperties
    <2>3. ASSUME k <= n PROVE data[k] \in ToSet(h)
      <3>1. from + k \in 1 .. Len(h)
        BY <1>1, <2>3
      <3>2. h[from + k] = <<c, 0 + (from + k)>> /\ 0 + (from + k) = from + k
        BY <1>1, <3>1 DEF Numbered
      <3>. QED BY <2>1, <2>2, <3>1, <3>2 DEF ToSet
    <2>4. ASSUME data[k] \in ToSet(h) PROVE k <= n
      <3>1. PICK i \in 1 .. Len(h) : h[i] = data[k]
        BY <2>2, <2>4 DEF ToSet
      <3>2. h[i] = <<c, 0 + i>>
        BY <3>1 DEF Numbered
      <3>3. from + k = i
        BY <1>1, <2>1, <3>1, <3>2
      <3>. QED BY <1>1, <3>3
    <2>. QED BY <2>3, <2>4
  <1>3. seen = 1 .. n
    BY <1>1, <1>2
  <1>4. Cardinality(1 .. n) = n
    <2>. HIDE DEF n
    <2>1. n \in Nat /\ 1 \in Int /\ n \in Int
      BY <1>1
    <2>2. Cardinality(1 .. n) = IF 1 > n THEN 0 ELSE n - 1 + 1
      BY <2>1, FS_Interval
    <2>. QED BY <2>1, <2>2
  <1>. DEFINE rest == SubSeq(data, n + 1, Len(data))
  <1>. HIDE DEF n
  <1>5. /\ rest \in Seq(Msgs) /\ Len(rest) = Len(data) - n
        /\ Numbered(rest, c, from + n)
    <2>1. /\ n + 1 \in Nat \ {0} /\ n + 1 <= Len(data) + 1 /\ Len(data) <= Len(data)
          /\ from + ((n + 1) - 1) = from + n /\ Len(data) - (n + 1) + 1 = Len(data) - n
      BY <1>1
    <2>2. /\ rest \in Seq(Msgs)
          /\ Len(rest) = Len(data) - (n + 1) + 1
          /\ Numbered(rest, c, from + ((n + 1) - 1))
      BY <1>1, <2>1, NumberedPart
    <2>. QED BY <2>1, <2>2
  <1>6. Recorded(h, data) = h \o rest
    BY <1>3, <1>4 DEF Recorded
  <1>. HIDE DEF rest
  <1>7. CASE from + Len(data) > Len(h)
    <2>1. n = Len(h) - from
      BY <1>7 DEF n
    <2>2. Numbered(rest, c, 0 + Len(h))
      BY <1>1, <1>5, <2>1
    <2>3. /\ h \o rest \in Seq(Msgs) /\ Len(h \o rest) = Len(h) + Len(rest)
          /\ Numbered(h \o rest, c, 0)
      BY <1>5, <2>2, NumberedConcat
    <2>4. Len(h) + Len(rest) = from + Len(data)
      BY <1>1, <1>5, <2>1
    <2>. QED BY <1>6, <1>7, <2>3, <2>4
  <1>8. CASE ~(from + Len(data) > Len(h))
    <2>1. Len(rest) = 0
      BY <1>1, <1>5, <1>8 DEF n
    <2>2. rest = <<>>
      BY <1>5, <2>1, EmptySeq
    <2>. QED BY <1>6, <1>8, <2>2, ConcatEmptySeq
  <1>. QED BY <1>7, <1>8

\* So are its first bytes,
LEMMA FirstPart ==
  ASSUME NEW c, NEW s \in Seq(Msgs), NEW from \in Nat, Numbered(s, c, from),
         NEW k \in 0 .. Len(s)
  PROVE  /\ SubSeq(s, 1, k) \in Seq(Msgs)
         /\ Len(SubSeq(s, 1, k)) = k
         /\ Numbered(SubSeq(s, 1, k), c, from)
  <1>1. /\ 1 \in Nat \ {0} /\ k \in Nat /\ 1 <= k + 1 /\ k <= Len(s)
        /\ k - 1 + 1 = k /\ from + (1 - 1) = from
    BY LenProperties
  <1>2. /\ SubSeq(s, 1, k) \in Seq(Msgs)
        /\ Len(SubSeq(s, 1, k)) = k - 1 + 1
        /\ Numbered(SubSeq(s, 1, k), c, from + (1 - 1))
    BY <1>1, NumberedPart
  <1>. QED BY <1>1, <1>2

\* and what is left after them.
LEMMA RestPart ==
  ASSUME NEW c, NEW s \in Seq(Msgs), NEW from \in Nat, Numbered(s, c, from),
         NEW k \in 0 .. Len(s)
  PROVE  /\ SubSeq(s, k + 1, Len(s)) \in Seq(Msgs)
         /\ Len(SubSeq(s, k + 1, Len(s))) = Len(s) - k
         /\ Numbered(SubSeq(s, k + 1, Len(s)), c, from + k)
  <1>0. Len(s) \in Nat
    BY LenProperties
  <1>1. /\ k + 1 \in Nat \ {0} /\ k + 1 <= Len(s) + 1 /\ Len(s) <= Len(s)
        /\ Len(s) - (k + 1) + 1 = Len(s) - k /\ from + ((k + 1) - 1) = from + k
    BY <1>0
  <1>2. /\ SubSeq(s, k + 1, Len(s)) \in Seq(Msgs)
        /\ Len(SubSeq(s, k + 1, Len(s))) = Len(s) - (k + 1) + 1
        /\ Numbered(SubSeq(s, k + 1, Len(s)), c, from + ((k + 1) - 1))
    BY <1>0, <1>1, NumberedPart
  <1>. QED BY <1>1, <1>2

\* A history of the first bytes in order records the next bytes whole.
LEMMA RecordedNext ==
  ASSUME NEW c, NEW h \in Seq(Msgs), NEW data \in Seq(Msgs),
         Numbered(h, c, 0), Numbered(data, c, Len(h))
  PROVE  /\ Recorded(h, data) \in Seq(Msgs)
         /\ Numbered(Recorded(h, data), c, 0)
         /\ Len(Recorded(h, data)) = Len(h) + Len(data)
  <1>1. Len(h) \in Nat /\ Len(data) \in Nat
    BY LenProperties
  <1>2. Len(h) \in 0 .. Len(h)
    BY <1>1
  <1>3. /\ Recorded(h, data) \in Seq(Msgs)
        /\ Numbered(Recorded(h, data), c, 0)
        /\ Len(Recorded(h, data)) = IF Len(h) + Len(data) > Len(h) THEN Len(h) + Len(data)
                                    ELSE Len(h)
    BY <1>2, RecordedRun, Zenon
  <1>. QED BY <1>1, <1>3

\* It records a part of them, too.
LEMMA RecordedPart ==
  ASSUME NEW c, NEW h \in Seq(Msgs), NEW data \in Seq(Msgs), NEW k \in 1 .. Len(data),
         Numbered(h, c, 0), Numbered(data, c, Len(h))
  PROVE  Len(Recorded(h, SubSeq(data, 1, k))) = Len(h) + k
  <1>. DEFINE part == SubSeq(data, 1, k)
  <1>1. Len(h) \in Nat /\ k \in 0 .. Len(data)
    BY LenProperties
  <1>2. part \in Seq(Msgs) /\ Len(part) = k /\ Numbered(part, c, Len(h))
    BY <1>1, FirstPart
  <1>. HIDE DEF part
  <1>3. Len(Recorded(h, part)) = Len(h) + Len(part)
    BY <1>2, RecordedNext
  <1>. QED BY <1>2, <1>3 DEF part

\* The head of a run moves to the end of the run before it.
LEMMA NumberedMove ==
  ASSUME NEW c, NEW a \in Seq(Msgs), NEW b \in Seq(Msgs), b # <<>>, NEW from \in Nat,
         Numbered(a, c, from), Numbered(b, c, from + Len(a))
  PROVE  /\ Numbered(Append(a, Head(b)), c, from)
         /\ Numbered(Tail(b), c, from + Len(Append(a, Head(b))))
         /\ Len(Append(a, Head(b))) + Len(Tail(b)) = Len(a) + Len(b)
  <1>1. Head(b) \in Msgs /\ Tail(b) \in Seq(Msgs) /\ Len(Tail(b)) = Len(b) - 1
        /\ \A i \in 1 .. Len(Tail(b)) : Tail(b)[i] = b[i + 1]
    BY HeadTailProperties
  <1>2. /\ Len(Append(a, Head(b))) = Len(a) + 1
        /\ \A i \in 1 .. Len(a) : Append(a, Head(b))[i] = a[i]
        /\ Append(a, Head(b))[Len(a) + 1] = Head(b)
    BY <1>1, AppendProperties
  <1>3. Len(a) \in Nat /\ Len(b) \in Nat \ {0} /\ Head(b) = b[1]
    BY LenProperties, EmptySeq
  <1>4. ASSUME NEW i \in 1 .. Len(a) + 1 PROVE Append(a, Head(b))[i] = <<c, from + i>>
    <2>1. CASE i <= Len(a)
      BY <1>2, <1>3, <2>1 DEF Numbered
    <2>2. CASE i = Len(a) + 1
      <3>1. b[1] = <<c, from + Len(a) + 1>> /\ from + Len(a) + 1 = from + i
        BY <1>3, <2>2 DEF Numbered
      <3>. QED BY <1>2, <1>3, <2>2, <3>1
    <2>. QED BY <1>3, <2>1, <2>2
  <1>5. ASSUME NEW i \in 1 .. Len(Tail(b))
        PROVE  Tail(b)[i] = <<c, from + Len(Append(a, Head(b))) + i>>
    <2>1. /\ i + 1 \in 1 .. Len(b)
          /\ from + Len(Append(a, Head(b))) + i = from + Len(a) + (i + 1)
      BY <1>1, <1>2, <1>3
    <2>2. b[i + 1] = <<c, from + Len(a) + (i + 1)>>
      BY <2>1 DEF Numbered
    <2>. QED BY <1>1, <2>1, <2>2
  <1>. QED BY <1>1, <1>2, <1>3, <1>4, <1>5 DEF Numbered

\* A run of the first bytes is a prefix of a longer one,
LEMMA NumberedPrefix ==
  ASSUME NEW c, NEW s \in Seq(Msgs), NEW t \in Seq(Msgs), Len(s) <= Len(t),
         Numbered(s, c, 0), Numbered(t, c, 0)
  PROVE  IsPrefix(s, t)
  <1>1. Len(s) \in Nat /\ Len(t) \in Nat
    BY LenProperties
  <1>2. Len(s) \in 0 .. Len(s) /\ Len(s) \in 0 .. Len(t)
    BY <1>1
  <1>. DEFINE a == SubSeq(s, 1, Len(s))
              b == SubSeq(t, 1, Len(s))
  <1>3. a \in Seq(Msgs) /\ Len(a) = Len(s) /\ Numbered(a, c, 0)
    BY <1>2, FirstPart
  <1>4. b \in Seq(Msgs) /\ Len(b) = Len(s) /\ Numbered(b, c, 0)
    BY <1>2, FirstPart
  <1>. HIDE DEF a, b
  <1>5. \A i \in 1 .. Len(a) : a[i] = b[i]
    BY <1>3, <1>4 DEF Numbered
  <1>6. a = b
    BY <1>3, <1>4, <1>5, SeqEqual
  <1>. QED BY <1>6 DEF IsPrefix, a, b

\* The elements of a sequence turned round.
LEMMA Reversed ==
  ASSUME NEW s \in Seq(Msgs)
  PROVE  /\ Reverse(s) \in Seq(Msgs) /\ Len(Reverse(s)) = Len(s)
         /\ \A i \in 1 .. Len(s) : Reverse(s)[i] = s[Len(s) - i + 1]
  <1>1. Len(s) \in Nat
    BY LenProperties
  <1>2. \A i \in 1 .. Len(s) : Len(s) - i + 1 \in 1 .. Len(s)
    BY <1>1
  <1>3. \A i \in 1 .. Len(s) : s[Len(s) - i + 1] \in Msgs
    BY <1>2, ElementOfSeq
  <1>4. Reverse(s) \in [1 .. Len(s) -> Msgs]
    BY <1>3 DEF Reverse
  <1>5. Reverse(s) \in Seq(Msgs) /\ DOMAIN Reverse(s) = 1 .. Len(s)
    BY <1>1, <1>4
  <1>6. Len(Reverse(s)) = Len(s)
    BY <1>1, <1>5, LenProperties
  <1>. QED BY <1>5, <1>6 DEF Reverse

\* and a run of the last ones a suffix.
LEMMA NumberedSuffix ==
  ASSUME NEW c, NEW s \in Seq(Msgs), NEW t \in Seq(Msgs), Len(s) <= Len(t),
         Numbered(s, c, Len(t) - Len(s)), Numbered(t, c, 0)
  PROVE  IsSuffix(s, t)
  <1>. DEFINE rs == Reverse(s)
              rt == Reverse(t)
              a == SubSeq(rs, 1, Len(rs))
              b == SubSeq(rt, 1, Len(rs))
  <1>1. Len(s) \in Nat /\ Len(t) \in Nat
    BY LenProperties
  <1>2. /\ rs \in Seq(Msgs) /\ Len(rs) = Len(s)
        /\ \A i \in 1 .. Len(s) : rs[i] = s[Len(s) - i + 1]
    BY Reversed
  <1>3. /\ rt \in Seq(Msgs) /\ Len(rt) = Len(t)
        /\ \A i \in 1 .. Len(t) : rt[i] = t[Len(t) - i + 1]
    BY Reversed
  <1>. HIDE DEF rs, rt
  <1>4. a = rs
    BY <1>2, SubSeqFull
  <1>5. \A i \in 1 .. Len(s) : rt[i] \in Msgs
    BY <1>1, <1>3, ElementOfSeq
  <1>6. b \in Seq(Msgs) /\ Len(b) = Len(s) /\ \A i \in 1 .. Len(s) : b[i] = rt[i]
    <2>1. /\ SubSeq(rt, 1, Len(s)) \in Seq(Msgs)
          /\ Len(SubSeq(rt, 1, Len(s))) = IF 1 <= Len(s) THEN Len(s) - 1 + 1 ELSE 0
          /\ \A i \in 1 .. Len(s) - 1 + 1 : SubSeq(rt, 1, Len(s))[i] = rt[1 + i - 1]
      BY <1>1, <1>5, SubSeqProperties
    <2>. QED BY <1>1, <1>2, <2>1
  <1>7. ASSUME NEW i \in 1 .. Len(s) PROVE rs[i] = rt[i]
    <2>1. Len(s) - i + 1 \in 1 .. Len(s) /\ Len(t) - i + 1 \in 1 .. Len(t) /\ i \in 1 .. Len(t)
      BY <1>1
    <2>2. /\ s[Len(s) - i + 1] = <<c, Len(t) - Len(s) + (Len(s) - i + 1)>>
          /\ t[Len(t) - i + 1] = <<c, 0 + (Len(t) - i + 1)>>
      BY <2>1 DEF Numbered
    <2>3. Len(t) - Len(s) + (Len(s) - i + 1) = 0 + (Len(t) - i + 1)
      BY <1>1
    <2>. QED BY <1>2, <1>3, <2>1, <2>2, <2>3
  <1>. HIDE DEF a, b
  <1>8. a = b
    <2>1. a \in Seq(Msgs) /\ Len(a) = Len(b) /\ \A i \in 1 .. Len(a) : a[i] = b[i]
      BY <1>2, <1>4, <1>6, <1>7
    <2>. QED BY <1>6, <2>1, SeqEqual
  <1>. QED BY <1>1, <1>2, <1>3, <1>8 DEF IsSuffix, IsPrefix, rs, rt, a, b

\* Bytes on their way in one direction: t are handed over, r arrived, q are to be sent, and
\* a is all that was taken on.
Pipe(c, t, r, q, a) ==
  /\ Numbered(t, c, 0)
  /\ Numbered(r, c, Len(t))
  /\ Numbered(q, c, Len(t) + Len(r))
  /\ Numbered(a, c, 0)
  /\ Len(a) = Len(t) + Len(r) + Len(q)

\* A byte arrives.
LEMMA PipeMoves ==
  ASSUME NEW c, NEW t \in Seq(Msgs), NEW r \in Seq(Msgs), NEW q \in Seq(Msgs),
         NEW a \in Seq(Msgs), q # <<>>, Pipe(c, t, r, q, a)
  PROVE  Pipe(c, t, Append(r, Head(q)), Tail(q), a)
  <1>. DEFINE rr == Append(r, Head(q))
              qq == Tail(q)
  <1>1. Len(t) \in Nat /\ Len(r) \in Nat /\ Len(q) \in Nat
    BY LenProperties
  <1>2. Len(rr) \in Nat /\ Len(qq) \in Nat
    BY HeadTailProperties, AppendProperties, LenProperties
  <1>3. /\ Numbered(rr, c, Len(t)) /\ Numbered(qq, c, Len(t) + Len(rr))
        /\ Len(rr) + Len(qq) = Len(r) + Len(q)
    BY <1>1, NumberedMove DEF Pipe
  <1>. HIDE DEF rr, qq
  <1>4. Len(a) = Len(t) + Len(rr) + Len(qq)
    <2>1. Len(a) = Len(t) + Len(r) + Len(q)
      BY DEF Pipe
    <2>2. Len(rr) + Len(qq) = Len(r) + Len(q)
      BY <1>3
    <2>3. Len(t) + Len(r) + Len(q) = Len(t) + (Len(r) + Len(q))
      BY <1>1
    <2>4. Len(t) + Len(rr) + Len(qq) = Len(t) + (Len(rr) + Len(qq))
      BY <1>1, <1>2
    <2>. QED BY <2>1, <2>2, <2>3, <2>4
  <1>5. Pipe(c, t, rr, qq, a)
    BY <1>3, <1>4 DEF Pipe
  <1>. QED BY <1>5 DEF rr, qq

\* The first k bytes that arrived are handed over.
LEMMA PipeGives ==
  ASSUME NEW c, NEW t \in Seq(Msgs), NEW r \in Seq(Msgs), NEW q \in Seq(Msgs),
         NEW a \in Seq(Msgs), Pipe(c, t, r, q, a), NEW k \in 1 .. Len(r)
  PROVE  /\ Pipe(c, Recorded(t, SubSeq(r, 1, k)), SubSeq(r, k + 1, Len(r)), q, a)
         /\ Numbered(SubSeq(r, 1, k), c, Len(t))
         /\ SubSeq(r, 1, k) \in Seq(Msgs) /\ Len(SubSeq(r, 1, k)) = k
         /\ Len(Recorded(t, SubSeq(r, 1, k))) = Len(t) + k
  <1>. DEFINE part == SubSeq(r, 1, k)
              rest == SubSeq(r, k + 1, Len(r))
              tt == Recorded(t, part)
  <1>1. Len(t) \in Nat /\ Len(r) \in Nat /\ Len(q) \in Nat /\ k \in 0 .. Len(r)
    BY LenProperties
  <1>2. part \in Seq(Msgs) /\ Len(part) = k /\ Numbered(part, c, Len(t))
    BY <1>1, FirstPart DEF Pipe
  <1>3. Len(rest) = Len(r) - k /\ Numbered(rest, c, Len(t) + k)
    BY <1>1, RestPart DEF Pipe
  <1>. HIDE DEF part, rest
  <1>4. Numbered(tt, c, 0) /\ Len(tt) = Len(t) + Len(part)
    BY <1>2, RecordedNext DEF Pipe
  <1>. HIDE DEF tt
  <1>5. Len(tt) = Len(t) + k
    BY <1>2, <1>4
  <1>6. Len(tt) + Len(rest) = Len(t) + Len(r)
    BY <1>1, <1>3, <1>5
  <1>7. Pipe(c, tt, rest, q, a)
    BY <1>1, <1>3, <1>4, <1>5, <1>6 DEF Pipe
  <1>. QED BY <1>2, <1>5, <1>7 DEF part, rest, tt

\* The first k of the bytes that come next are taken on.
LEMMA PipeTakes ==
  ASSUME NEW c, NEW t \in Seq(Msgs), NEW r \in Seq(Msgs), NEW q \in Seq(Msgs),
         NEW a \in Seq(Msgs), Pipe(c, t, r, q, a),
         NEW data \in Seq(Msgs), Numbered(data, c, Len(a)), NEW k \in 1 .. Len(data)
  PROVE  Pipe(c, t, r, q \o SubSeq(data, 1, k), Recorded(a, SubSeq(data, 1, k)))
  <1>. DEFINE part == SubSeq(data, 1, k)
              aa == Recorded(a, part)
              qq == q \o part
  <1>1. /\ Len(t) \in Nat /\ Len(r) \in Nat /\ Len(q) \in Nat /\ Len(a) \in Nat
        /\ Len(data) \in Nat /\ k \in 0 .. Len(data) /\ Len(t) + Len(r) \in Nat
    BY LenProperties
  <1>2. part \in Seq(Msgs) /\ Len(part) = k /\ Numbered(part, c, Len(a))
    BY <1>1, FirstPart
  <1>. HIDE DEF part
  <1>3. Numbered(aa, c, 0) /\ Len(aa) = Len(a) + Len(part)
    <2>1. Numbered(a, c, 0)
      BY DEF Pipe
    <2>. QED BY <1>2, <2>1, RecordedNext
  <1>4. /\ Numbered(q, c, Len(t) + Len(r))
        /\ Numbered(part, c, Len(t) + Len(r) + Len(q))
    BY <1>2 DEF Pipe
  <1>. DEFINE from == Len(t) + Len(r)
  <1>. HIDE DEF from
  <1>5. Len(qq) = Len(q) + Len(part) /\ Numbered(qq, c, Len(t) + Len(r))
    <2>1. Numbered(q, c, from) /\ Numbered(part, c, from + Len(q)) /\ from \in Nat
      BY <1>1, <1>4 DEF from
    <2>2. ASSUME NEW x \in Seq(Msgs), NEW y \in Seq(Msgs), NEW n \in Nat,
                 Numbered(x, c, n), Numbered(y, c, n + Len(x))
          PROVE  Len(x \o y) = Len(x) + Len(y) /\ Numbered(x \o y, c, n)
      BY <2>2, NumberedConcat
    <2>3. Len(q \o part) = Len(q) + Len(part) /\ Numbered(q \o part, c, from)
      BY <1>2, <2>1, <2>2
    <2>. QED BY <2>3 DEF from
  <1>. HIDE DEF aa, qq
  <1>6. Len(aa) = Len(t) + Len(r) + Len(qq)
    BY <1>1, <1>2, <1>3, <1>5 DEF Pipe
  <1>7. Pipe(c, t, r, qq, aa)
    BY <1>3, <1>5, <1>6 DEF Pipe
  <1>. QED BY <1>2, <1>3, <1>7 DEF part, aa, qq

\* What a worker owes: o are the last of the bytes t it read, and what was sent of them, b,
\* reaches up to o at least.
Debt(c, t, o, b) ==
  /\ Len(o) <= Len(t)
  /\ Numbered(o, c, Len(t) - Len(o))
  /\ Numbered(b, c, 0)
  /\ Len(b) <= Len(t)
  /\ Len(t) <= Len(b) + Len(o)

\* It reads more.
LEMMA DebtGrows ==
  ASSUME NEW c, NEW t \in Seq(Msgs), NEW o \in Seq(Msgs), NEW b \in Seq(Msgs),
         Debt(c, t, o, b), Numbered(t, c, 0),
         NEW part \in Seq(Msgs), Numbered(part, c, Len(t)),
         NEW tt \in Seq(Msgs), Len(tt) = Len(t) + Len(part)
  PROVE  Debt(c, tt, o \o part, b)
  <1>. DEFINE oo == o \o part
  <1>1. Len(t) \in Nat /\ Len(o) \in Nat /\ Len(b) \in Nat /\ Len(part) \in Nat
    BY LenProperties
  <1>2. Len(o) <= Len(t) /\ Len(b) <= Len(t) /\ Len(t) <= Len(b) + Len(o)
    BY DEF Debt
  <1>3. Len(t) - Len(o) \in Nat /\ Len(t) - Len(o) + Len(o) = Len(t)
    BY <1>1, <1>2
  <1>4. Numbered(o, c, Len(t) - Len(o)) /\ Numbered(part, c, Len(t) - Len(o) + Len(o))
    BY <1>3 DEF Debt
  <1>5. Len(oo) = Len(o) + Len(part) /\ Numbered(oo, c, Len(t) - Len(o))
    BY <1>3, <1>4, NumberedConcat
  <1>. HIDE DEF oo
  <1>6. /\ Len(oo) <= Len(tt) /\ Len(b) <= Len(tt) /\ Len(tt) <= Len(b) + Len(oo)
        /\ Len(tt) - Len(oo) = Len(t) - Len(o)
    BY <1>1, <1>2, <1>5
  <1>7. Debt(c, tt, oo, b)
    BY <1>5, <1>6 DEF Debt
  <1>. QED BY <1>7 DEF oo

\* It sends the first k bytes of what it owes, whether or not they were sent before.
LEMMA DebtSent ==
  ASSUME NEW c, NEW t \in Seq(Msgs), NEW o \in Seq(Msgs), NEW b \in Seq(Msgs),
         Debt(c, t, o, b), NEW k \in 1 .. Len(o)
  PROVE  /\ Debt(c, t, o, Recorded(b, SubSeq(o, 1, k)))
         /\ k = Len(o) => Debt(c, t, <<>>, Recorded(b, SubSeq(o, 1, k)))
  <1>. DEFINE part == SubSeq(o, 1, k)
              bb == Recorded(b, part)
              from == Len(t) - Len(o)
  <1>1. Len(t) \in Nat /\ Len(o) \in Nat /\ Len(b) \in Nat /\ k \in 0 .. Len(o)
    BY LenProperties
  <1>2. Len(o) <= Len(t) /\ Len(b) <= Len(t) /\ Len(t) <= Len(b) + Len(o)
    BY DEF Debt
  <1>3. from \in 0 .. Len(b) /\ from \in Nat /\ from + Len(o) = Len(t)
    BY <1>1, <1>2
  <1>4. Numbered(o, c, from) /\ Numbered(b, c, 0)
    BY DEF Debt
  <1>. HIDE DEF from
  <1>5. part \in Seq(Msgs) /\ Len(part) = k /\ Numbered(part, c, from)
    BY <1>1, <1>3, <1>4, FirstPart
  <1>. HIDE DEF part
  <1>6. /\ bb \in Seq(Msgs) /\ Numbered(bb, c, 0)
        /\ Len(bb) = IF from + Len(part) > Len(b) THEN from + Len(part) ELSE Len(b)
    BY <1>3, <1>4, <1>5, RecordedRun
  <1>. HIDE DEF bb
  <1>7. /\ Len(bb) \in Nat /\ Len(bb) >= Len(b) /\ Len(bb) <= Len(t)
        /\ k = Len(o) => Len(bb) = Len(t)
    <2>. DEFINE upto == from + k
    <2>1. Len(bb) = IF upto > Len(b) THEN upto ELSE Len(b)
      <3>1. Len(part) = k
        BY <1>5
      <3>2. Len(bb) = IF from + Len(part) > Len(b) THEN from + Len(part) ELSE Len(b)
        BY <1>6
      <3>. QED BY <3>1, <3>2
    <2>2. upto <= Len(t) /\ upto \in Nat /\ (k = Len(o) => upto = Len(t))
      <3>1. ASSUME NEW f \in Nat, NEW n \in Nat, NEW i \in 0 .. n
            PROVE  f + i <= f + n /\ f + i \in Nat /\ (i = n => f + i = f + n)
        OBVIOUS
      <3>. QED BY <1>1, <1>3, <3>1
    <2>. HIDE DEF upto
    <2>3. CASE upto > Len(b)
      BY <1>1, <2>1, <2>2, <2>3
    <2>4. CASE ~(upto > Len(b))
      BY <1>1, <1>2, <2>1, <2>2, <2>4
    <2>. QED BY <2>3, <2>4
  <1>8. Len(t) <= Len(bb) + Len(o)
    BY <1>1, <1>2, <1>7
  <1>9. Debt(c, t, o, bb)
    BY <1>2, <1>6, <1>7, <1>8 DEF Debt
  <1>10. ASSUME k = Len(o) PROVE Debt(c, t, <<>>, bb)
    <2>1. Len(<<>>) = 0 /\ Numbered(<<>>, c, Len(t) - 0)
      BY EmptySeq DEF Numbered
    <2>2. 0 <= Len(t) /\ Len(bb) = Len(t) /\ Len(t) <= Len(bb) + 0
      BY <1>1, <1>7, <1>10
    <2>. QED BY <1>6, <2>1, <2>2 DEF Debt
  <1>. QED BY <1>9, <1>10 DEF bb, part

-----------------------------------------------------------------------------
(* Types.                                                                  *)

\* The two sockets of a connection, each the other's peer.
LEMMA SocketNames ==
  ASSUME NEW c \in Conns
  PROVE  /\ ClientSock(c) \in Socks /\ ServerSock(c) \in Socks
         /\ Peer(ClientSock(c)) = ServerSock(c) /\ Peer(ServerSock(c)) = ClientSock(c)
  BY DEF Socks, Sides, ClientSock, ServerSock, Peer

\* No two connections, and no two sides, share a socket.
LEMMA OtherSockets ==
  ASSUME NEW c \in Conns, NEW d \in Conns
  PROVE  /\ ClientSock(c) # ServerSock(d)
         /\ c # d => ClientSock(c) # ClientSock(d) /\ ServerSock(c) # ServerSock(d)
  BY DEF ClientSock, ServerSock

\* A socket is one side of one connection.
LEMMA SocketSides ==
  ASSUME NEW s \in Socks
  PROVE  /\ Peer(s) \in Socks
         /\ \E c \in Conns : s = ClientSock(c) \/ s = ServerSock(c)
  BY DEF Socks, Sides, ClientSock, ServerSock, Peer

\* The sockets keep their types when the library's threads or the network act.
LEMMA NetworkType ==
  ASSUME UdtTypeOK, Network
  PROVE  UdtTypeOK'
  <1>1. ASSUME NEW c \in Conns, Handshake(c) \/ Established(c) PROVE UdtTypeOK'
    BY <1>1, SocketNames DEF UdtTypeOK, Handshake, Established, flowVars, Statuses
  <1>2. ASSUME NEW s \in Socks, Transmit(s) PROVE UdtTypeOK'
    <2>1. Peer(s) \in Socks
      BY SocketSides
    <2>2. Head(sndBuf[s]) \in Msgs /\ Tail(sndBuf[s]) \in Seq(Msgs)
      BY <1>2, HeadTailProperties DEF UdtTypeOK, Transmit
    <2>3. Append(rcvBuf[Peer(s)], Head(sndBuf[s])) \in Seq(Msgs)
      BY <2>1, <2>2, AppendProperties DEF UdtTypeOK
    <2>. QED BY <1>2, <2>2, <2>3 DEF UdtTypeOK, Transmit
  <1>3. ASSUME NEW s \in Socks, Break(s) \/ Collect(s) PROVE UdtTypeOK'
    BY <1>3 DEF UdtTypeOK, Break, Collect, flowVars, Statuses
  <1>. QED BY <1>1, <1>2, <1>3 DEF Network

\* So they do when send takes bytes.
LEMMA SendTakesType ==
  ASSUME UdtTypeOK, NEW s \in Socks, NEW data \in Seq(Msgs), NEW k \in Nat,
         SendTakes(s, data, k)
  PROVE  UdtTypeOK' /\ k \in 1 .. Len(data) /\ SubSeq(data, 1, k) \in Seq(Msgs)
  <1>1. k \in 1 .. Len(data) /\ Len(data) \in Nat
    BY LenProperties DEF SendTakes
  <1>2. \A i \in 1 .. k : data[i] \in Msgs
    BY <1>1, ElementOfSeq
  <1>3. SubSeq(data, 1, k) \in Seq(Msgs)
    BY <1>1, <1>2, SubSeqProperties
  <1>4. sndBuf[s] \o SubSeq(data, 1, k) \in Seq(Msgs)
    BY <1>3, ConcatProperties DEF UdtTypeOK
  <1>5. Recorded(accepted[s], SubSeq(data, 1, k)) \in Seq(Msgs)
    BY <1>3, RecordedType DEF UdtTypeOK
  <1>6. UdtTypeOK'
    BY <1>4, <1>5 DEF UdtTypeOK, SendTakes
  <1>. QED BY <1>1, <1>3, <1>6

\* And when recv returns bytes, which are a sequence of bytes as well.
LEMMA RecvReturnsType ==
  ASSUME UdtTypeOK, NEW s \in Socks, NEW k \in Nat, RecvReturns(s, k)
  PROVE  /\ UdtTypeOK' /\ k \in 1 .. Len(rcvBuf[s])
         /\ SubSeq(rcvBuf[s], 1, k) \in Seq(Msgs)
         /\ Len(SubSeq(rcvBuf[s], 1, k)) = k
  <1>1. rcvBuf[s] \in Seq(Msgs) /\ k \in 1 .. Len(rcvBuf[s]) /\ Len(rcvBuf[s]) \in Nat
    BY LenProperties DEF RecvReturns, UdtTypeOK
  <1>2. \A i \in 1 .. Len(rcvBuf[s]) : rcvBuf[s][i] \in Msgs
    BY <1>1, ElementOfSeq
  <1>3. /\ SubSeq(rcvBuf[s], 1, k) \in Seq(Msgs)
        /\ Len(SubSeq(rcvBuf[s], 1, k)) = IF 1 <= k THEN k - 1 + 1 ELSE 0
    BY <1>1, <1>2, SubSeqProperties
  <1>4. SubSeq(rcvBuf[s], k + 1, Len(rcvBuf[s])) \in Seq(Msgs)
    BY <1>1, <1>2, SubSeqProperties
  <1>5. Recorded(taken[s], SubSeq(rcvBuf[s], 1, k)) \in Seq(Msgs)
    BY <1>3, RecordedType DEF UdtTypeOK
  <1>6. UdtTypeOK'
    BY <1>4, <1>5 DEF UdtTypeOK, RecvReturns
  <1>. QED BY <1>1, <1>3, <1>6

\* Every step of the server keeps the types.
LEMMA ServerType ==
  ASSUME ServerTypeOK, UdtTypeOK, ServerStep
  PROVE  ServerTypeOK' /\ UdtTypeOK'
  <1>. USE SocketNames
  <1>1. CASE CreateListenSocket
    BY <1>1 DEF CreateListenSocket, ServerTypeOK, UdtTypeOK, flowVars
  <1>2. ASSUME NEW c \in Conns, Accept(c) PROVE ServerTypeOK' /\ UdtTypeOK'
    BY <1>2 DEF Accept, ServerTypeOK, UdtTypeOK, flowVars
  <1>3. CASE AcceptFails
    BY <1>3 DEF AcceptFails, ServerTypeOK, UdtTypeOK, udtVars
  <1>4. CASE CloseServer
    BY <1>4 DEF CloseServer, ServerTypeOK, UdtTypeOK, flowVars
  <1>5. CASE ProcessExit
    BY <1>5 DEF ProcessExit, ServerTypeOK, UdtTypeOK, flowVars, Statuses
  <1>6. ASSUME NEW c \in Conns, WorkerRecv(c) PROVE ServerTypeOK' /\ UdtTypeOK'
    <2>1. PICK k \in 1 .. RcvCap :
            /\ RecvReturns(ServerSock(c), k)
            /\ msg_buf_need_send' = [msg_buf_need_send EXCEPT
                 ![c] = @ \o SubSeq(rcvBuf[ServerSock(c)], 1, k)]
      BY <1>6 DEF WorkerRecv
    <2>2. UdtTypeOK' /\ SubSeq(rcvBuf[ServerSock(c)], 1, k) \in Seq(Msgs)
      BY <2>1, RecvReturnsType
    <2>3. msg_buf_need_send[c] \o SubSeq(rcvBuf[ServerSock(c)], 1, k) \in Seq(Msgs)
      BY <2>2, ConcatProperties DEF ServerTypeOK
    <2>4. ServerTypeOK'
      BY <1>6, <2>1, <2>3 DEF ServerTypeOK, WorkerRecv
    <2>. QED BY <2>2, <2>4
  <1>7. ASSUME NEW c \in Conns, WorkerRecvEnds(c) PROVE ServerTypeOK' /\ UdtTypeOK'
    BY <1>7 DEF WorkerRecvEnds, RecvmsgNothing, RecvmsgLost, ServerTypeOK, UdtTypeOK, udtVars
  <1>8. ASSUME NEW c \in Conns, WorkerSendAll(c) PROVE ServerTypeOK' /\ UdtTypeOK'
    <2>1. Len(msg_buf_need_send[c]) \in Nat /\ msg_buf_need_send[c] \in Seq(Msgs)
      BY LenProperties DEF ServerTypeOK
    <2>2. UdtTypeOK'
      BY <1>8, <2>1, SendTakesType DEF WorkerSendAll
    <2>3. ServerTypeOK'
      BY <1>8, EmptySeq DEF WorkerSendAll, ServerTypeOK
    <2>. QED BY <2>2, <2>3
  <1>9. ASSUME NEW c \in Conns, WorkerSendPart(c) PROVE ServerTypeOK' /\ UdtTypeOK'
    <2>1. PICK k \in 1 .. SndCap : SendTakes(ServerSock(c), msg_buf_need_send[c], k)
      BY <1>9 DEF WorkerSendPart
    <2>2. UdtTypeOK'
      BY <2>1, SendTakesType DEF ServerTypeOK
    <2>3. ServerTypeOK'
      BY <1>9 DEF WorkerSendPart, ServerTypeOK
    <2>. QED BY <2>2, <2>3
  <1>10. ASSUME NEW c \in Conns, WorkerSendNone(c) PROVE ServerTypeOK' /\ UdtTypeOK'
    <2>1. UNCHANGED udtVars
      BY <1>10 DEF WorkerSendNone
    <2>2. UdtTypeOK'
      BY <2>1 DEF UdtTypeOK, udtVars
    <2>3. ServerTypeOK'
      BY <1>10 DEF WorkerSendNone, ServerTypeOK
    <2>. QED BY <2>2, <2>3
  <1>. QED BY <1>1, <1>2, <1>3, <1>4, <1>5, <1>6, <1>7, <1>8, <1>9, <1>10
           DEF ServerStep, ServerRun, WorkThread

-----------------------------------------------------------------------------
(* The accept loop.                                                        *)

\* A worker needs a listener to begin with, and only the loop has one.
LoopInv ==
  /\ listener = "none" => \A c \in Conns : worker[c] = "none"
  /\ run # "accept" => listener = "none"

\* Every step of the server keeps it.
LEMMA LoopStep ==
  ASSUME LoopInv, ServerTypeOK, UdtTypeOK, ServerStep
  PROVE  LoopInv'
  <1>1. CASE CreateListenSocket
    BY <1>1 DEF CreateListenSocket, LoopInv
  <1>2. ASSUME NEW c \in Conns, Accept(c) PROVE LoopInv'
    BY <1>2 DEF Accept, LoopInv
  <1>3. CASE AcceptFails
    BY <1>3 DEF AcceptFails, LoopInv, udtVars
  <1>4. CASE CloseServer
    BY <1>4 DEF CloseServer, LoopInv
  <1>5. CASE ProcessExit
    BY <1>5 DEF ProcessExit, LoopInv
  <1>6. ASSUME NEW c \in Conns, WorkThread(c) PROVE LoopInv'
    <2>1. UNCHANGED <<run, listener>> /\ worker[c] # "none"
      BY <1>6 DEF WorkThread, WorkerRecv, WorkerRecvEnds, WorkerSendAll, WorkerSendPart,
                  WorkerSendNone, RecvReturns, SendTakes, RecvmsgNothing, RecvmsgLost, udtVars
    <2>2. listener # "none" /\ run = "accept"
      BY <2>1 DEF LoopInv
    <2>. QED BY <2>1, <2>2 DEF LoopInv
  <1>. QED BY <1>1, <1>2, <1>3, <1>4, <1>5, <1>6 DEF ServerStep, ServerRun

-----------------------------------------------------------------------------
(* Bytes in order.                                                         *)

\* What client c's sends took goes through the library in order, each byte once.
ForthInOrder(c) ==
  Pipe(c, taken[ServerSock(c)], rcvBuf[ServerSock(c)], sndBuf[ClientSock(c)],
       accepted[ClientSock(c)])

\* What a worker keeps are the last bytes it read, and what it sent reaches up to them.
OwesInOrder(c) ==
  Debt(c, taken[ServerSock(c)], msg_buf_need_send[c], accepted[ServerSock(c)])

\* The sequences of a connection are sequences of bytes.
LEMMA ConnTypes ==
  ASSUME UdtTypeOK, NEW s \in Socks
  PROVE  /\ accepted[s] \in Seq(Msgs) /\ taken[s] \in Seq(Msgs)
         /\ sndBuf[s] \in Seq(Msgs) /\ rcvBuf[s] \in Seq(Msgs)
  BY DEF UdtTypeOK

\* The library keeps the order and touches no history.
LEMMA NetworkInOrder ==
  ASSUME UdtTypeOK, NEW c \in Conns, ForthInOrder(c), Network
  PROVE  ForthInOrder(c)' /\ UNCHANGED <<accepted, taken>>
  <1>. DEFINE cs == ClientSock(c)
              ss == ServerSock(c)
  <1>0. cs \in Socks /\ ss \in Socks /\ Peer(cs) = ss
    BY SocketNames
  <1>1. ASSUME UNCHANGED flowVars PROVE ForthInOrder(c)' /\ UNCHANGED <<accepted, taken>>
    BY <1>1 DEF ForthInOrder, flowVars
  <1>2. ASSUME NEW s \in Socks, Transmit(s)
        PROVE  ForthInOrder(c)' /\ UNCHANGED <<accepted, taken>>
    <2>1. CASE s = cs
      <3>1. /\ sndBuf[cs] # <<>>
            /\ sndBuf'[cs] = Tail(sndBuf[cs])
            /\ rcvBuf'[ss] = Append(rcvBuf[ss], Head(sndBuf[cs]))
            /\ UNCHANGED <<accepted, taken>>
        BY <1>0, <1>2, <2>1, OtherSockets DEF Transmit, UdtTypeOK
      <3>2. Pipe(c, taken[ss], Append(rcvBuf[ss], Head(sndBuf[cs])), Tail(sndBuf[cs]),
                 accepted[cs])
        BY <1>0, <3>1, ConnTypes, PipeMoves DEF ForthInOrder
      <3>. QED BY <3>1, <3>2 DEF ForthInOrder
    <2>2. CASE s # cs
      <3>1. Peer(s) # ss
        BY <2>2, SocketSides, SocketNames, OtherSockets
      <3>2. sndBuf'[cs] = sndBuf[cs] /\ rcvBuf'[ss] = rcvBuf[ss] /\ UNCHANGED <<accepted, taken>>
        BY <1>0, <1>2, <2>2, <3>1 DEF Transmit, UdtTypeOK
      <3>. QED BY <3>2 DEF ForthInOrder
    <2>. QED BY <2>1, <2>2
  <1>3. ASSUME NEW s \in Socks, Break(s) \/ Collect(s) PROVE UNCHANGED flowVars
    BY <1>3 DEF Break, Collect
  <1>4. ASSUME NEW d \in Conns, Handshake(d) \/ Established(d) PROVE UNCHANGED flowVars
    BY <1>4 DEF Handshake, Established
  <1>. QED BY <1>1, <1>2, <1>3, <1>4 DEF Network

\* A client's send of the next bytes keeps the order of its own connection.
LEMMA SendForth ==
  ASSUME UdtTypeOK, NEW c \in Conns, ForthInOrder(c), NEW data \in Seq(Msgs), NEW k \in Nat,
         Numbered(data, c, Len(accepted[ClientSock(c)])),
         SendTakes(ClientSock(c), data, k)
  PROVE  /\ ForthInOrder(c)'
         /\ Len(accepted'[ClientSock(c)]) = Len(accepted[ClientSock(c)]) + k
  <1>. DEFINE cs == ClientSock(c)
              ss == ServerSock(c)
              part == SubSeq(data, 1, k)
  <1>0. cs \in Socks /\ ss \in Socks
    BY SocketNames
  <1>1. k \in 1 .. Len(data)
    BY DEF SendTakes
  <1>2. /\ sndBuf'[cs] = sndBuf[cs] \o part
        /\ accepted'[cs] = Recorded(accepted[cs], part)
        /\ UNCHANGED <<rcvBuf, taken>>
    BY <1>0 DEF SendTakes, UdtTypeOK
  <1>3. /\ taken[ss] \in Seq(Msgs) /\ rcvBuf[ss] \in Seq(Msgs)
        /\ sndBuf[cs] \in Seq(Msgs) /\ accepted[cs] \in Seq(Msgs)
    BY <1>0, ConnTypes
  <1>4. Pipe(c, taken[ss], rcvBuf[ss], sndBuf[cs], accepted[cs])
    BY DEF ForthInOrder
  <1>5. Numbered(data, c, Len(accepted[cs])) /\ Numbered(accepted[cs], c, 0)
    BY <1>4 DEF Pipe
  <1>. HIDE DEF cs, ss
  <1>6. Pipe(c, taken[ss], rcvBuf[ss], sndBuf[cs] \o part, Recorded(accepted[cs], part))
    BY <1>1, <1>3, <1>4, <1>5, PipeTakes
  <1>7. Len(Recorded(accepted[cs], part)) = Len(accepted[cs]) + k
    BY <1>1, <1>3, <1>5, RecordedPart
  <1>. QED BY <1>2, <1>6, <1>7 DEF ForthInOrder, cs, ss

\* A worker reads: the bytes go from the library to its string.
LEMMA WorkerRecvInOrder ==
  ASSUME UdtTypeOK, ServerTypeOK, NEW c \in Conns, ForthInOrder(c), OwesInOrder(c),
         WorkerRecv(c)
  PROVE  ForthInOrder(c)' /\ OwesInOrder(c)'
  <1>. DEFINE cs == ClientSock(c)
              ss == ServerSock(c)
              r == rcvBuf[ss]
              t == taken[ss]
              o == msg_buf_need_send[c]
  <1>0. cs \in Socks /\ ss \in Socks /\ o \in Seq(Msgs) /\ cs # ss
    BY SocketNames, OtherSockets DEF ServerTypeOK
  <1>1. PICK k \in 1 .. RcvCap :
          /\ RecvReturns(ss, k)
          /\ msg_buf_need_send' = [msg_buf_need_send EXCEPT ![c] = @ \o SubSeq(rcvBuf[ss], 1, k)]
    BY DEF WorkerRecv
  <1>. DEFINE part == SubSeq(r, 1, k)
              tt == Recorded(t, part)
  <1>2. k \in 1 .. Len(r)
    BY <1>1 DEF RecvReturns
  <1>3. /\ rcvBuf'[ss] = SubSeq(r, k + 1, Len(r))
        /\ taken'[ss] = tt
        /\ msg_buf_need_send'[c] = o \o part
        /\ UNCHANGED <<sndBuf, accepted>>
    BY <1>0, <1>1 DEF RecvReturns, UdtTypeOK, ServerTypeOK
  <1>4. /\ t \in Seq(Msgs) /\ r \in Seq(Msgs)
        /\ sndBuf[cs] \in Seq(Msgs) /\ accepted[cs] \in Seq(Msgs)
        /\ accepted[ss] \in Seq(Msgs)
    BY <1>0, ConnTypes
  <1>5. Pipe(c, t, r, sndBuf[cs], accepted[cs]) /\ Debt(c, t, o, accepted[ss])
    BY DEF ForthInOrder, OwesInOrder
  <1>6. Numbered(t, c, 0) /\ Numbered(r, c, Len(t))
    BY <1>5 DEF Pipe
  <1>. HIDE DEF cs, ss, r, t, o
  <1>7. Pipe(c, tt, SubSeq(r, k + 1, Len(r)), sndBuf[cs], accepted[cs])
    BY <1>2, <1>4, <1>5, PipeGives
  <1>8. part \in Seq(Msgs) /\ Len(part) = k /\ Numbered(part, c, Len(t))
    <2>1. k \in 0 .. Len(r) /\ Len(t) \in Nat
      BY <1>2, <1>4, LenProperties
    <2>. QED BY <1>4, <1>6, <2>1, FirstPart
  <1>9. Len(tt) = Len(t) + k
    BY <1>2, <1>4, <1>6, RecordedPart
  <1>10. tt \in Seq(Msgs)
    BY <1>4, <1>8, RecordedType
  <1>. HIDE DEF part, tt
  <1>11. Debt(c, tt, o \o part, accepted[ss])
    <2>1. Len(tt) = Len(t) + Len(part)
      BY <1>8, <1>9
    <2>. QED BY <1>0, <1>4, <1>5, <1>6, <1>8, <1>10, <2>1, DebtGrows
  <1>. QED BY <1>3, <1>7, <1>11 DEF ForthInOrder, OwesInOrder, cs, ss, r, t, o

\* A worker sends the first k bytes it owes, and erases them only if that is all.
LEMMA WorkerSendInOrder ==
  ASSUME UdtTypeOK, ServerTypeOK, NEW c \in Conns, ForthInOrder(c), OwesInOrder(c),
         NEW k \in Nat, SendTakes(ServerSock(c), msg_buf_need_send[c], k),
         \/ msg_buf_need_send' = msg_buf_need_send
         \/ k = Len(msg_buf_need_send[c])
            /\ msg_buf_need_send' = [msg_buf_need_send EXCEPT ![c] = <<>>]
  PROVE  ForthInOrder(c)' /\ OwesInOrder(c)'
  <1>. DEFINE cs == ClientSock(c)
              ss == ServerSock(c)
              t == taken[ss]
              o == msg_buf_need_send[c]
              bb == Recorded(accepted[ss], SubSeq(o, 1, k))
  <1>0. cs \in Socks /\ ss \in Socks /\ o \in Seq(Msgs) /\ cs # ss
    BY SocketNames, OtherSockets DEF ServerTypeOK
  <1>1. k \in 1 .. Len(o)
    BY DEF SendTakes
  <1>2. /\ sndBuf'[cs] = sndBuf[cs] /\ accepted'[cs] = accepted[cs]
        /\ accepted'[ss] = bb
        /\ UNCHANGED <<rcvBuf, taken>>
    BY <1>0 DEF SendTakes, UdtTypeOK
  <1>3. ForthInOrder(c)'
    BY <1>2 DEF ForthInOrder
  <1>4. t \in Seq(Msgs) /\ accepted[ss] \in Seq(Msgs) /\ Debt(c, t, o, accepted[ss])
    BY <1>0, ConnTypes DEF OwesInOrder
  <1>5. \/ msg_buf_need_send'[c] = o
        \/ k = Len(o) /\ msg_buf_need_send'[c] = <<>>
    BY DEF ServerTypeOK
  <1>. HIDE DEF cs, ss, t, o
  <1>6. Debt(c, t, o, bb) /\ (k = Len(o) => Debt(c, t, <<>>, bb))
    BY <1>0, <1>1, <1>4, DebtSent
  <1>. HIDE DEF bb
  <1>7. OwesInOrder(c)'
    BY <1>2, <1>5, <1>6 DEF OwesInOrder, ss, t, o
  <1>. QED BY <1>3, <1>7

\* What another connection's worker does leaves this one alone.
LEMMA OtherWorker ==
  ASSUME UdtTypeOK, ServerTypeOK, NEW c \in Conns, NEW d \in Conns, c # d, WorkThread(d)
  PROVE  /\ \A s \in {ClientSock(c), ServerSock(c)} :
              /\ sndBuf'[s] = sndBuf[s] /\ rcvBuf'[s] = rcvBuf[s]
              /\ accepted'[s] = accepted[s] /\ taken'[s] = taken[s]
         /\ msg_buf_need_send'[c] = msg_buf_need_send[c]
  <1>1. /\ ClientSock(c) \in Socks /\ ServerSock(c) \in Socks /\ ServerSock(d) \in Socks
        /\ ClientSock(c) # ServerSock(d) /\ ServerSock(c) # ServerSock(d)
    BY SocketNames, OtherSockets
  <1>2. CASE WorkerRecv(d)
    BY <1>1, <1>2 DEF WorkerRecv, RecvReturns, UdtTypeOK, ServerTypeOK
  <1>3. CASE WorkerSendAll(d)
    BY <1>1, <1>3 DEF WorkerSendAll, SendTakes, UdtTypeOK, ServerTypeOK
  <1>4. CASE WorkerSendPart(d)
    BY <1>1, <1>4 DEF WorkerSendPart, SendTakes, UdtTypeOK
  <1>5. CASE WorkerSendNone(d)
    BY <1>5 DEF WorkerSendNone, udtVars, flowVars
  <1>6. CASE WorkerRecvEnds(d)
    BY <1>6 DEF WorkerRecvEnds, RecvmsgNothing, RecvmsgLost, udtVars, flowVars
  <1>. QED BY <1>2, <1>3, <1>4, <1>5, <1>6 DEF WorkThread

\* Every step of the server keeps the order of a connection.
LEMMA ServerInOrder ==
  ASSUME UdtTypeOK, ServerTypeOK, NEW c \in Conns, ForthInOrder(c), OwesInOrder(c),
         ServerStep
  PROVE  ForthInOrder(c)' /\ OwesInOrder(c)'
  <1>1. ASSUME UNCHANGED <<flowVars, msg_buf_need_send>>
        PROVE  ForthInOrder(c)' /\ OwesInOrder(c)'
    BY <1>1 DEF ForthInOrder, OwesInOrder, flowVars
  <1>2. CASE ServerRun
    <2>1. ASSUME NEW d \in Conns, Accept(d) PROVE UNCHANGED <<flowVars, msg_buf_need_send>>
      BY <2>1 DEF Accept
    <2>2. CASE CreateListenSocket \/ CloseServer \/ ProcessExit
      BY <2>2, <1>1 DEF CreateListenSocket, CloseServer, ProcessExit
    <2>3. CASE AcceptFails
      BY <2>3, <1>1 DEF AcceptFails, udtVars, flowVars
    <2>. QED BY <1>1, <1>2, <2>1, <2>2, <2>3 DEF ServerRun
  <1>3. CASE WorkThread(c)
    <2>1. CASE WorkerRecv(c)
      BY <2>1, WorkerRecvInOrder
    <2>2. CASE WorkerSendAll(c)
      <3>1. Len(msg_buf_need_send[c]) \in Nat
        BY LenProperties DEF ServerTypeOK
      <3>. QED BY <2>2, <3>1, WorkerSendInOrder DEF WorkerSendAll
    <2>3. CASE WorkerSendPart(c)
      <3>1. PICK k \in 1 .. SndCap : SendTakes(ServerSock(c), msg_buf_need_send[c], k)
        BY <2>3 DEF WorkerSendPart
      <3>. QED BY <2>3, <3>1, WorkerSendInOrder DEF WorkerSendPart
    <2>4. CASE WorkerSendNone(c) \/ WorkerRecvEnds(c)
      <3>1. UNCHANGED <<flowVars, msg_buf_need_send>>
        BY <2>4 DEF WorkerSendNone, WorkerRecvEnds, RecvmsgNothing, RecvmsgLost, udtVars, flowVars
      <3>. QED BY <1>1, <3>1
    <2>. QED BY <1>3, <2>1, <2>2, <2>3, <2>4 DEF WorkThread
  <1>4. ASSUME NEW d \in Conns, c # d, WorkThread(d)
        PROVE  ForthInOrder(c)' /\ OwesInOrder(c)'
    <2>1. /\ taken'[ServerSock(c)] = taken[ServerSock(c)]
          /\ rcvBuf'[ServerSock(c)] = rcvBuf[ServerSock(c)]
          /\ sndBuf'[ClientSock(c)] = sndBuf[ClientSock(c)]
          /\ accepted'[ClientSock(c)] = accepted[ClientSock(c)]
          /\ accepted'[ServerSock(c)] = accepted[ServerSock(c)]
          /\ msg_buf_need_send'[c] = msg_buf_need_send[c]
      BY <1>4, OtherWorker
    <2>. QED BY <2>1 DEF ForthInOrder, OwesInOrder
  <1>. QED BY <1>2, <1>3, <1>4 DEF ServerStep
=============================================================================
