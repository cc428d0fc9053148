-------------------------- MODULE StreamEchoProofs --------------------------
(***************************************************************************)
(* The stream benchmark, for any number of clients and messages and any     *)
(* sizes: the lengths of the string two threads share, and the bytes of a   *)
(* connection as long as no append has clashed with an erase.               *)
(***************************************************************************)
EXTENDS StreamEcho, StreamServerProofs

\* The lengths a client stores lie inside the block of its string.
Fits(c) ==
  /\ length[c] < Len(chars[c]) /\ append_at[c] < Len(chars[c])
  /\ main[c] = "store" => append_at[c] + MsgLen < Len(chars[c])

\* How the lengths the two threads of a client have read relate to the string's own length,
\* its limit and its block.
Sizes(c) ==
  /\ main[c] \in {"start", "settle"} => io[c] = "none" /\ length[c] = 0
  /\ main[c] = "push" => length[c] <= BufLimit
  /\ Appending(c) => length[c] <= append_at[c] /\ append_at[c] <= BufLimit /\ made[c] < MaxMsgs
  /\ length[c] <= BufLimit + MsgLen
  /\ io[c] \in {"count", "give", "move", "cut"} => send_size[c] <= length[c]
  /\ io[c] = "erase" => send_len[c] <= length[c]
  /\ Erasing(c) => send_len[c] <= send_size[c]
  /\ Len(chars[c]) # 0
  /\ torn[c] = 0 => Fits(c)

\* The first n characters of a block are the bytes of client c that follow the first `from`.
Text(block, c, from, n) == \A i \in 1 .. n : block[i] = <<c, from + i>>

\* A message stands behind the first n characters, the one after the first `total` bytes.
Behind(block, c, n, total) == \A i \in 1 .. MsgLen : block[n + i] = <<c, total + i>>

\* The bytes UDT has taken that still count in the length of the string.
Held(c) == IF io[c] \in {"erase", "move", "cut"} THEN send_len[c] ELSE 0

\* What main() made, and what UDT took of it.
Total(c) == made[c] * MsgLen
Sent(c) == Len(accepted[ClientSock(c)])

\* The string while no append has clashed with an erase.
Content(c) ==
  /\ freed[c] = 0 /\ torn[c] = 0
  /\ ~(Appending(c) /\ Erasing(c))
  /\ Appending(c) => append_at[c] = length[c]
  /\ Erasing(c) => send_size[c] = length[c]
  /\ Held(c) <= Sent(c)
  /\ Sent(c) + length[c] = Total(c) + Held(c)
  /\ IF io[c] = "cut" THEN Text(chars[c], c, Sent(c), length[c] - send_len[c])
                      ELSE Text(chars[c], c, Sent(c) - Held(c), length[c])
  /\ main[c] = "store" => Behind(chars[c], c, length[c], Total(c))

\* The way back, while the server has repeated nothing.
BackInOrder(c) ==
  /\ Pipe(c, taken[ClientSock(c)], rcvBuf[ClientSock(c)], sndBuf[ServerSock(c)],
          accepted[ServerSock(c)])
  /\ Len(accepted[ServerSock(c)]) + Len(msg_buf_need_send[c]) = Len(taken[ServerSock(c)])

\* Where recv_func has cut.
CutInOrder(c) ==
  /\ \A i \in 1 .. Len(frames[c]) : frames[c][i] = Msg(c, i)
  /\ Numbered(recved_str[c], c, Len(frames[c]) * MsgLen)
  /\ Len(taken[ClientSock(c)]) = Len(frames[c]) * MsgLen + Len(recved_str[c])

-----------------------------------------------------------------------------
(* The operators of the client.                                            *)

\* Writing into a block keeps its size.
LEMMA WrittenFacts ==
  ASSUME NEW block \in Seq(Msgs), NEW n \in Nat, NEW data \in Seq(Msgs)
  PROVE  /\ Written(block, n, data) \in Seq(Msgs)
         /\ Len(Written(block, n, data)) = Len(block)
         /\ \A i \in 1 .. Len(block) :
              Written(block, n, data)[i] =
                IF n < i /\ i <= n + Len(data) THEN data[i - n] ELSE block[i]
  <1>1. Len(block) \in Nat /\ Len(data) \in Nat
    BY LenProperties
  <1>2. \A i \in 1 .. Len(block) :
          (IF n < i /\ i <= n + Len(data) THEN data[i - n] ELSE block[i]) \in Msgs
    <2>1. ASSUME NEW i \in 1 .. Len(block), n < i, i <= n + Len(data) PROVE data[i - n] \in Msgs
      <3>1. i - n \in 1 .. Len(data)
        BY <1>1, <2>1
      <3>. QED BY <3>1, ElementOfSeq
    <2>2. \A i \in 1 .. Len(block) : block[i] \in Msgs
      BY ElementOfSeq
    <2>. QED BY <2>1, <2>2
  <1>3. Written(block, n, data) \in [1 .. Len(block) -> Msgs]
    BY <1>2 DEF Written
  <1>4. Written(block, n, data) \in Seq(Msgs)
        /\ DOMAIN Written(block, n, data) = 1 .. Len(block)
    BY <1>1, <1>3
  <1>5. Len(Written(block, n, data)) = Len(block)
    BY <1>1, <1>4, LenProperties
  <1>. QED BY <1>4, <1>5 DEF Written

\* A message and a byte of none.
LEMMA MsgFacts ==
  ASSUME NEW c \in Conns, NEW n \in Nat \ {0}
  PROVE  /\ Msg(c, n) \in Seq(Msgs) /\ Len(Msg(c, n)) = MsgLen
         /\ Numbered(Msg(c, n), c, (n - 1) * MsgLen)
  <1>. USE ClientAssumption
  <1>1. (n - 1) * MsgLen \in Nat
    OBVIOUS
  <1>2. Msg(c, n) \in [1 .. MsgLen -> Msgs]
    <2>1. \A i \in 1 .. MsgLen : (n - 1) * MsgLen + i \in Nat \ {0}
      BY <1>1
    <2>2. \A i \in 1 .. MsgLen : <<c, (n - 1) * MsgLen + i>> \in Msgs
      BY <2>1 DEF Msgs
    <2>. QED BY <2>2 DEF Msg
  <1>3. Msg(c, n) \in Seq(Msgs) /\ DOMAIN Msg(c, n) = 1 .. MsgLen
    BY <1>2
  <1>4. Len(Msg(c, n)) = MsgLen
    BY <1>3, LenProperties
  <1>. QED BY <1>3, <1>4 DEF Msg, Numbered

\* A byte of no message is a byte.
LEMMA JunkFacts ==
  ASSUME NEW c \in Conns
  PROVE  Junk(c) \in Msgs /\ <<Junk(c)>> \in Seq(Msgs) /\ Len(<<Junk(c)>>) = 1
  <1>1. MaxMsgs * MsgLen + 1 \in Nat \ {0}
    BY ClientAssumption
  <1>2. Junk(c) \in Msgs
    BY <1>1 DEF Junk, Msgs
  <1>. QED BY <1>2

\* A run of bytes of no message.
LEMMA JunkRun ==
  ASSUME NEW c \in Conns, NEW n \in Nat
  PROVE  [i \in 1 .. n |-> Junk(c)] \in Seq(Msgs) /\ Len([i \in 1 .. n |-> Junk(c)]) = n
  <1>. DEFINE f == [i \in 1 .. n |-> Junk(c)]
  <1>1. f \in [1 .. n -> Msgs]
    BY JunkFacts
  <1>2. f \in Seq(Msgs) /\ DOMAIN f = 1 .. n
    BY <1>1
  <1>. QED BY <1>2, LenProperties

\* Part of a sequence of bytes is one.
LEMMA PartType ==
  ASSUME NEW s \in Seq(Msgs), NEW i \in Nat \ {0}, NEW j \in Nat, j <= Len(s)
  PROVE  /\ SubSeq(s, i, j) \in Seq(Msgs)
         /\ Len(SubSeq(s, i, j)) = IF i <= j THEN j - i + 1 ELSE 0
         /\ \A k \in 1 .. j - i + 1 : SubSeq(s, i, j)[k] = s[i + k - 1]
  <1>1. \A k \in i .. j : s[k] \in Msgs
    BY ElementOfSeq, LenProperties
  <1>. QED BY <1>1, SubSeqProperties

\* Two runs of bytes behind each other are one, as long as both together.
LEMMA JoinType ==
  ASSUME NEW a \in Seq(Msgs), NEW b \in Seq(Msgs)
  PROVE  a \o b \in Seq(Msgs) /\ Len(a \o b) = Len(a) + Len(b)
  BY ConcatProperties

\* Reading the string yields as many bytes as were asked for, whatever the block holds,
LEMMA CharsType ==
  ASSUME ClientTypeOK, NEW c \in Conns, NEW i \in Nat \ {0}, NEW j \in Nat, i <= j + 1
  PROVE  Chars(c, i, j) \in Seq(Msgs) /\ Len(Chars(c, i, j)) = (j + 1) - i
  <1>1. chars[c] \in Seq(Msgs) /\ Len(chars[c]) \in Nat /\ (j + 1) - i \in Nat
    BY LenProperties DEF ClientTypeOK
  <1>2. ASSUME NEW k \in 1 .. (j + 1) - i
        PROVE  (IF i + k - 1 <= Len(chars[c]) THEN chars[c][i + k - 1] ELSE Junk(c)) \in Msgs
    <2>1. CASE i + k - 1 <= Len(chars[c])
      <3>1. i + k - 1 \in 1 .. Len(chars[c])
        BY <1>1, <2>1
      <3>. QED BY <1>1, <2>1, <3>1, ElementOfSeq
    <2>2. CASE ~(i + k - 1 <= Len(chars[c]))
      BY <2>2, JunkFacts
    <2>. QED BY <2>1, <2>2
  <1>3. Chars(c, i, j) \in [1 .. (j + 1) - i -> Msgs]
    BY <1>2 DEF Chars
  <1>4. Chars(c, i, j) \in Seq(Msgs) /\ DOMAIN Chars(c, i, j) = 1 .. (j + 1) - i
    BY <1>1, <1>3
  <1>. QED BY <1>1, <1>4, LenProperties

\* and inside the block it yields the block's part.
LEMMA CharsInBlock ==
  ASSUME ClientTypeOK, NEW c \in Conns, NEW i \in Nat \ {0}, NEW j \in Nat, i <= j + 1,
         j <= Len(chars[c])
  PROVE  Chars(c, i, j) = SubSeq(chars[c], i, j)
  <1>. DEFINE f == Chars(c, i, j)
              g == SubSeq(chars[c], i, j)
              n == (j + 1) - i
  <1>1. chars[c] \in Seq(Msgs) /\ Len(chars[c]) \in Nat /\ n \in Nat
    BY LenProperties DEF ClientTypeOK
  <1>2. f \in Seq(Msgs) /\ Len(f) = n
    BY CharsType
  <1>3. /\ g \in Seq(Msgs) /\ Len(g) = IF i <= j THEN j - i + 1 ELSE 0
        /\ \A k \in 1 .. j - i + 1 : g[k] = chars[c][i + k - 1]
    BY <1>1, PartType
  <1>4. Len(g) = n /\ n = j - i + 1
    BY <1>3
  <1>5. ASSUME NEW k \in 1 .. n PROVE f[k] = g[k]
    <2>1. i + k - 1 <= Len(chars[c]) /\ k \in 1 .. j - i + 1
      BY <1>1, <1>4
    <2>2. f[k] = chars[c][i + k - 1]
      BY <2>1 DEF Chars
    <2>. QED BY <1>3, <2>1, <2>2
  <1>. HIDE DEF f, g, n
  <1>. QED BY <1>2, <1>3, <1>4, <1>5, SeqEqual DEF f, g

\* The type of the pieces recv_func cuts.
LEMMA PiecesType ==
  ASSUME NEW whole \in Seq(Msgs)
  PROVE  LET n == Len(whole) \div MsgLen
             pieces == [i \in 1 .. n |-> SubSeq(whole, (i - 1) * MsgLen + 1, i * MsgLen)]
         IN /\ n \in Nat /\ n * MsgLen <= Len(whole) /\ Len(whole) < n * MsgLen + MsgLen
            /\ pieces \in Seq(Seq(Msgs)) /\ Len(pieces) = n
            /\ SubSeq(whole, n * MsgLen + 1, Len(whole)) \in Seq(Msgs)
  <1>. USE ClientAssumption
  <1>. DEFINE n == Len(whole) \div MsgLen
              pieces == [i \in 1 .. n |-> SubSeq(whole, (i - 1) * MsgLen + 1, i * MsgLen)]
  <1>1. Len(whole) \in Nat
    BY LenProperties
  <1>2. n \in Nat /\ n * MsgLen <= Len(whole) /\ Len(whole) < n * MsgLen + MsgLen
    BY <1>1
  <1>. HIDE DEF n
  <1>3. ASSUME NEW i \in 1 .. n
        PROVE  SubSeq(whole, (i - 1) * MsgLen + 1, i * MsgLen) \in Seq(Msgs)
    <2>1. (i - 1) * MsgLen + 1 \in Nat \ {0}
      BY <1>2
    <2>2. i * MsgLen \in Nat /\ i * MsgLen <= n * MsgLen
      BY <1>2
    <2>. QED BY <1>1, <1>2, <2>1, <2>2, PartType
  <1>4. pieces \in [1 .. n -> Seq(Msgs)]
    BY <1>3
  <1>5. pieces \in Seq(Seq(Msgs)) /\ DOMAIN pieces = 1 .. n
    BY <1>2, <1>4
  <1>6. Len(pieces) = n
    BY <1>2, <1>5, LenProperties
  <1>7. SubSeq(whole, n * MsgLen + 1, Len(whole)) \in Seq(Msgs)
    BY <1>1, <1>2, PartType
  <1>. QED BY <1>2, <1>5, <1>6, <1>7 DEF n

-----------------------------------------------------------------------------
(* Types.                                                                  *)

\* A step of main() keeps the types.
LEMMA MainType ==
  ASSUME ClientTypeOK, UdtTypeOK, NEW c \in Conns, Sizes(c), Main(c)
  PROVE  ClientTypeOK' /\ UdtTypeOK'
  <1>. USE SocketNames, ClientAssumption
  <1>1. ASSUME UNCHANGED udtVars PROVE UdtTypeOK'
    BY <1>1 DEF UdtTypeOK, udtVars
  <1>2. CASE StartFails(c)
    BY <1>1, <1>2 DEF StartFails, MainGoes, ClientTypeOK, ioVars, sendVars, textVars, histories
  <1>3. CASE StartConnects(c)
    <2>1. UdtTypeOK'
      BY <1>3 DEF StartConnects, ConnectOk, UdtTypeOK, flowVars, Statuses
    <2>2. ClientTypeOK'
      BY <1>3 DEF StartConnects, MainGoes, ClientTypeOK, ioVars, sendVars, textVars, histories
    <2>. QED BY <2>1, <2>2
  <1>4. CASE StartSpawns(c)
    BY <1>1, <1>4 DEF StartSpawns, MainGoes, ClientTypeOK, sendVars, textVars, histories
  <1>5. CASE AppendReads(c)
    BY <1>1, <1>5 DEF AppendReads, MainGoes, ClientTypeOK, ioVars, sendVars
  <1>6. CASE AppendCopies(c)
    <2>1. Msg(c, made[c] + 1) \in Seq(Msgs)
      BY MsgFacts DEF ClientTypeOK
    <2>2. PICK at \in {append_at[c], length[c]} :
            chars' = [chars EXCEPT ![c] = Written(@, at, Msg(c, made[c] + 1))]
      BY <1>6 DEF AppendCopies
    <2>3. Written(chars[c], at, Msg(c, made[c] + 1)) \in Seq(Msgs)
      BY <2>1, WrittenFacts DEF ClientTypeOK
    <2>4. chars' \in [Conns -> Seq(Msgs)]
      BY <2>2, <2>3 DEF ClientTypeOK
    <2>. QED BY <1>1, <1>6, <2>4 DEF AppendCopies, MainGoes, ClientTypeOK, ioVars, sendVars,
                                     histories
  <1>7. CASE AppendGrows(c)
    <2>. DEFINE text == Chars(c, 1, length[c]) \o Msg(c, made[c] + 1)
                n == Room(Len(text), Len(chars[c]) - 1) + 1
    <2>1. chars' = [chars EXCEPT ![c] = Written([i \in 1 .. n |-> Junk(c)], 0, text)]
      BY <1>7 DEF AppendGrows
    <2>2. length[c] \in Nat /\ Len(chars[c]) \in Nat \ {0}
      BY LenProperties DEF ClientTypeOK, Sizes
    <2>3. text \in Seq(Msgs)
      <3>1. Msg(c, made[c] + 1) \in Seq(Msgs)
        BY MsgFacts DEF ClientTypeOK
      <3>2. Chars(c, 1, length[c]) \in Seq(Msgs)
        <4>1. 1 \in Nat \ {0} /\ 1 <= length[c] + 1
          BY <2>2
        <4>. QED BY <2>2, <4>1, CharsType
      <3>. QED BY <3>1, <3>2, ConcatProperties
    <2>. HIDE DEF text
    <2>4. n \in Nat
      <3>1. Len(text) \in Nat
        BY <2>3, LenProperties
      <3>. QED BY <2>2, <3>1 DEF Room
    <2>. HIDE DEF n
    <2>5. [i \in 1 .. n |-> Junk(c)] \in Seq(Msgs)
      BY <2>4, JunkRun
    <2>6. Written([i \in 1 .. n |-> Junk(c)], 0, text) \in Seq(Msgs)
      BY <2>3, <2>5, WrittenFacts
    <2>7. chars' \in [Conns -> Seq(Msgs)]
      BY <2>1, <2>6 DEF ClientTypeOK
    <2>8. /\ freed' \in [Conns -> {0, 1}] /\ clash' \in [Conns -> {0, 1}]
          /\ torn' \in [Conns -> {0, 1}]
      BY <1>7 DEF AppendGrows, ClientTypeOK
    <2>. QED BY <1>1, <1>7, <2>7, <2>8 DEF AppendGrows, MainGoes, ClientTypeOK, ioVars
  <1>10. CASE AppendCrashes(c)
    <2>1. UdtTypeOK'
      BY <1>10 DEF AppendCrashes, CloseSock, UdtTypeOK, flowVars, Statuses
    <2>2. ClientTypeOK'
      BY <1>10 DEF AppendCrashes, MainGoes, ClientTypeOK, sendVars, textVars, histories
    <2>. QED BY <2>1, <2>2
  <1>8. CASE AppendStores(c)
    <2>1. /\ append_at[c] + MsgLen \in Nat /\ made[c] + 1 \in 0 .. MaxMsgs
      BY <1>8 DEF AppendStores, MainGoes, ClientTypeOK, Sizes, Appending
    <2>2. Written(chars[c], append_at[c] + MsgLen, <<Junk(c)>>) \in Seq(Msgs)
      BY <2>1, WrittenFacts, JunkFacts DEF ClientTypeOK
    <2>3. chars' \in [Conns -> Seq(Msgs)] /\ length' \in [Conns -> Nat]
      BY <1>8, <2>1, <2>2 DEF AppendStores, SetLength, ClientTypeOK
    <2>. QED BY <1>1, <1>8, <2>1, <2>3 DEF AppendStores, MainGoes, ClientTypeOK, ioVars, sendVars
  <1>9. CASE Measure(c)
    BY <1>1, <1>9 DEF Measure, MainGoes, ClientTypeOK, ioVars, sendVars, textVars, histories
  <1>. QED BY <1>2, <1>3, <1>4, <1>5, <1>6, <1>7, <1>8, <1>9, <1>10 DEF Main

\* The bytes a send was given: the first of the string, or those of a freed block.
LEMMA GivenType ==
  ASSUME ClientTypeOK, NEW c \in Conns,
         NEW text \in {Chars(c, 1, send_size[c]), [i \in 1 .. send_size[c] |-> Junk(c)]}
  PROVE  text \in Seq(Msgs) /\ Len(text) = send_size[c]
  <1>1. send_size[c] \in Nat /\ 1 \in Nat \ {0} /\ 1 <= send_size[c] + 1
        /\ (send_size[c] + 1) - 1 = send_size[c]
    BY DEF ClientTypeOK
  <1>2. Chars(c, 1, send_size[c]) \in Seq(Msgs) /\ Len(Chars(c, 1, send_size[c])) = send_size[c]
    BY <1>1, CharsType
  <1>3. /\ [i \in 1 .. send_size[c] |-> Junk(c)] \in Seq(Msgs)
        /\ Len([i \in 1 .. send_size[c] |-> Junk(c)]) = send_size[c]
    BY <1>1, JunkRun
  <1>. QED BY <1>2, <1>3

\* What recv_func keeps and hands on are bytes and pieces of bytes.
LEMMA CutType ==
  ASSUME ClientTypeOK, NEW c \in Conns, NEW whole \in Seq(Msgs), Cut(c, whole)
  PROVE  recved_str' \in [Conns -> Seq(Msgs)] /\ frames' \in [Conns -> Seq(Seq(Msgs))]
  <1>. DEFINE n == Len(whole) \div MsgLen
              rest == SubSeq(whole, n * MsgLen + 1, Len(whole))
              pieces == [i \in 1 .. n |-> SubSeq(whole, (i - 1) * MsgLen + 1, i * MsgLen)]
  <1>1. rest \in Seq(Msgs) /\ pieces \in Seq(Seq(Msgs))
    BY PiecesType
  <1>2. /\ recved_str' = [recved_str EXCEPT ![c] = rest]
        /\ frames' = [frames EXCEPT ![c] =
             IF \A i \in 1 .. Len(@) : @[i] = Msg(c, i) THEN @ \o pieces ELSE @]
    BY DEF Cut, CutTo
  <1>. HIDE DEF rest, pieces
  <1>3. frames[c] \in Seq(Seq(Msgs)) /\ frames[c] \o pieces \in Seq(Seq(Msgs))
    BY <1>1, ConcatProperties DEF ClientTypeOK
  <1>. QED BY <1>1, <1>2, <1>3 DEF ClientTypeOK

\* A step of the I/O thread keeps the types.
LEMMA RunType ==
  ASSUME ClientTypeOK, UdtTypeOK, NEW c \in Conns, Sizes(c), Run(c)
  PROVE  ClientTypeOK' /\ UdtTypeOK'
  <1>. USE SocketNames
  <1>1. ASSUME UNCHANGED udtVars PROVE UdtTypeOK'
    BY <1>1 DEF UdtTypeOK, udtVars
  <1>2. CASE RunBoots(c)
    BY <1>1, <1>2 DEF RunBoots, IoGoes, ClientTypeOK, sendVars, textVars, histories
  <1>3. CASE LoopTests(c)
    BY <1>1, <1>3 DEF LoopTests, IoGoes, ClientTypeOK, sendVars, textVars, histories
  <1>4. CASE RunCloses(c)
    <2>1. UdtTypeOK'
      BY <1>4 DEF RunCloses, CloseSock, UdtTypeOK, flowVars, Statuses
    <2>2. ClientTypeOK'
      BY <1>4 DEF RunCloses, IoGoes, ClientTypeOK, sendVars, textVars, histories
    <2>. QED BY <2>1, <2>2
  <1>5. CASE SendSkips(c)
    BY <1>1, <1>5 DEF SendSkips, IoGoes, ClientTypeOK, sendVars, textVars, histories
  <1>6. CASE SendPoints(c) \/ SendCounts(c)
    <2>1. UNCHANGED udtVars
      BY <1>6 DEF SendPoints, SendCounts
    <2>2. CASE SendPoints(c)
      BY <1>1, <2>1, <2>2 DEF SendPoints, IoGoes, ClientTypeOK, sendVars, textVars, histories
    <2>3. CASE SendCounts(c)
      BY <1>1, <2>1, <2>3 DEF SendCounts, IoGoes, ClientTypeOK, textVars, histories
    <2>. QED BY <1>6, <2>2, <2>3
  <1>7. CASE SendTakesSome(c)
    <2>1. PICK text \in {Chars(c, 1, send_size[c]), [i \in 1 .. send_size[c] |-> Junk(c)]},
               k \in 1 .. SndCap :
            SendTakes(ClientSock(c), text, k) /\ SendReturns(c, k)
      BY <1>7 DEF SendTakesSome
    <2>3. text \in Seq(Msgs)
      BY GivenType
    <2>4. UdtTypeOK'
      BY <2>1, <2>3, SendTakesType
    <2>5. /\ send_len' = [send_len EXCEPT ![c] = k]
          /\ send_size' = [send_size EXCEPT ![c] = 0]
          /\ freed' = [freed EXCEPT ![c] = 0]
          /\ UNCHANGED <<main, half, recved_str, textVars, histories>>
      BY <2>1 DEF SendReturns
    <2>6. io' = [io EXCEPT ![c] = "erase"] /\ UNCHANGED udt_running
      BY <1>7 DEF SendTakesSome, IoGoes
    <2>7. k \in Nat
      OBVIOUS
    <2>8. ClientTypeOK'
      BY <2>5, <2>6, <2>7 DEF ClientTypeOK, textVars, histories
    <2>. QED BY <2>4, <2>8
  <1>8. CASE SendTakesNone(c)
    <2>1. UNCHANGED udtVars
      BY <1>8 DEF SendTakesNone, SendmsgFull
    <2>2. ClientTypeOK'
      BY <1>8 DEF SendTakesNone, SendReturns, IoGoes, ClientTypeOK, textVars, histories
    <2>. QED BY <1>1, <2>1, <2>2
  <1>9. CASE SendFails(c)
    <2>1. UNCHANGED udtVars
      BY <1>9 DEF SendFails, SendmsgError
    <2>2. ClientTypeOK'
      BY <1>9 DEF SendFails, SendReturns, IoGoes, ClientTypeOK, textVars, histories
    <2>. QED BY <1>1, <2>1, <2>2
  <1>10. CASE EraseReads(c)
    BY <1>1, <1>10 DEF EraseReads, IoGoes, ClientTypeOK, textVars
  <1>11. CASE EraseMoves(c)
    <2>1. /\ send_len[c] + 1 \in Nat \ {0} /\ send_size[c] \in Nat
          /\ send_len[c] + 1 <= send_size[c] + 1 /\ chars[c] \in Seq(Msgs)
      BY <1>11 DEF EraseMoves, IoGoes, ClientTypeOK, Sizes, Erasing
    <2>2. Chars(c, send_len[c] + 1, send_size[c]) \in Seq(Msgs)
      BY <2>1, CharsType
    <2>3. Written(chars[c], 0, Chars(c, send_len[c] + 1, send_size[c])) \in Seq(Msgs)
      BY <2>1, <2>2, WrittenFacts
    <2>4. chars' \in [Conns -> Seq(Msgs)] /\ send_size' \in [Conns -> Nat]
      BY <1>11, <2>3 DEF EraseMoves, ClientTypeOK
    <2>. QED BY <1>1, <1>11, <2>4 DEF EraseMoves, IoGoes, ClientTypeOK, histories
  <1>12. CASE EraseStores(c)
    <2>1. send_size[c] - send_len[c] \in Nat
      BY <1>12 DEF EraseStores, EraseTo, IoGoes, ClientTypeOK, Sizes, Erasing
    <2>2. Written(chars[c], send_size[c] - send_len[c], <<Junk(c)>>) \in Seq(Msgs)
      BY <2>1, WrittenFacts, JunkFacts DEF ClientTypeOK
    <2>3. chars' \in [Conns -> Seq(Msgs)] /\ length' \in [Conns -> Nat]
      BY <1>12, <2>1, <2>2 DEF EraseStores, EraseTo, SetLength, ClientTypeOK
    <2>. QED BY <1>1, <1>12, <2>3 DEF EraseStores, EraseTo, IoGoes, ClientTypeOK, histories
  <1>13. CASE RecvSome(c)
    <2>1. PICK k \in 1 .. RcvCap :
            /\ RecvReturns(ClientSock(c), k)
            /\ Cut(c, recved_str[c] \o SubSeq(rcvBuf[ClientSock(c)], 1, k))
      BY <1>13 DEF RecvSome
    <2>2. UdtTypeOK' /\ SubSeq(rcvBuf[ClientSock(c)], 1, k) \in Seq(Msgs)
      BY <2>1, RecvReturnsType
    <2>3. recved_str[c] \o SubSeq(rcvBuf[ClientSock(c)], 1, k) \in Seq(Msgs)
      BY <2>2, ConcatProperties DEF ClientTypeOK
    <2>4. recved_str' \in [Conns -> Seq(Msgs)] /\ frames' \in [Conns -> Seq(Seq(Msgs))]
      BY <2>1, <2>3, CutType
    <2>5. ClientTypeOK'
      BY <1>13, <2>4 DEF RecvSome, NextHalf, IoGoes, ClientTypeOK, sendVars, textVars
    <2>. QED BY <2>2, <2>5
  <1>14. CASE RecvNothing(c)
    <2>1. UNCHANGED udtVars
      BY <1>14 DEF RecvNothing, RecvmsgNothing, RecvmsgNoConn
    <2>2. ClientTypeOK'
      BY <1>14 DEF RecvNothing, NextHalf, IoGoes, ClientTypeOK, sendVars, textVars, histories
    <2>. QED BY <1>1, <2>1, <2>2
  <1>15. CASE RecvFails(c)
    <2>1. UNCHANGED udtVars
      BY <1>15 DEF RecvFails, RecvmsgLost
    <2>2. ClientTypeOK'
      BY <1>15 DEF RecvFails, NextHalf, IoGoes, ClientTypeOK, sendVars, textVars, histories
    <2>. QED BY <1>1, <2>1, <2>2
  <1>. QED BY <1>2, <1>3, <1>4, <1>5, <1>6, <1>7, <1>8, <1>9, <1>10, <1>11, <1>12, <1>13,
              <1>14, <1>15 DEF Run

-----------------------------------------------------------------------------
(* The lengths.                                                            *)

\* What a client keeps for itself, and the two ends of its connection.
Own(c) ==
  <<main[c], io[c], half[c], udt_running[c], chars[c], length[c], append_at[c], send_size[c],
    send_len[c], freed[c], recved_str[c], torn[c], made[c], frames[c], clash[c]>>
Ends(c) ==
  <<sndBuf[ClientSock(c)], rcvBuf[ClientSock(c)], accepted[ClientSock(c)],
    taken[ClientSock(c)], sndBuf[ServerSock(c)], rcvBuf[ServerSock(c)],
    accepted[ServerSock(c)], taken[ServerSock(c)]>>

\* Another client's step leaves both alone.
LEMMA OtherMain ==
  ASSUME ClientTypeOK, NEW c \in Conns, NEW d \in Conns, c # d, Main(d)
  PROVE  UNCHANGED <<Own(c), Ends(c)>>
  <1>1. CASE StartFails(d) \/ Measure(d)
    BY <1>1 DEF StartFails, Measure, MainGoes, Own, Ends, ClientTypeOK, ioVars, sendVars,
                textVars, histories, udtVars
  <1>2. CASE StartConnects(d)
    BY <1>2 DEF StartConnects, ConnectOk, MainGoes, Own, Ends, ClientTypeOK, ioVars, sendVars,
                textVars, histories, flowVars
  <1>3. CASE StartSpawns(d)
    BY <1>3 DEF StartSpawns, MainGoes, Own, Ends, ClientTypeOK, sendVars, textVars, histories,
                udtVars
  <1>4. CASE AppendReads(d)
    BY <1>4 DEF AppendReads, MainGoes, Own, Ends, ClientTypeOK, ioVars, sendVars, udtVars
  <1>5. CASE AppendCopies(d)
    BY <1>5 DEF AppendCopies, MainGoes, Own, Ends, ClientTypeOK, ioVars, sendVars, histories,
                udtVars
  <1>6. CASE AppendGrows(d)
    BY <1>6 DEF AppendGrows, MainGoes, Own, Ends, ClientTypeOK, ioVars, udtVars
  <1>7. CASE AppendStores(d)
    BY <1>7 DEF AppendStores, SetLength, MainGoes, Own, Ends, ClientTypeOK, ioVars, sendVars,
                udtVars
  <1>8. CASE AppendCrashes(d)
    BY <1>8 DEF AppendCrashes, CloseSock, MainGoes, Own, Ends, ClientTypeOK, sendVars, textVars,
                histories, flowVars
  <1>. QED BY <1>1, <1>2, <1>3, <1>4, <1>5, <1>6, <1>7, <1>8 DEF Main

\* So does the step of another client's I/O thread.
LEMMA OtherRun ==
  ASSUME ClientTypeOK, UdtTypeOK, NEW c \in Conns, NEW d \in Conns, c # d, Run(d)
  PROVE  UNCHANGED <<Own(c), Ends(c)>>
  <1>0. /\ ClientSock(c) \in Socks /\ ServerSock(c) \in Socks /\ ClientSock(d) \in Socks
        /\ ClientSock(d) # ClientSock(c) /\ ClientSock(d) # ServerSock(c)
    BY SocketNames, OtherSockets
  <1>1. CASE RunBoots(d) \/ LoopTests(d) \/ SendSkips(d)
    BY <1>1 DEF RunBoots, LoopTests, SendSkips, IoGoes, Own, Ends, ClientTypeOK, sendVars,
                textVars, histories, udtVars
  <1>2. CASE RunCloses(d)
    BY <1>2 DEF RunCloses, CloseSock, IoGoes, Own, Ends, ClientTypeOK, sendVars, textVars,
                histories, flowVars
  <1>3. CASE SendPoints(d) \/ SendCounts(d)
    BY <1>3 DEF SendPoints, SendCounts, IoGoes, Own, Ends, ClientTypeOK, sendVars, textVars,
                histories, udtVars
  <1>4. CASE SendTakesSome(d)
    <2>1. PICK text \in {Chars(d, 1, send_size[d]), [i \in 1 .. send_size[d] |-> Junk(d)]},
               k \in 1 .. SndCap :
            SendTakes(ClientSock(d), text, k) /\ SendReturns(d, k)
      BY <1>4 DEF SendTakesSome
    <2>2. UNCHANGED Ends(c)
      BY <1>0, <2>1 DEF SendTakes, UdtTypeOK, Ends
    <2>3. UNCHANGED Own(c)
      BY <1>4, <2>1 DEF SendTakesSome, SendReturns, IoGoes, Own, ClientTypeOK, textVars, histories
    <2>. QED BY <2>2, <2>3
  <1>5. CASE SendTakesNone(d) \/ SendFails(d)
    BY <1>5 DEF SendTakesNone, SendFails, SendReturns, SendmsgFull, SendmsgError, IoGoes, Own,
                Ends, ClientTypeOK, textVars, histories, udtVars
  <1>6. CASE EraseReads(d)
    BY <1>6 DEF EraseReads, IoGoes, Own, Ends, ClientTypeOK, textVars, udtVars
  <1>7. CASE EraseMoves(d)
    BY <1>7 DEF EraseMoves, IoGoes, Own, Ends, ClientTypeOK, histories, udtVars
  <1>8. CASE EraseStores(d)
    BY <1>8 DEF EraseStores, EraseTo, SetLength, IoGoes, Own, Ends, ClientTypeOK, histories,
                udtVars
  <1>9. CASE RecvSome(d)
    <2>1. PICK k \in 1 .. RcvCap :
            /\ RecvReturns(ClientSock(d), k)
            /\ Cut(d, recved_str[d] \o SubSeq(rcvBuf[ClientSock(d)], 1, k))
      BY <1>9 DEF RecvSome
    <2>2. UNCHANGED Ends(c)
      BY <1>0, <2>1 DEF RecvReturns, UdtTypeOK, Ends
    <2>3. UNCHANGED <<recved_str[c], frames[c]>>
      BY <2>1 DEF Cut, CutTo, ClientTypeOK
    <2>4. UNCHANGED Own(c)
      BY <1>9, <2>3 DEF RecvSome, NextHalf, IoGoes, Own, ClientTypeOK, sendVars, textVars
    <2>. QED BY <2>2, <2>4
  <1>10. CASE RecvNothing(d) \/ RecvFails(d)
    BY <1>10 DEF RecvNothing, RecvFails, NextHalf, IoGoes, RecvmsgNothing, RecvmsgNoConn,
                 RecvmsgLost, Own, Ends, ClientTypeOK, sendVars, textVars, histories, udtVars
  <1>. QED BY <1>1, <1>2, <1>3, <1>4, <1>5, <1>6, <1>7, <1>8, <1>9, <1>10 DEF Run

\* std::string's growth never gives less than was asked for.
LEMMA RoomIsEnough ==
  ASSUME NEW needed \in Nat, NEW capacity \in Nat
  PROVE  Room(needed, capacity) \in Nat /\ Room(needed, capacity) >= needed
  BY DEF Room

\* main() keeps the lengths in their bounds,
LEMMA MainSizes ==
  ASSUME ClientTypeOK, NEW c \in Conns, Sizes(c), Main(c)
  PROVE  Sizes(c)'
  <1>. USE ClientAssumption DEF MainGoes, Appending, Erasing
  <1>0. /\ chars[c] \in Seq(Msgs) /\ Len(chars[c]) \in Nat
        /\ length[c] \in Nat /\ append_at[c] \in Nat /\ send_size[c] \in Nat
        /\ send_len[c] \in Nat /\ made[c] \in Nat /\ Msg(c, made[c] + 1) \in Seq(Msgs)
        /\ Len(Msg(c, made[c] + 1)) = MsgLen
    BY LenProperties, MsgFacts DEF ClientTypeOK
  <1>1. CASE StartFails(c)
    BY <1>1 DEF StartFails, ClientTypeOK, Sizes, Fits, ioVars, sendVars, textVars, histories
  <1>2. CASE StartConnects(c)
    BY <1>2 DEF StartConnects, ClientTypeOK, Sizes, Fits, ioVars, sendVars, textVars, histories
  <1>3. CASE StartSpawns(c)
    BY <1>3 DEF StartSpawns, ClientTypeOK, Sizes, Fits, sendVars, textVars, histories
  <1>4. CASE AppendReads(c)
    BY <1>4 DEF AppendReads, ClientTypeOK, Sizes, Fits, ioVars, sendVars
  <1>5. CASE AppendCopies(c)
    <2>1. PICK at \in {append_at[c], length[c]} :
            chars' = [chars EXCEPT ![c] = Written(@, at, Msg(c, made[c] + 1))]
      BY <1>5 DEF AppendCopies
    <2>2. Len(chars'[c]) = Len(chars[c])
      BY <1>0, <2>1, WrittenFacts DEF ClientTypeOK
    <2>3. /\ main[c] = "copy" /\ main'[c] = "store" /\ append_at[c] + MsgLen < Len(chars[c])
          /\ UNCHANGED <<io, send_size, send_len, length, append_at, torn, made>>
      BY <1>5 DEF AppendCopies, ClientTypeOK, ioVars, sendVars, histories
    <2>. QED BY <2>2, <2>3 DEF Sizes, Fits
  <1>6. CASE AppendGrows(c)
    <2>. DEFINE text == Chars(c, 1, length[c]) \o Msg(c, made[c] + 1)
                n == Room(Len(text), Len(chars[c]) - 1) + 1
    <2>1. chars' = [chars EXCEPT ![c] = Written([i \in 1 .. n |-> Junk(c)], 0, text)]
      BY <1>6 DEF AppendGrows
    <2>2. text \in Seq(Msgs) /\ Len(text) = length[c] + MsgLen
      <3>1. (length[c] + 1) - 1 = length[c] /\ 1 \in Nat \ {0} /\ 1 <= length[c] + 1
        BY <1>0
      <3>2. Chars(c, 1, length[c]) \in Seq(Msgs) /\ Len(Chars(c, 1, length[c])) = length[c]
        BY <1>0, <3>1, CharsType
      <3>3. /\ text \in Seq(Msgs)
            /\ Len(text) = Len(Chars(c, 1, length[c])) + Len(Msg(c, made[c] + 1))
        BY <1>0, <3>2, JoinType
      <3>. QED BY <1>0, <3>2, <3>3
    <2>. HIDE DEF text
    <2>3. n \in Nat /\ n > length[c] + MsgLen
      <3>1. length[c] + MsgLen \in Nat /\ Len(chars[c]) - 1 \in Nat
        BY <1>0 DEF Sizes
      <3>2. /\ Room(length[c] + MsgLen, Len(chars[c]) - 1) \in Nat
            /\ Room(length[c] + MsgLen, Len(chars[c]) - 1) >= length[c] + MsgLen
        BY <3>1, RoomIsEnough
      <3>. QED BY <2>2, <3>1, <3>2
    <2>. HIDE DEF n
    <2>4. Len(chars'[c]) = n
      <3>1. [i \in 1 .. n |-> Junk(c)] \in Seq(Msgs) /\ Len([i \in 1 .. n |-> Junk(c)]) = n
        BY <2>3, JunkRun
      <3>2. Len(Written([i \in 1 .. n |-> Junk(c)], 0, text)) = n
        BY <2>2, <3>1, WrittenFacts
      <3>. QED BY <2>1, <3>2 DEF ClientTypeOK
    <2>5. /\ main[c] = "copy" /\ main'[c] = "store"
          /\ torn'[c] = IF length[c] < append_at[c] THEN 1 ELSE torn[c]
          /\ UNCHANGED <<io, send_size, send_len, length, append_at, made>>
      BY <1>6 DEF AppendGrows, ClientTypeOK, ioVars
    <2>6. /\ length[c] <= append_at[c] /\ append_at[c] <= BufLimit /\ made[c] < MaxMsgs
          /\ io[c] \in {"count", "give", "move", "cut"} => send_size[c] <= length[c]
          /\ io[c] = "erase" => send_len[c] <= length[c]
          /\ Erasing(c) => send_len[c] <= send_size[c]
          /\ length[c] <= BufLimit + MsgLen
      BY <2>5 DEF Sizes
    <2>7. Len(chars'[c]) # 0
      BY <1>0, <2>3, <2>4
    <2>8. torn'[c] = 0 => length[c] < n /\ append_at[c] < n /\ append_at[c] + MsgLen < n
      <3>1. torn'[c] = 0 => append_at[c] = length[c]
        BY <1>0, <2>5, <2>6
      <3>. QED BY <1>0, <2>3, <3>1
    <2>9. torn'[c] = 0 => Fits(c)'
      BY <2>4, <2>5, <2>8 DEF Fits
    <2>. HIDE ClientAssumption DEF Erasing
    <2>10. Erasing(c)' => send_len'[c] <= send_size'[c]
      BY <2>5, <2>6 DEF Erasing
    <2>. QED BY <2>5, <2>6, <2>7, <2>9, <2>10 DEF Sizes
  <1>9. CASE AppendCrashes(c)
    <2>1. /\ main'[c] = "exit" /\ io'[c] = "done"
          /\ UNCHANGED <<chars, length, append_at, send_size, send_len, torn, made>>
      BY <1>9 DEF AppendCrashes, ClientTypeOK, sendVars, textVars, histories
    <2>. QED BY <2>1 DEF Sizes, Fits
  <1>7. CASE AppendStores(c)
    <2>1. /\ chars'[c] = Written(chars[c], append_at[c] + MsgLen, <<Junk(c)>>)
          /\ length'[c] = append_at[c] + MsgLen
          /\ append_at'[c] = 0 /\ main[c] = "store" /\ main'[c] = "measure"
          /\ UNCHANGED <<io, send_size, send_len, torn>>
      BY <1>7 DEF AppendStores, SetLength, ClientTypeOK, ioVars, sendVars
    <2>. DEFINE b == Len(chars[c])
                l == append_at[c] + MsgLen
    <2>2. l \in Nat
      BY <1>0
    <2>3. Len(chars'[c]) = Len(chars[c])
      <3>1. <<Junk(c)>> \in Seq(Msgs)
        BY JunkFacts
      <3>2. chars'[c] = Written(chars[c], l, <<Junk(c)>>)
        BY <2>1
      <3>. HIDE ClientAssumption DEF l
      <3>3. ASSUME NEW block \in Seq(Msgs)
            PROVE  Len(Written(block, l, <<Junk(c)>>)) = Len(block)
        BY <2>2, <3>1, WrittenFacts
      <3>. QED BY <1>0, <3>2, <3>3
    <2>4. /\ length[c] <= append_at[c] /\ append_at[c] <= BufLimit
          /\ io[c] \in {"count", "give", "move", "cut"} => send_size[c] <= length[c]
          /\ io[c] = "erase" => send_len[c] <= length[c]
          /\ Erasing(c) => send_len[c] <= send_size[c]
          /\ b # 0
          /\ torn[c] = 0 => l < b
      BY <2>1 DEF Sizes, Fits
    <2>5. b \in Nat /\ Len(chars'[c]) = b
      BY <1>0, <2>3
    <2>. HIDE DEF b
    <2>6. l <= BufLimit + MsgLen /\ length[c] <= l /\ l \in Nat
      BY <1>0, <2>4, <2>5
    <2>7. length'[c] = l
      BY <2>1
    <2>. HIDE ClientAssumption DEF l, Erasing
    <2>8. Erasing(c)' => send_len'[c] <= send_size'[c]
      BY <2>1, <2>4 DEF Erasing
    <2>9. io'[c] \in {"count", "give", "move", "cut"} => send_size'[c] <= length'[c]
      <3>1. send_size[c] <= length[c] => send_size[c] <= l
        BY <1>0, <2>6
      <3>. QED BY <2>1, <2>4, <2>7, <3>1
    <2>10. io'[c] = "erase" => send_len'[c] <= length'[c]
      <3>1. send_len[c] <= length[c] => send_len[c] <= l
        BY <1>0, <2>6
      <3>. QED BY <2>1, <2>4, <2>7, <3>1
    <2>11. /\ length'[c] <= BufLimit + MsgLen /\ Len(chars'[c]) # 0
           /\ torn'[c] = 0 => length'[c] < Len(chars'[c]) /\ append_at'[c] < Len(chars'[c])
      <3>1. /\ torn'[c] = torn[c] /\ append_at'[c] = 0 /\ length'[c] <= BufLimit + MsgLen
            /\ b # 0
            /\ torn[c] = 0 => l < b
        BY <2>1, <2>4, <2>6, <2>7
      <3>2. b # 0 => 0 < b
        BY <2>5
      <3>. QED BY <2>5, <2>7, <3>1, <3>2
    <2>. QED BY <2>1, <2>8, <2>9, <2>10, <2>11 DEF Sizes, Fits
  <1>8. CASE Measure(c)
    BY <1>8 DEF Measure, ClientTypeOK, Sizes, Fits, ioVars, sendVars, textVars, histories
  <1>. QED BY <1>1, <1>2, <1>3, <1>4, <1>5, <1>6, <1>7, <1>8, <1>9 DEF Main

\* and so does the I/O thread.
LEMMA RunSizes ==
  ASSUME ClientTypeOK, UdtTypeOK, NEW c \in Conns, Sizes(c), Run(c)
  PROVE  Sizes(c)'
  <1>. USE DEF IoGoes, Appending, Erasing
  <1>0. /\ chars[c] \in Seq(Msgs) /\ Len(chars[c]) \in Nat
        /\ length[c] \in Nat /\ append_at[c] \in Nat /\ send_size[c] \in Nat
        /\ send_len[c] \in Nat /\ made[c] \in Nat
    BY LenProperties DEF ClientTypeOK
  <1>1. CASE RunBoots(c) \/ LoopTests(c) \/ RunCloses(c) \/ SendSkips(c)
    BY <1>1 DEF RunBoots, LoopTests, RunCloses, SendSkips, ClientTypeOK, Sizes, Fits, sendVars,
                textVars, histories
  <1>2. CASE SendPoints(c) \/ SendCounts(c)
    BY <1>0, <1>2 DEF SendPoints, SendCounts, ClientTypeOK, Sizes, Fits, sendVars, textVars,
                      histories
  <1>3. CASE SendTakesSome(c)
    <2>1. PICK text \in {Chars(c, 1, send_size[c]), [i \in 1 .. send_size[c] |-> Junk(c)]},
               k \in 1 .. SndCap :
            SendTakes(ClientSock(c), text, k) /\ SendReturns(c, k)
      BY <1>3 DEF SendTakesSome
    <2>2. io[c] = "give" /\ io'[c] = "erase"
      BY <1>3 DEF SendTakesSome, ClientTypeOK
    <2>3. text \in Seq(Msgs) /\ Len(text) = send_size[c]
      BY GivenType
    <2>4. k <= Len(text) /\ k \in Nat
      BY <2>1 DEF SendTakes
    <2>5. k <= length[c]
      <3>1. send_size[c] <= length[c]
        BY <2>2 DEF Sizes
      <3>. QED BY <1>0, <2>3, <2>4, <3>1
    <2>6. send_len'[c] = k /\ UNCHANGED <<main[c], chars[c], length[c]>>
          /\ UNCHANGED <<append_at[c], torn[c], made[c]>>
      BY <2>1 DEF SendReturns, ClientTypeOK, textVars, histories
    <2>. QED BY <2>2, <2>5, <2>6 DEF Sizes, Fits
  <1>4. CASE SendTakesNone(c) \/ SendFails(c)
    BY <1>4 DEF SendTakesNone, SendFails, SendReturns, ClientTypeOK, Sizes, Fits, textVars,
                histories
  <1>5. CASE EraseReads(c)
    BY <1>0, <1>5 DEF EraseReads, ClientTypeOK, Sizes, Fits, textVars
  <1>6. CASE EraseMoves(c)
    <2>1. send_len[c] + 1 \in Nat \ {0} /\ send_len[c] + 1 <= send_size[c] + 1
      BY <1>0, <1>6 DEF EraseMoves, Sizes
    <2>2. Chars(c, send_len[c] + 1, send_size[c]) \in Seq(Msgs)
      BY <1>0, <2>1, CharsType
    <2>3. Len(Written(chars[c], 0, Chars(c, send_len[c] + 1, send_size[c]))) = Len(chars[c])
      BY <1>0, <2>2, WrittenFacts
    <2>4. Len(chars'[c]) = Len(chars[c])
      BY <1>6, <2>3 DEF EraseMoves, ClientTypeOK
    <2>5. /\ io[c] = "move" /\ io'[c] = "cut" /\ send_size'[c] \in {send_size[c], length[c]}
          /\ UNCHANGED <<main[c], send_len[c], length[c], append_at[c], torn[c], made[c]>>
      BY <1>6 DEF EraseMoves, ClientTypeOK, histories
    <2>. QED BY <1>0, <2>4, <2>5 DEF Sizes, Fits
  <1>7. CASE EraseStores(c)
    <2>. DEFINE n == send_size[c] - send_len[c]
                b == Len(chars[c])
    <2>1. io[c] = "cut" /\ io'[c] = "recv"
      BY <1>7 DEF EraseStores, EraseTo, ClientTypeOK
    <2>2. n \in Nat /\ n <= length[c]
      BY <1>0, <2>1 DEF Sizes
    <2>3. /\ length'[c] = n /\ chars'[c] = Written(chars[c], n, <<Junk(c)>>)
          /\ UNCHANGED <<main[c], append_at[c], torn[c], made[c]>>
      BY <1>7 DEF EraseStores, EraseTo, SetLength, ClientTypeOK, histories
    <2>. HIDE DEF n
    <2>4. Len(chars'[c]) = Len(chars[c])
      <3>1. <<Junk(c)>> \in Seq(Msgs)
        BY JunkFacts
      <3>2. Len(Written(chars[c], n, <<Junk(c)>>)) = Len(chars[c])
        BY <1>0, <2>2, <3>1, WrittenFacts
      <3>. QED BY <2>3, <3>2
    <2>5. b \in Nat /\ Len(chars'[c]) = b
      BY <1>0, <2>4
    <2>6. /\ main[c] \in {"start", "settle"} => io[c] = "none" /\ length[c] = 0
          /\ main[c] = "push" => length[c] <= BufLimit
          /\ main[c] \in {"copy", "store"} =>
               length[c] <= append_at[c] /\ append_at[c] <= BufLimit /\ made[c] < MaxMsgs
          /\ length[c] <= BufLimit + MsgLen
          /\ b # 0
          /\ torn[c] = 0 => /\ length[c] < b /\ append_at[c] < b
                            /\ main[c] = "store" => append_at[c] + MsgLen < b
      BY DEF Sizes, Fits
    <2>. HIDE DEF b
    <2>7. /\ main'[c] \notin {"start", "settle"}
          /\ main'[c] = "push" => length'[c] <= BufLimit
          /\ main'[c] \in {"copy", "store"} =>
               length'[c] <= append_at'[c] /\ append_at'[c] <= BufLimit /\ made'[c] < MaxMsgs
          /\ length'[c] <= BufLimit + MsgLen
          /\ b # 0
          /\ torn'[c] = 0 => /\ length'[c] < b /\ append_at'[c] < b
                             /\ main'[c] = "store" => append_at'[c] + MsgLen < b
      BY <1>0, <2>1, <2>2, <2>3, <2>5, <2>6, ClientAssumption
    <2>. QED BY <2>1, <2>5, <2>7 DEF Sizes, Fits
  <1>8. CASE RecvSome(c)
    BY <1>8 DEF RecvSome, NextHalf, Cut, CutTo, ClientTypeOK, Sizes, Fits, sendVars, textVars
  <1>9. CASE RecvNothing(c) \/ RecvFails(c)
    BY <1>9 DEF RecvNothing, RecvFails, NextHalf, ClientTypeOK, Sizes, Fits, sendVars, textVars,
                histories
  <1>. QED BY <1>1, <1>2, <1>3, <1>4, <1>5, <1>6, <1>7, <1>8, <1>9 DEF Run

-----------------------------------------------------------------------------
(* Types and lengths, for the whole benchmark.                             *)

SizesInvariant == TypeOK /\ \A c \in Conns : Sizes(c)

\* What a client keeps does not change when it does not step.
LEMMA SizesKept ==
  ASSUME NEW c \in Conns, Sizes(c), UNCHANGED Own(c)
  PROVE  Sizes(c)'
  BY DEF Sizes, Fits, Own, Appending, Erasing

\* At first every string is empty, in a block of one character.
LEMMA SizesInit == Init => SizesInvariant
  <1>. SUFFICES ASSUME Init PROVE SizesInvariant
    OBVIOUS
  <1>. USE EmptySeq
  <1>1. ServerTypeOK /\ UdtTypeOK
    BY DEF Init, ServerInit, UdtInit, ServerTypeOK, UdtTypeOK, Statuses
  <1>2. ClientTypeOK
    BY JunkFacts, ClientAssumption DEF Init, ClientInit, ClientTypeOK
  <1>3. ASSUME NEW c \in Conns PROVE Sizes(c)
    <2>1. chars[c] = <<Junk(c)>> /\ Len(chars[c]) = 1
      BY JunkFacts DEF Init, ClientInit
    <2>. QED BY <2>1, ClientAssumption DEF Init, ClientInit, Sizes, Fits, Appending, Erasing
  <1>. QED BY <1>1, <1>2, <1>3 DEF SizesInvariant, TypeOK, Init

\* Every step of the benchmark keeps the sizes.
LEMMA SizesStep == SizesInvariant /\ [Next]_vars => SizesInvariant'
  <1>. SUFFICES ASSUME SizesInvariant, [Next]_vars PROVE SizesInvariant'
    OBVIOUS
  <1>0. /\ ClientTypeOK /\ ServerTypeOK /\ UdtTypeOK /\ repeated \in [Conns -> {0, 1}]
        /\ \A c \in Conns : Sizes(c)
    BY DEF SizesInvariant, TypeOK
  <1>1. ASSUME UNCHANGED clientVars
        PROVE  ClientTypeOK' /\ \A c \in Conns : Sizes(c)'
    <2>1. UNCHANGED <<main, io, half, udt_running, recved_str, send_size, send_len, freed, chars,
                      length, append_at, torn, made, frames, clash>>
      BY <1>1 DEF clientVars, ioVars, sendVars, textVars, histories
    <2>2. ClientTypeOK'
      BY <1>0, <2>1 DEF ClientTypeOK
    <2>3. \A c \in Conns : UNCHANGED Own(c)
      BY <2>1 DEF Own
    <2>. QED BY <1>0, <2>2, <2>3, SizesKept
  <1>2. ASSUME NEW d \in Conns, ClientStep(d), UNCHANGED <<serverVars, repeated>>
        PROVE  SizesInvariant'
    <2>1. ClientTypeOK' /\ UdtTypeOK'
      BY <1>0, <1>2, MainType, RunType DEF ClientStep
    <2>2. ServerTypeOK' /\ repeated' \in [Conns -> {0, 1}]
      BY <1>0, <1>2 DEF ServerTypeOK, serverVars
    <2>3. ASSUME NEW c \in Conns PROVE Sizes(c)'
      <3>1. CASE c = d
        BY <1>0, <1>2, <3>1, MainSizes, RunSizes DEF ClientStep
      <3>2. CASE c # d
        <4>1. UNCHANGED Own(c)
          BY <1>0, <1>2, <3>2, OtherMain, OtherRun DEF ClientStep
        <4>. QED BY <1>0, <4>1, SizesKept
      <3>. QED BY <3>1, <3>2
    <2>. QED BY <2>1, <2>2, <2>3 DEF SizesInvariant, TypeOK
  <1>3. CASE Server
    <2>1. ServerTypeOK' /\ UdtTypeOK'
      BY <1>0, <1>3, ServerType DEF Server
    <2>2. repeated' \in [Conns -> {0, 1}]
      BY <1>0, <1>3 DEF Server
    <2>. QED BY <1>1, <1>3, <2>1, <2>2 DEF Server, SizesInvariant, TypeOK
  <1>4. CASE Library
    <2>1. UdtTypeOK'
      BY <1>0, <1>4, NetworkType DEF Library
    <2>2. ServerTypeOK' /\ repeated' \in [Conns -> {0, 1}]
      BY <1>0, <1>4 DEF Library, ServerTypeOK, serverVars
    <2>. QED BY <1>1, <1>4, <2>1, <2>2 DEF Library, SizesInvariant, TypeOK
  <1>5. CASE UNCHANGED vars
    BY <1>0, <1>1, <1>5 DEF vars, serverVars, udtVars, ServerTypeOK, UdtTypeOK, SizesInvariant,
                            TypeOK
  <1>. QED BY <1>2, <1>3, <1>4, <1>5 DEF Next, Client

\* The invariant of the lengths is inductive.
THEOREM SizesInvariantHolds == Spec => []SizesInvariant
  BY SizesInit, SizesStep, PTL DEF Spec

\* The programs' variables and the sockets stay in their types.
THEOREM TypeCorrect == Spec => []TypeOK
  BY SizesInvariantHolds, PTL DEF SizesInvariant

\* The string grows at most one message beyond the limit and is never cut shorter than
\* empty, though two threads read and store its length without a lock.
THEOREM LengthStaysBounded == Spec => []LengthBounded
  <1>1. SizesInvariant => LengthBounded
    BY DEF SizesInvariant, LengthBounded, Sizes, Erasing
  <1>. QED BY <1>1, SizesInvariantHolds, PTL

\* No thread reaches outside the string's block with a length, a message or a size given to
\* UDT, for any size of message and limit, until an append that needs a new block finds the
\* string shorter than it had read it.
THEOREM StringStaysInBlock == Spec => []StaysInBlock
  <1>1. ASSUME SizesInvariant PROVE StaysInBlock
    <2>1. ASSUME NEW c \in Conns, torn[c] = 0
          PROVE  /\ length[c] < Len(chars[c])
                 /\ main[c] = "store" => append_at[c] + MsgLen < Len(chars[c])
                 /\ io[c] \in {"give", "move", "cut"} => send_size[c] < Len(chars[c])
      <3>1. Sizes(c) /\ Fits(c)
        BY <1>1, <2>1 DEF SizesInvariant, Sizes
      <3>2. send_size[c] \in Nat /\ length[c] \in Nat /\ Len(chars[c]) \in Nat
        BY <1>1, LenProperties DEF SizesInvariant, TypeOK, ClientTypeOK
      <3>3. io[c] \in {"give", "move", "cut"} => send_size[c] <= length[c]
        BY <3>1 DEF Sizes
      <3>. QED BY <3>1, <3>2, <3>3 DEF Fits
    <2>. QED BY <2>1 DEF StaysInBlock, Erasing
  <1>. QED BY <1>1, SizesInvariantHolds, PTL

-----------------------------------------------------------------------------
(* The bytes of the string.                                                *)


\* A message written behind the first n characters.
LEMMA CopiedText ==
  ASSUME NEW c, NEW block \in Seq(Msgs), NEW n \in Nat, NEW msg \in Seq(Msgs), NEW total \in Nat,
         Len(msg) = MsgLen, Numbered(msg, c, total), n + MsgLen < Len(block),
         NEW from \in Nat, Text(block, c, from, n)
  PROVE  /\ Text(Written(block, n, msg), c, from, n)
         /\ Behind(Written(block, n, msg), c, n, total)
  <1>. DEFINE b == Written(block, n, msg)
  <1>1. Len(block) \in Nat /\ MsgLen \in Nat
    BY LenProperties, ClientAssumption
  <1>2. \A i \in 1 .. Len(block) :
          b[i] = IF n < i /\ i <= n + Len(msg) THEN msg[i - n] ELSE block[i]
    BY WrittenFacts
  <1>. HIDE DEF b
  <1>3. ASSUME NEW i \in 1 .. n PROVE b[i] = <<c, from + i>>
    <2>1. i \in 1 .. Len(block) /\ ~(n < i)
      BY <1>1
    <2>. QED BY <1>2, <2>1 DEF Text
  <1>4. ASSUME NEW i \in 1 .. MsgLen PROVE b[n + i] = <<c, total + i>>
    <2>1. n + i \in 1 .. Len(block) /\ n < n + i /\ n + i <= n + Len(msg) /\ n + i - n = i
      BY <1>1
    <2>2. b[n + i] = msg[i]
      BY <1>2, <2>1
    <2>. QED BY <2>2 DEF Numbered
  <1>. QED BY <1>3, <1>4 DEF Text, Behind, b

\* A larger block with the first n characters and a message behind them.
LEMMA GrownText ==
  ASSUME NEW c \in Conns, NEW block \in Seq(Msgs), NEW n \in Nat, NEW msg \in Seq(Msgs),
         NEW total \in Nat, Len(msg) = MsgLen, Numbered(msg, c, total), n <= Len(block),
         NEW size \in Nat, n + MsgLen < size, NEW from \in Nat, Text(block, c, from, n)
  PROVE  LET b == Written([i \in 1 .. size |-> Junk(c)], 0, SubSeq(block, 1, n) \o msg)
         IN Text(b, c, from, n) /\ Behind(b, c, n, total)
  <1>. DEFINE part == SubSeq(block, 1, n)
              text == part \o msg
              junk == [i \in 1 .. size |-> Junk(c)]
              b == Written(junk, 0, text)
  <1>1. MsgLen \in Nat /\ 1 \in Nat \ {0} /\ n - 1 + 1 = n
    BY ClientAssumption
  <1>2. part \in Seq(Msgs) /\ Len(part) = n /\ \A i \in 1 .. n : part[i] = block[i]
    <2>1. /\ part \in Seq(Msgs) /\ Len(part) = IF 1 <= n THEN n - 1 + 1 ELSE 0
          /\ \A i \in 1 .. n - 1 + 1 : part[i] = block[1 + i - 1]
      BY <1>1, PartType
    <2>. HIDE DEF part
    <2>. QED BY <1>1, <2>1
  <1>. HIDE DEF part
  <1>3. /\ text \in Seq(Msgs) /\ Len(text) = n + MsgLen
        /\ \A i \in 1 .. n + MsgLen : text[i] = IF i <= n THEN part[i] ELSE msg[i - n]
    BY <1>2, ConcatProperties
  <1>4. junk \in Seq(Msgs) /\ Len(junk) = size
    BY JunkRun
  <1>. HIDE DEF text, junk
  <1>5. \A i \in 1 .. size : b[i] = IF 0 < i /\ i <= 0 + Len(text) THEN text[i - 0] ELSE junk[i]
    <2>1. 0 \in Nat
      OBVIOUS
    <2>2. \A i \in 1 .. Len(junk) :
            b[i] = IF 0 < i /\ i <= 0 + Len(text) THEN text[i - 0] ELSE junk[i]
      BY <1>3, <1>4, <2>1, WrittenFacts, Zenon
    <2>. QED BY <1>4, <2>2
  <1>. HIDE DEF b
  <1>6. ASSUME NEW i \in 1 .. n + MsgLen PROVE b[i] = text[i]
    <2>1. i \in 1 .. size /\ 0 < i /\ i <= 0 + Len(text) /\ i - 0 = i
      BY <1>1, <1>3
    <2>. QED BY <1>5, <2>1
  <1>7. ASSUME NEW i \in 1 .. n PROVE b[i] = <<c, from + i>>
    <2>1. i \in 1 .. n + MsgLen /\ i <= n
      BY <1>1
    <2>. QED BY <1>2, <1>3, <1>6, <2>1 DEF Text
  <1>8. ASSUME NEW i \in 1 .. MsgLen PROVE b[n + i] = <<c, total + i>>
    <2>1. n + i \in 1 .. n + MsgLen /\ ~(n + i <= n) /\ n + i - n = i
      BY <1>1
    <2>2. b[n + i] = msg[i]
      BY <1>3, <1>6, <2>1
    <2>. QED BY <2>2 DEF Numbered
  <1>. QED BY <1>7, <1>8 DEF Text, Behind, b, junk, text, part

\* A terminator behind the first n characters leaves them alone.
LEMMA CutText ==
  ASSUME NEW c \in Conns, NEW block \in Seq(Msgs), NEW n \in Nat, n < Len(block),
         NEW from \in Nat, Text(block, c, from, n)
  PROVE  Text(Written(block, n, <<Junk(c)>>), c, from, n)
  <1>. DEFINE b == Written(block, n, <<Junk(c)>>)
  <1>1. <<Junk(c)>> \in Seq(Msgs) /\ Len(block) \in Nat
    BY JunkFacts, LenProperties
  <1>2. \A i \in 1 .. Len(block) :
          b[i] = IF n < i /\ i <= n + Len(<<Junk(c)>>) THEN <<Junk(c)>>[i - n] ELSE block[i]
    BY <1>1, WrittenFacts
  <1>. HIDE DEF b
  <1>3. ASSUME NEW i \in 1 .. n PROVE b[i] = <<c, from + i>>
    <2>1. i \in 1 .. Len(block) /\ ~(n < i)
      BY <1>1
    <2>. QED BY <1>2, <2>1 DEF Text
  <1>. QED BY <1>3 DEF Text, b

\* The message behind the first n characters joins them.
LEMMA JoinedText ==
  ASSUME NEW c, NEW block \in Seq(Msgs), NEW n \in Nat, NEW from \in Nat,
         Text(block, c, from, n), Behind(block, c, n, from + n)
  PROVE  Text(block, c, from, n + MsgLen)
  <1>1. MsgLen \in Nat
    BY ClientAssumption
  <1>2. ASSUME NEW i \in 1 .. n + MsgLen PROVE block[i] = <<c, from + i>>
    <2>1. CASE i <= n
      <3>1. i \in 1 .. n
        BY <2>1
      <3>. QED BY <3>1 DEF Text
    <2>2. CASE ~(i <= n)
      <3>1. i - n \in 1 .. MsgLen /\ n + (i - n) = i /\ from + n + (i - n) = from + i
        BY <1>1, <2>2
      <3>2. block[n + (i - n)] = <<c, from + n + (i - n)>>
        BY <3>1 DEF Behind
      <3>. QED BY <3>1, <3>2
    <2>. QED BY <2>1, <2>2
  <1>. QED BY <1>2 DEF Text

\* What follows the first k characters moves to the front.
LEMMA MovedText ==
  ASSUME NEW c, NEW block \in Seq(Msgs), NEW n \in Nat, NEW k \in 0 .. n, n <= Len(block),
         NEW from \in Nat, Text(block, c, from, n)
  PROVE  Text(Written(block, 0, SubSeq(block, k + 1, n)), c, from + k, n - k)
  <1>. DEFINE rest == SubSeq(block, k + 1, n)
              b == Written(block, 0, rest)
  <1>1. Len(block) \in Nat /\ k + 1 \in Nat \ {0} /\ n - (k + 1) + 1 = n - k /\ n - k \in Nat
    BY LenProperties
  <1>2. /\ rest \in Seq(Msgs) /\ Len(rest) = n - k
        /\ \A i \in 1 .. n - k : rest[i] = block[k + 1 + i - 1]
    <2>1. /\ rest \in Seq(Msgs) /\ Len(rest) = IF k + 1 <= n THEN n - (k + 1) + 1 ELSE 0
          /\ \A i \in 1 .. n - (k + 1) + 1 : rest[i] = block[k + 1 + i - 1]
      BY <1>1, PartType
    <2>. HIDE DEF rest
    <2>. QED BY <1>1, <2>1
  <1>. HIDE DEF rest
  <1>3. \A i \in 1 .. Len(block) :
          b[i] = IF 0 < i /\ i <= 0 + Len(rest) THEN rest[i - 0] ELSE block[i]
    BY <1>2, WrittenFacts
  <1>. HIDE DEF b
  <1>4. ASSUME NEW i \in 1 .. n - k PROVE b[i] = <<c, from + k + i>>
    <2>1. /\ i \in 1 .. Len(block) /\ 0 < i /\ i <= 0 + Len(rest) /\ i - 0 = i
          /\ k + 1 + i - 1 = k + i /\ k + i \in 1 .. n /\ from + (k + i) = from + k + i
      BY <1>1, <1>2
    <2>2. b[i] = block[k + i]
      BY <1>2, <1>3, <2>1
    <2>3. block[k + i] = <<c, from + (k + i)>>
      BY <2>1 DEF Text
    <2>. QED BY <2>1, <2>2, <2>3
  <1>. QED BY <1>4 DEF Text, b, rest

\* The first characters, handed to send.
LEMMA GivenText ==
  ASSUME NEW c, NEW block \in Seq(Msgs), NEW n \in Nat, NEW k \in 0 .. n, n <= Len(block),
         NEW from \in Nat, Text(block, c, from, n)
  PROVE  /\ SubSeq(block, 1, k) \in Seq(Msgs) /\ Len(SubSeq(block, 1, k)) = k
         /\ Numbered(SubSeq(block, 1, k), c, from)
  <1>. DEFINE part == SubSeq(block, 1, k)
  <1>1. /\ Len(block) \in Nat /\ 1 \in Nat \ {0} /\ k \in Nat /\ k <= Len(block)
        /\ k - 1 + 1 = k
    BY LenProperties
  <1>2. part \in Seq(Msgs) /\ Len(part) = k /\ \A i \in 1 .. k : part[i] = block[i]
    <2>1. /\ part \in Seq(Msgs) /\ Len(part) = IF 1 <= k THEN k - 1 + 1 ELSE 0
          /\ \A i \in 1 .. k - 1 + 1 : part[i] = block[1 + i - 1]
      BY <1>1, PartType
    <2>. HIDE DEF part
    <2>. QED BY <1>1, <2>1
  <1>. HIDE DEF part
  <1>3. \A i \in 1 .. k : i \in 1 .. n
    BY <1>1
  <1>. QED BY <1>2, <1>3 DEF Numbered, Text, part

\* The numbers of a client in one place.
LEMMA Numbers ==
  ASSUME ClientTypeOK, UdtTypeOK, NEW c \in Conns
  PROVE  /\ chars[c] \in Seq(Msgs) /\ Len(chars[c]) \in Nat
         /\ length[c] \in Nat /\ append_at[c] \in Nat /\ send_size[c] \in Nat
         /\ send_len[c] \in Nat /\ made[c] \in Nat /\ Sent(c) \in Nat /\ Total(c) \in Nat
         /\ Held(c) \in Nat
         /\ Msg(c, made[c] + 1) \in Seq(Msgs) /\ Len(Msg(c, made[c] + 1)) = MsgLen
         /\ Numbered(Msg(c, made[c] + 1), c, Total(c))
  <1>1. made[c] \in Nat /\ made[c] + 1 \in Nat \ {0} /\ send_len[c] \in Nat
    BY ClientAssumption DEF ClientTypeOK
  <1>2. /\ Msg(c, made[c] + 1) \in Seq(Msgs) /\ Len(Msg(c, made[c] + 1)) = MsgLen
        /\ Numbered(Msg(c, made[c] + 1), c, (made[c] + 1 - 1) * MsgLen)
    BY <1>1, MsgFacts
  <1>3. (made[c] + 1 - 1) * MsgLen = Total(c) /\ Total(c) \in Nat
    BY <1>1, ClientAssumption DEF Total
  <1>4. accepted[ClientSock(c)] \in Seq(Msgs) /\ Sent(c) \in Nat
    BY ConnTypes, SocketNames, LenProperties DEF Sent
  <1>. QED BY <1>1, <1>2, <1>3, <1>4, LenProperties DEF ClientTypeOK, Held

\* main() appends behind the characters, and the I/O thread finds them where they were.
LEMMA MainContent ==
  ASSUME ClientTypeOK, UdtTypeOK, NEW c \in Conns, Sizes(c), Content(c), Main(c), clash'[c] = 0
  PROVE  Content(c)'
  <1>. USE DEF MainGoes, Appending, Erasing
  <1>. DEFINE block == chars[c]
              n == length[c]
              msg == Msg(c, made[c] + 1)
              total == Total(c)
              from == Sent(c) - Held(c)
  <1>0. /\ block \in Seq(Msgs) /\ Len(block) \in Nat /\ n \in Nat /\ append_at[c] \in Nat
        /\ made[c] \in Nat /\ Sent(c) \in Nat /\ total \in Nat /\ Held(c) \in Nat
        /\ msg \in Seq(Msgs) /\ Len(msg) = MsgLen /\ Numbered(msg, c, total)
        /\ MsgLen \in Nat \ {0}
    BY Numbers, ClientAssumption
  <1>1. CASE StartFails(c) \/ Measure(c)
    BY <1>1 DEF StartFails, Measure, ClientTypeOK, Content, Total, Held, Sent, ioVars, sendVars,
                textVars, histories, udtVars
  <1>2. CASE StartConnects(c)
    BY <1>2 DEF StartConnects, ConnectOk, ClientTypeOK, Content, Total, Held, Sent, ioVars,
                sendVars, textVars, histories, flowVars
  <1>3. CASE StartSpawns(c)
    <2>1. io[c] = "none" /\ io'[c] = "boot" /\ main'[c] = "push" /\ main[c] = "settle"
      BY <1>3 DEF StartSpawns, ClientTypeOK, Sizes
    <2>2. UNCHANGED <<freed, torn, chars, length, append_at, send_size, send_len, made, accepted>>
      BY <1>3 DEF StartSpawns, sendVars, textVars, histories, udtVars
    <2>. QED BY <2>1, <2>2 DEF Content, Total, Held, Sent
  <1>4. CASE AppendReads(c)
    <2>1. /\ main[c] = "push" /\ main'[c] = "copy" /\ append_at'[c] = length[c]
          /\ ~Erasing(c)
          /\ UNCHANGED <<io, freed, torn, chars, length, send_size, send_len, made, accepted>>
      BY <1>4 DEF AppendReads, ClientTypeOK, ioVars, sendVars, udtVars
    <2>. QED BY <2>1 DEF Content, Total, Held, Sent
  <1>5. ASSUME main[c] = "copy"
        PROVE  /\ append_at[c] = n /\ io[c] \notin {"move", "cut"} /\ freed[c] = 0 /\ torn[c] = 0
               /\ Held(c) <= Sent(c) /\ Sent(c) + n = total + Held(c) /\ from \in Nat
               /\ Text(block, c, from, n)
    <2>1. /\ append_at[c] = n /\ io[c] \notin {"move", "cut"} /\ freed[c] = 0 /\ torn[c] = 0
          /\ Held(c) <= Sent(c) /\ Sent(c) + n = total + Held(c)
          /\ Text(block, c, from, n)
      BY <1>5 DEF Content
    <2>. QED BY <1>0, <2>1
  <1>6. ASSUME main[c] = "copy", main'[c] = "store", freed'[c] = 0, torn'[c] = 0,
               UNCHANGED <<io, length, append_at, send_size, send_len, made, accepted>>,
               Text(chars'[c], c, from, n), Behind(chars'[c], c, n, total)
        PROVE  Content(c)'
    <2>1. Held(c)' = Held(c) /\ Sent(c)' = Sent(c) /\ Total(c)' = Total(c)
      BY <1>6 DEF Held, Sent, Total
    <2>. QED BY <1>5, <1>6, <2>1 DEF Content
  <1>. HIDE DEF block, n, msg, total, from
  <1>7. CASE AppendCopies(c)
    <2>1. /\ main[c] = "copy" /\ main'[c] = "store"
          /\ UNCHANGED <<io, freed, torn, length, append_at, send_size, send_len, made,
                         accepted>>
      BY <1>7 DEF AppendCopies, ClientTypeOK, ioVars, sendVars, histories, udtVars
    <2>2. /\ append_at[c] = n /\ freed'[c] = 0 /\ torn'[c] = 0
          /\ from \in Nat /\ Text(block, c, from, n)
      BY <1>5, <2>1
    <2>3. chars'[c] = Written(block, n, msg)
      BY <1>7, <2>2 DEF AppendCopies, ClientTypeOK, block, n, msg
    <2>4. n + MsgLen < Len(block)
      BY <1>7, <2>2 DEF AppendCopies, block
    <2>5. /\ Text(Written(block, n, msg), c, from, n)
          /\ Behind(Written(block, n, msg), c, n, total)
      BY <1>0, <2>2, <2>4, CopiedText
    <2>. QED BY <1>6, <2>1, <2>2, <2>3, <2>5
  <1>8. CASE AppendGrows(c)
    <2>1. /\ main[c] = "copy" /\ main'[c] = "store" /\ freed'[c] = freed[c]
          /\ torn'[c] = IF length[c] < append_at[c] THEN 1 ELSE torn[c]
          /\ UNCHANGED <<io, length, append_at, send_size, send_len, made, accepted>>
      BY <1>8 DEF AppendGrows, ClientTypeOK, ioVars, udtVars
    <2>2. /\ append_at[c] = n /\ freed'[c] = 0 /\ from \in Nat /\ Text(block, c, from, n)
          /\ torn[c] = 0
      BY <1>5, <2>1
    <2>3. torn'[c] = 0 /\ n < Len(block)
      <3>1. n < Len(block)
        BY <1>8, <2>2 DEF AppendGrows, Sizes, Fits, block, n
      <3>. QED BY <1>0, <2>1, <2>2, <3>1 DEF n
    <2>. DEFINE text == SubSeq(block, 1, n) \o msg
                size == Room(Len(text), Len(block) - 1) + 1
    <2>4. Chars(c, 1, length[c]) = SubSeq(block, 1, n)
      <3>1. 1 \in Nat \ {0} /\ 1 <= n + 1 /\ n <= Len(block)
        BY <1>0, <2>3
      <3>. QED BY <1>0, <3>1, CharsInBlock DEF block, n
    <2>5. chars'[c] = Written([i \in 1 .. size |-> Junk(c)], 0, SubSeq(block, 1, n) \o msg)
      BY <1>8, <2>4 DEF AppendGrows, ClientTypeOK, block, msg
    <2>6. Len(text) = n + MsgLen
      <3>1. n \in 0 .. n /\ n <= Len(block)
        BY <1>0, <2>3
      <3>2. SubSeq(block, 1, n) \in Seq(Msgs) /\ Len(SubSeq(block, 1, n)) = n
        BY <1>0, <2>2, <3>1, GivenText
      <3>3. Len(text) = Len(SubSeq(block, 1, n)) + Len(msg)
        BY <1>0, <3>2, ConcatProperties
      <3>. QED BY <1>0, <3>2, <3>3
    <2>. HIDE DEF text
    <2>7. size \in Nat /\ n + MsgLen < size /\ n <= Len(block)
      <3>1. n + MsgLen \in Nat /\ Len(block) - 1 \in Nat
        BY <1>0, <2>3
      <3>2. /\ Room(n + MsgLen, Len(block) - 1) \in Nat
            /\ Room(n + MsgLen, Len(block) - 1) >= n + MsgLen
        BY <3>1, RoomIsEnough
      <3>. QED BY <1>0, <2>3, <2>6, <3>1, <3>2
    <2>. HIDE DEF size
    <2>8. /\ Text(chars'[c], c, from, n) /\ Behind(chars'[c], c, n, total)
      BY <1>0, <2>2, <2>5, <2>7, GrownText
    <2>. QED BY <1>6, <2>1, <2>2, <2>3, <2>8
  <1>9. ~AppendCrashes(c)
    <2>1. ASSUME AppendCrashes(c) PROVE FALSE
      <3>1. main[c] = "copy" /\ length[c] < append_at[c]
        BY <2>1 DEF AppendCrashes
      <3>2. append_at[c] = length[c]
        BY <1>5, <3>1 DEF n
      <3>. QED BY <1>0, <3>1, <3>2 DEF n
    <2>. QED BY <2>1
  <1>10. CASE AppendStores(c)
    <2>. DEFINE m == n + MsgLen
    <2>1. /\ main[c] = "store" /\ main'[c] = "measure" /\ made'[c] = made[c] + 1
          /\ UNCHANGED <<io, freed, torn, send_size, send_len, accepted>>
      BY <1>10 DEF AppendStores, ClientTypeOK, ioVars, sendVars, udtVars
    <2>2. /\ append_at[c] = n /\ io[c] \notin {"move", "cut"} /\ freed[c] = 0 /\ torn[c] = 0
          /\ Held(c) <= Sent(c) /\ Sent(c) + n = total + Held(c)
          /\ Text(block, c, from, n) /\ Behind(block, c, n, total)
      BY <2>1 DEF Content, block, n, total, from
    <2>3. chars'[c] = Written(block, m, <<Junk(c)>>) /\ length'[c] = m
      BY <1>10, <2>2 DEF AppendStores, SetLength, ClientTypeOK, block
    <2>4. m \in Nat /\ m < Len(block)
      <3>1. append_at[c] + MsgLen < Len(block)
        BY <2>1 DEF Content, Sizes, Fits, block
      <3>. QED BY <1>0, <2>2, <3>1
    <2>5. from \in Nat /\ from + n = total
      <3>. DEFINE h == Held(c)
                  s == Sent(c)
      <3>1. h \in Nat /\ s \in Nat /\ n \in Nat /\ total \in Nat /\ from = s - h
            /\ h <= s /\ s + n = total + h
        BY <1>0, <2>2 DEF from
      <3>. HIDE DEF h, s
      <3>. QED BY <3>1
    <2>6. Text(block, c, from, m)
      BY <1>0, <2>2, <2>5, JoinedText
    <2>. HIDE DEF m
    <2>7. Text(chars'[c], c, from, m)
      BY <1>0, <2>3, <2>4, <2>5, <2>6, CutText
    <2>8. Total(c)' = total + MsgLen
      BY <1>0, <2>1 DEF Total, total
    <2>9. Held(c)' = Held(c) /\ Sent(c)' = Sent(c)
      BY <2>1 DEF Held, Sent
    <2>10. Sent(c) + m = total + MsgLen + Held(c)
      <3>1. Sent(c) + n = total + Held(c) /\ m = n + MsgLen
        BY <2>2 DEF m
      <3>2. n \in Nat /\ Sent(c) \in Nat /\ total \in Nat /\ Held(c) \in Nat /\ MsgLen \in Nat
        BY <1>0
      <3>. QED BY <3>1, <3>2
    <2>. QED BY <2>1, <2>2, <2>3, <2>7, <2>8, <2>9, <2>10 DEF Content, from
  <1>. QED BY <1>1, <1>2, <1>3, <1>4, <1>7, <1>8, <1>9, <1>10 DEF Main

\* What the way forth is made of.
Forth(c) ==
  <<taken[ServerSock(c)], rcvBuf[ServerSock(c)], sndBuf[ClientSock(c)],
    accepted[ClientSock(c)]>>

\* The I/O thread hands UDT the bytes in order and erases what was taken.
LEMMA RunContent ==
  ASSUME ClientTypeOK, UdtTypeOK, NEW c \in Conns, Sizes(c), Content(c), ForthInOrder(c),
         Run(c), clash'[c] = 0
  PROVE  Content(c)' /\ ForthInOrder(c)'
  <1>. USE DEF IoGoes, Appending, Erasing
  <1>. DEFINE block == chars[c]
              n == length[c]
              k == send_len[c]
              sent == Sent(c)
              total == Total(c)
              held == Held(c)
  <1>0. /\ block \in Seq(Msgs) /\ Len(block) \in Nat /\ n \in Nat /\ k \in Nat
        /\ send_size[c] \in Nat /\ sent \in Nat /\ total \in Nat /\ held \in Nat
        /\ n < Len(block)
    BY Numbers DEF Content, Sizes, Fits
  <1>1. ASSUME UNCHANGED Forth(c) PROVE ForthInOrder(c)' /\ Sent(c)' = sent
    BY <1>1 DEF Forth, ForthInOrder, Sent
  <1>2. ASSUME io[c] \notin {"erase", "move", "cut"}, io'[c] \notin {"erase", "move", "cut"},
               freed'[c] = 0, torn'[c] = 0, UNCHANGED Forth(c),
               UNCHANGED <<main[c], chars[c], length[c], append_at[c], made[c]>>
        PROVE  Content(c)' /\ ForthInOrder(c)'
    BY <1>1, <1>2 DEF Content, Held, Total
  <1>3. freed[c] = 0 /\ torn[c] = 0
    BY DEF Content
  <1>4. CASE RunBoots(c) \/ LoopTests(c) \/ SendSkips(c)
    BY <1>2, <1>3, <1>4 DEF RunBoots, LoopTests, SendSkips, ClientTypeOK, sendVars, textVars,
                            histories, udtVars, Forth
  <1>5. CASE RunCloses(c)
    BY <1>2, <1>3, <1>5 DEF RunCloses, CloseSock, ClientTypeOK, sendVars, textVars, histories,
                            flowVars, Forth
  <1>6. CASE SendPoints(c) \/ SendCounts(c)
    BY <1>2, <1>3, <1>6 DEF SendPoints, SendCounts, ClientTypeOK, sendVars, textVars, histories,
                            udtVars, Forth
  <1>7. CASE SendTakesNone(c) \/ SendFails(c)
    BY <1>2, <1>3, <1>7 DEF SendTakesNone, SendFails, SendReturns, SendmsgFull, SendmsgError,
                      ClientTypeOK, textVars, histories, udtVars, Forth
  <1>8. CASE RecvSome(c)
    <2>1. PICK j \in 1 .. RcvCap : RecvReturns(ClientSock(c), j)
      BY <1>8 DEF RecvSome
    <2>2. UNCHANGED Forth(c)
      BY <2>1, SocketNames, OtherSockets DEF RecvReturns, UdtTypeOK, Forth
    <2>3. /\ io[c] = "recv" /\ io'[c] \in {"send", "top"}
          /\ UNCHANGED <<main, freed, torn, chars, length, append_at, made>>
      BY <1>8 DEF RecvSome, NextHalf, ClientTypeOK, sendVars, textVars
    <2>. QED BY <1>2, <1>3, <2>2, <2>3
  <1>9. CASE RecvNothing(c) \/ RecvFails(c)
    BY <1>2, <1>3, <1>9 DEF RecvNothing, RecvFails, NextHalf, RecvmsgNothing, RecvmsgNoConn,
                            RecvmsgLost, ClientTypeOK, sendVars, textVars, histories, udtVars,
                            Forth
  <1>10. CASE SendTakesSome(c)
    <2>1. PICK text \in {Chars(c, 1, send_size[c]), [i \in 1 .. send_size[c] |-> Junk(c)]},
               j \in 1 .. SndCap :
            /\ freed[c] = 0 => text = Chars(c, 1, send_size[c])
            /\ SendTakes(ClientSock(c), text, j) /\ SendReturns(c, j)
      BY <1>10 DEF SendTakesSome
    <2>2. io[c] = "give" /\ io'[c] = "erase"
      BY <1>10 DEF SendTakesSome, ClientTypeOK
    <2>3. send_size[c] \in 0 .. n
      BY <1>0, <2>2 DEF Sizes
    <2>4. held = 0 /\ Text(block, c, sent, n) /\ sent + n = total
      <3>1. held = 0
        BY <2>2 DEF Held
      <3>2. Text(block, c, sent - held, n) /\ sent + n = total + held
        BY <2>2 DEF Content
      <3>3. sent - 0 = sent /\ total + 0 = total
        BY <1>0
      <3>. QED BY <3>1, <3>2, <3>3
    <2>5. text = SubSeq(block, 1, send_size[c])
      <3>1. 1 \in Nat \ {0} /\ send_size[c] \in Nat /\ 1 <= send_size[c] + 1
            /\ send_size[c] <= Len(block)
        BY <1>0, <2>3
      <3>. QED BY <1>3, <2>1, <3>1, CharsInBlock
    <2>6. text \in Seq(Msgs) /\ Numbered(text, c, sent)
      <3>. HIDE DEF block, n, sent
      <3>1. n <= Len(block)
        BY <1>0
      <3>. QED BY <1>0, <2>3, <2>4, <2>5, <3>1, GivenText
    <2>7. j \in Nat
      BY <2>1 DEF SendTakes
    <2>8. ForthInOrder(c)' /\ Sent(c)' = sent + j
      BY <2>1, <2>6, <2>7, SendForth DEF Sent
    <2>9. /\ Held(c)' = j /\ freed'[c] = 0 /\ torn'[c] = 0
          /\ UNCHANGED <<main[c], chars[c], length[c], append_at[c], made[c]>>
      BY <1>3, <2>1, <2>2 DEF SendReturns, ClientTypeOK, textVars, histories, Held
    <2>10. Total(c)' = total
      BY <2>9 DEF Total
    <2>11. /\ main[c] \in {"copy", "store"} => append_at[c] = n
           /\ main[c] = "store" => Behind(block, c, n, total)
      BY DEF Content
    <2>. HIDE DEF sent, total, held
    <2>12. j <= sent + j /\ sent + j + n = total + j /\ (sent + j) - j = sent
      <3>1. sent \in Nat /\ n \in Nat /\ total \in Nat /\ sent + n = total
        BY <1>0, <2>4
      <3>. HIDE DEF n
      <3>. QED BY <2>7, <3>1
    <2>13. Content(c)'
      BY <2>2, <2>4, <2>8, <2>9, <2>10, <2>11, <2>12 DEF Content
    <2>. QED BY <2>8, <2>13
  <1>11. CASE EraseReads(c)
    <2>1. /\ io[c] = "erase" /\ io'[c] = "move" /\ send_size'[c] = length[c]
          /\ main[c] \notin {"copy", "store"}
          /\ UNCHANGED <<main, freed, torn, chars, length, append_at, send_len, made, accepted>>
          /\ UNCHANGED Forth(c)
      BY <1>11 DEF EraseReads, ClientTypeOK, textVars, udtVars, Forth
    <2>2. Held(c)' = held /\ Total(c)' = total
      BY <2>1 DEF Held, Total
    <2>. QED BY <1>1, <2>1, <2>2 DEF Content
  <1>12. ASSUME io[c] \in {"move", "cut"}
         PROVE  /\ main[c] \notin {"copy", "store"} /\ send_size[c] = n /\ held = k
                /\ k \in 0 .. n /\ k <= sent /\ sent + n = total + k
                /\ io[c] = "cut" => Text(block, c, sent, n - k)
                /\ io[c] = "move" => Text(block, c, sent - k, n)
    <2>1. /\ main[c] \notin {"copy", "store"} /\ send_size[c] = n /\ held = k
          /\ held <= sent /\ sent + n = total + held
          /\ io[c] = "cut" => Text(block, c, sent, n - k)
          /\ io[c] = "move" => Text(block, c, sent - held, n)
      BY <1>12 DEF Content, Held
    <2>2. k <= send_size[c]
      BY <1>12 DEF Sizes
    <2>3. k \in 0 .. n
      BY <1>0, <2>1, <2>2
    <2>. QED BY <2>1, <2>3
  <1>. HIDE DEF block, n, k, sent, total, held
  <1>13. CASE EraseMoves(c)
    <2>1. /\ io[c] = "move" /\ io'[c] = "cut"
          /\ UNCHANGED <<main, freed, torn, length, append_at, send_len, made, accepted>>
          /\ UNCHANGED Forth(c)
      BY <1>13 DEF EraseMoves, ClientTypeOK, histories, udtVars, Forth
    <2>2. /\ main[c] \notin {"copy", "store"} /\ send_size[c] = n /\ held = k
          /\ k \in 0 .. n /\ k <= sent /\ sent + n = total + k
          /\ Text(block, c, sent - k, n)
      BY <1>12, <2>1
    <2>3. chars'[c] = Written(block, 0, SubSeq(block, k + 1, n)) /\ send_size'[c] = n
      <3>1. k + 1 \in Nat \ {0} /\ n \in Nat /\ k + 1 <= n + 1 /\ n <= Len(block)
        BY <1>0, <2>2
      <3>2. Chars(c, k + 1, n) = SubSeq(block, k + 1, n)
        BY <3>1, CharsInBlock DEF block
      <3>. QED BY <1>13, <2>2, <3>2 DEF EraseMoves, ClientTypeOK, block, n, k
    <2>4. sent - k \in Nat /\ sent - k + k = sent /\ n <= Len(block)
      BY <1>0, <2>2
    <2>5. Text(chars'[c], c, sent, n - k)
      <3>1. Text(Written(block, 0, SubSeq(block, k + 1, n)), c, sent - k + k, n - k)
        BY <1>0, <2>2, <2>4, MovedText
      <3>. QED BY <2>3, <2>4, <3>1
    <2>6. /\ Held(c)' = held /\ Total(c)' = total /\ length'[c] = n /\ send_len'[c] = k
          /\ main'[c] = main[c] /\ freed'[c] = 0 /\ torn'[c] = 0
      BY <1>3, <2>1 DEF Held, Total, held, total, n, k
    <2>. QED BY <1>1, <2>1, <2>2, <2>3, <2>5, <2>6 DEF Content
  <1>14. CASE EraseStores(c)
    <2>1. /\ io[c] = "cut" /\ io'[c] = "recv"
          /\ UNCHANGED <<main, freed, torn, append_at, made, accepted>>
          /\ UNCHANGED Forth(c)
      BY <1>14 DEF EraseStores, EraseTo, ClientTypeOK, histories, udtVars, Forth
    <2>2. /\ main[c] \notin {"copy", "store"} /\ send_size[c] = n /\ held = k
          /\ k \in 0 .. n /\ k <= sent /\ sent + n = total + k
          /\ Text(block, c, sent, n - k)
      BY <1>12, <2>1
    <2>3. chars'[c] = Written(block, n - k, <<Junk(c)>>) /\ length'[c] = n - k
      BY <1>14, <2>2 DEF EraseStores, EraseTo, SetLength, ClientTypeOK, block, k
    <2>. DEFINE m == n - k
    <2>4. m \in Nat /\ m < Len(block) /\ sent + m = total /\ sent - 0 = sent /\ total + 0 = total
          /\ 0 <= sent
      BY <1>0, <2>2
    <2>5. Text(block, c, sent, m) /\ chars'[c] = Written(block, m, <<Junk(c)>>)
          /\ length'[c] = m
      BY <2>2, <2>3
    <2>. HIDE DEF m
    <2>6. Text(chars'[c], c, sent, m)
      BY <1>0, <2>4, <2>5, CutText
    <2>7. Held(c)' = 0 /\ Total(c)' = total /\ main'[c] = main[c]
          /\ freed'[c] = 0 /\ torn'[c] = 0
      BY <1>3, <2>1 DEF Held, Total, total
    <2>. QED BY <1>1, <2>1, <2>2, <2>4, <2>5, <2>6, <2>7 DEF Content
  <1>. QED BY <1>4, <1>5, <1>6, <1>7, <1>8, <1>9, <1>10, <1>11, <1>13, <1>14 DEF Run

-----------------------------------------------------------------------------
(* The way forth, for the whole benchmark.                                 *)

GoodForth(c) == clash[c] = 0 => ForthInOrder(c) /\ OwesInOrder(c) /\ Content(c)

ForthInvariant == SizesInvariant /\ \A c \in Conns : GoodForth(c)

\* A clash is not forgotten.
LEMMA ClashStays ==
  ASSUME ClientTypeOK, NEW c \in Conns, ClientStep(c), clash'[c] = 0
  PROVE  clash[c] = 0
  <1>1. CASE Main(c)
    BY <1>1 DEF Main, StartFails, StartConnects, StartSpawns, AppendReads, AppendCopies,
                AppendGrows, AppendCrashes, AppendStores, Measure, ClientTypeOK, histories
  <1>2. CASE Run(c)
    <2>1. CASE SendTakesSome(c)
      BY <2>1 DEF SendTakesSome, SendReturns, histories
    <2>2. CASE RecvSome(c)
      BY <2>2 DEF RecvSome
    <2>3. CASE EraseReads(c)
      BY <2>3 DEF EraseReads, ClientTypeOK
    <2>4. CASE \/ RunBoots(c) \/ LoopTests(c) \/ RunCloses(c) \/ SendSkips(c)
               \/ SendPoints(c) \/ SendCounts(c)
               \/ SendTakesNone(c) \/ SendFails(c) \/ EraseMoves(c) \/ EraseStores(c)
               \/ RecvNothing(c) \/ RecvFails(c)
      BY <2>4 DEF RunBoots, LoopTests, RunCloses, SendSkips, SendPoints, SendCounts,
                  SendTakesNone, SendFails,
                  SendReturns, EraseMoves, EraseStores, EraseTo, RecvNothing, RecvFails, histories
    <2>. QED BY <1>2, <2>1, <2>2, <2>3, <2>4 DEF Run
  <1>. QED BY <1>1, <1>2 DEF ClientStep

\* A client's step touches the server's side of its connection only through the library.
LEMMA ClientKeepsServerSide ==
  ASSUME ClientTypeOK, UdtTypeOK, NEW c \in Conns, ClientStep(c)
  PROVE  /\ UNCHANGED <<taken[ServerSock(c)], rcvBuf[ServerSock(c)], accepted[ServerSock(c)],
                        sndBuf[ServerSock(c)]>>
         /\ Main(c) => UNCHANGED Ends(c)
  <1>0. /\ ClientSock(c) \in Socks /\ ServerSock(c) \in Socks
        /\ ClientSock(c) # ServerSock(c)
    BY SocketNames, OtherSockets
  <1>1. ASSUME UNCHANGED flowVars PROVE UNCHANGED Ends(c)
    BY <1>1 DEF flowVars, Ends
  <1>2. CASE Main(c)
    <2>1. UNCHANGED flowVars
      BY <1>2 DEF Main, StartFails, StartConnects, StartSpawns, AppendReads, AppendCopies,
                  AppendGrows, AppendCrashes, AppendStores, Measure, ConnectOk, CloseSock, udtVars,
                  flowVars
    <2>. QED BY <1>1, <2>1 DEF Ends
  <1>3. CASE Run(c) /\ ~Main(c)
    <2>1. CASE SendTakesSome(c)
      <3>1. PICK text \in {Chars(c, 1, send_size[c]),
                           [i \in 1 .. send_size[c] |-> Junk(c)]}, k \in 1 .. SndCap :
              SendTakes(ClientSock(c), text, k)
        BY <2>1 DEF SendTakesSome
      <3>. QED BY <1>0, <1>3, <3>1 DEF SendTakes, UdtTypeOK
    <2>2. CASE RecvSome(c)
      <3>1. PICK k \in 1 .. RcvCap : RecvReturns(ClientSock(c), k)
        BY <2>2 DEF RecvSome
      <3>. QED BY <1>0, <1>3, <3>1 DEF RecvReturns, UdtTypeOK
    <2>3. CASE \/ RunBoots(c) \/ LoopTests(c) \/ RunCloses(c) \/ SendSkips(c)
               \/ SendPoints(c) \/ SendCounts(c)
               \/ SendTakesNone(c) \/ SendFails(c) \/ EraseReads(c) \/ EraseMoves(c)
               \/ EraseStores(c) \/ RecvNothing(c) \/ RecvFails(c)
      <3>1. UNCHANGED flowVars
        BY <2>3 DEF RunBoots, LoopTests, RunCloses, SendSkips, SendPoints, SendCounts,
                    SendTakesNone, SendFails,
                    EraseReads, EraseMoves, EraseStores, EraseTo, RecvNothing, RecvFails,
                    SendmsgFull, SendmsgError, RecvmsgNothing, RecvmsgNoConn, RecvmsgLost,
                    CloseSock, udtVars, flowVars
      <3>. QED BY <1>3, <3>1 DEF flowVars
    <2>. QED BY <1>3, <2>1, <2>2, <2>3 DEF Run
  <1>. QED BY <1>2, <1>3 DEF ClientStep, Ends

\* The server takes nothing on for the client.
LEMMA ServerKeepsSent ==
  ASSUME UdtTypeOK, ServerTypeOK, NEW c \in Conns, ServerStep
  PROVE  accepted'[ClientSock(c)] = accepted[ClientSock(c)]
  <1>1. CASE ServerRun
    <2>1. ASSUME NEW d \in Conns, Accept(d) PROVE UNCHANGED flowVars
      BY <2>1 DEF Accept
    <2>2. CASE CreateListenSocket \/ CloseServer \/ ProcessExit
      BY <2>2 DEF CreateListenSocket, CloseServer, ProcessExit, flowVars
    <2>3. CASE AcceptFails
      BY <2>3 DEF AcceptFails, udtVars
    <2>. QED BY <1>1, <2>1, <2>2, <2>3 DEF ServerRun, flowVars
  <1>2. ASSUME NEW d \in Conns, WorkThread(d)
        PROVE  accepted'[ClientSock(c)] = accepted[ClientSock(c)]
    <2>0. ClientSock(c) \in Socks /\ ServerSock(d) \in Socks /\ ClientSock(c) # ServerSock(d)
      BY SocketNames, OtherSockets
    <2>1. CASE WorkerRecv(d)
      BY <2>1 DEF WorkerRecv, RecvReturns
    <2>2. CASE WorkerSendAll(d)
      BY <2>0, <2>2 DEF WorkerSendAll, SendTakes, UdtTypeOK
    <2>3. CASE WorkerSendPart(d)
      BY <2>0, <2>3 DEF WorkerSendPart, SendTakes, UdtTypeOK
    <2>4. CASE WorkerSendNone(d)
      BY <2>4 DEF WorkerSendNone, udtVars
    <2>5. CASE WorkerRecvEnds(d)
      BY <2>5 DEF WorkerRecvEnds, RecvmsgNothing, RecvmsgLost, udtVars
    <2>. QED BY <1>2, <2>1, <2>2, <2>3, <2>4, <2>5 DEF WorkThread
  <1>. QED BY <1>1, <1>2 DEF ServerStep

\* The string is as it was if neither it nor what UDT took has changed.
LEMMA ContentKept ==
  ASSUME NEW c \in Conns, Content(c), UNCHANGED Own(c),
         accepted'[ClientSock(c)] = accepted[ClientSock(c)]
  PROVE  Content(c)'
  BY DEF Content, Own, Appending, Erasing, Held, Sent, Total

\* At first no byte is made.
LEMMA ForthInit == Init => ForthInvariant
  <1>. SUFFICES ASSUME Init PROVE ForthInvariant
    OBVIOUS
  <1>1. SizesInvariant
    BY SizesInit
  <1>2. ASSUME NEW c \in Conns PROVE ForthInOrder(c) /\ OwesInOrder(c) /\ Content(c)
    <2>1. /\ \A s \in Socks : /\ sndBuf[s] = <<>> /\ rcvBuf[s] = <<>>
                              /\ accepted[s] = <<>> /\ taken[s] = <<>>
          /\ msg_buf_need_send[c] = <<>>
          /\ main[c] = "start" /\ io[c] = "none" /\ length[c] = 0 /\ made[c] = 0
          /\ freed[c] = 0 /\ torn[c] = 0
      BY DEF Init, ServerInit, UdtInit, ClientInit
    <2>2. Len(<<>>) = 0 /\ \A n : Numbered(<<>>, c, n)
      BY DEF Numbered
    <2>3. Pipe(c, <<>>, <<>>, <<>>, <<>>) /\ Debt(c, <<>>, <<>>, <<>>)
      BY <2>2 DEF Pipe, Debt
    <2>4. ForthInOrder(c) /\ OwesInOrder(c)
      BY <2>1, <2>3, SocketNames DEF ForthInOrder, OwesInOrder
    <2>5. Sent(c) = 0 /\ Held(c) = 0 /\ Total(c) = 0
      BY <2>1, <2>2, SocketNames, ClientAssumption DEF Sent, Held, Total
    <2>. QED BY <2>1, <2>4, <2>5 DEF Content, Appending, Erasing, Text
  <1>. QED BY <1>1, <1>2 DEF ForthInvariant, GoodForth

\* Every step of the benchmark keeps what is on its way, and the string.
LEMMA ForthStep == ForthInvariant /\ [Next]_vars => ForthInvariant'
  <1>. SUFFICES ASSUME ForthInvariant, [Next]_vars PROVE ForthInvariant'
    OBVIOUS
  <1>0. /\ SizesInvariant /\ ClientTypeOK /\ ServerTypeOK /\ UdtTypeOK
        /\ \A c \in Conns : Sizes(c) /\ GoodForth(c)
    BY DEF ForthInvariant, SizesInvariant, TypeOK
  <1>1. SizesInvariant'
    BY <1>0, SizesStep
  <1>2. ASSUME NEW c \in Conns, UNCHANGED <<Own(c), Ends(c), msg_buf_need_send[c]>>
        PROVE  GoodForth(c)'
    BY <1>0, <1>2, ContentKept DEF GoodForth, Own, Ends, ForthInOrder, OwesInOrder
  <1>3. ASSUME NEW d \in Conns, ClientStep(d), UNCHANGED <<serverVars, repeated>>,
               NEW c \in Conns
        PROVE  GoodForth(c)'
    <2>1. CASE c # d
      <3>1. UNCHANGED <<Own(c), Ends(c)>>
        BY <1>0, <1>3, <2>1, OtherMain, OtherRun DEF ClientStep
      <3>. QED BY <1>2, <1>3, <3>1 DEF serverVars
    <2>2. ASSUME c = d, clash'[c] = 0
          PROVE  ForthInOrder(c)' /\ OwesInOrder(c)' /\ Content(c)'
      <3>1. ForthInOrder(c) /\ OwesInOrder(c) /\ Content(c)
        BY <1>0, <1>3, <2>2, ClashStays DEF GoodForth
      <3>2. OwesInOrder(c)'
        BY <1>0, <1>3, <2>2, <3>1, ClientKeepsServerSide DEF OwesInOrder, serverVars
      <3>3. CASE Main(c)
        <4>1. Content(c)'
          BY <1>0, <2>2, <3>1, <3>3, MainContent
        <4>2. ForthInOrder(c)'
          BY <1>0, <1>3, <2>2, <3>1, <3>3, ClientKeepsServerSide DEF ForthInOrder, Ends
        <4>. QED BY <3>2, <4>1, <4>2
      <3>4. CASE Run(c)
        BY <1>0, <2>2, <3>1, <3>2, <3>4, RunContent
      <3>. QED BY <1>3, <2>2, <3>3, <3>4 DEF ClientStep
    <2>. QED BY <2>1, <2>2 DEF GoodForth
  <1>4. ASSUME ServerStep, UNCHANGED clientVars, NEW c \in Conns PROVE GoodForth(c)'
    <2>1. UNCHANGED Own(c)
      BY <1>4 DEF clientVars, ioVars, sendVars, textVars, histories, Own
    <2>2. ASSUME clash[c] = 0 PROVE ForthInOrder(c)' /\ OwesInOrder(c)' /\ Content(c)'
      <3>1. ForthInOrder(c) /\ OwesInOrder(c) /\ Content(c)
        BY <1>0, <2>2 DEF GoodForth
      <3>2. ForthInOrder(c)' /\ OwesInOrder(c)'
        BY <1>0, <1>4, <3>1, ServerInOrder
      <3>3. Content(c)'
        BY <1>0, <1>4, <2>1, <3>1, ServerKeepsSent, ContentKept
      <3>. QED BY <3>2, <3>3
    <2>. QED BY <2>1, <2>2 DEF GoodForth, Own
  <1>5. ASSUME Network, UNCHANGED <<clientVars, serverVars>>, NEW c \in Conns
        PROVE  GoodForth(c)'
    <2>1. UNCHANGED Own(c)
      BY <1>5 DEF clientVars, ioVars, sendVars, textVars, histories, Own
    <2>2. ASSUME clash[c] = 0 PROVE ForthInOrder(c)' /\ OwesInOrder(c)' /\ Content(c)'
      <3>1. ForthInOrder(c) /\ OwesInOrder(c) /\ Content(c)
        BY <1>0, <2>2 DEF GoodForth
      <3>2. ForthInOrder(c)' /\ UNCHANGED <<accepted, taken>>
        BY <1>0, <1>5, <3>1, NetworkInOrder
      <3>3. OwesInOrder(c)'
        BY <1>5, <3>1, <3>2 DEF OwesInOrder, serverVars
      <3>4. Content(c)'
        BY <2>1, <3>1, <3>2, ContentKept
      <3>. QED BY <3>2, <3>3, <3>4
    <2>. QED BY <2>1, <2>2 DEF GoodForth, Own
  <1>6. ASSUME UNCHANGED vars, NEW c \in Conns PROVE GoodForth(c)'
    <2>1. UNCHANGED <<Own(c), Ends(c), msg_buf_need_send[c]>>
      BY <1>6 DEF vars, clientVars, ioVars, sendVars, textVars, histories, serverVars, udtVars,
                  Own, Ends
    <2>. QED BY <1>2, <2>1
  <1>. QED BY <1>1, <1>3, <1>4, <1>5, <1>6 DEF ForthInvariant, Next, Client, Server, Library

\* While no append clashed with an erase, the bytes main() made are in order on their whole
\* way to the server, and in the string as far as they are still there.
THEOREM ForthInvariantHolds == Spec => []ForthInvariant
  BY ForthInit, ForthStep, PTL DEF Spec

\* Two runs of the first bytes of the same length are equal.
LEMMA NumberedEqual ==
  ASSUME NEW c, NEW s \in Seq(Msgs), NEW t \in Seq(Msgs), Len(s) = Len(t),
         Numbered(s, c, 0), Numbered(t, c, 0)
  PROVE  s = t
  <1>1. \A i \in 1 .. Len(s) : s[i] = t[i]
    BY DEF Numbered
  <1>. QED BY <1>1, SeqEqual

\* While no append overlapped an erase or moved the string under a send, what main() made is
\* what UDT took and then the string, byte by byte.
THEOREM NothingLostUnlessClash == Spec => []KeptUnlessClash
  <1>1. ASSUME ForthInvariant, NEW c \in Conns, clash[c] = 0, ~Erasing(c), io[c] # "erase"
        PROVE  Made(c) = accepted[ClientSock(c)] \o SubSeq(chars[c], 1, length[c])
    <2>. DEFINE a == accepted[ClientSock(c)]
                text == SubSeq(chars[c], 1, length[c])
                n == made[c] * MsgLen
    <2>1. /\ ClientTypeOK /\ UdtTypeOK /\ Sizes(c) /\ ForthInOrder(c) /\ Content(c)
      BY <1>1 DEF ForthInvariant, SizesInvariant, TypeOK, GoodForth
    <2>2. /\ chars[c] \in Seq(Msgs) /\ length[c] \in Nat /\ Len(chars[c]) \in Nat
          /\ made[c] \in Nat /\ n \in Nat /\ length[c] <= Len(chars[c])
      <3>1. length[c] < Len(chars[c])
        BY <2>1 DEF Content, Sizes, Fits
      <3>2. /\ chars[c] \in Seq(Msgs) /\ length[c] \in Nat /\ Len(chars[c]) \in Nat
            /\ made[c] \in Nat /\ n \in Nat
        BY <2>1, Numbers DEF Total
      <3>. QED BY <3>1, <3>2
    <2>3. a \in Seq(Msgs) /\ Numbered(a, c, 0) /\ Len(a) \in Nat
      BY <2>1, ConnTypes, SocketNames, LenProperties DEF ForthInOrder, Pipe
    <2>4. Text(chars[c], c, Len(a), length[c]) /\ Len(a) + length[c] = n
      <3>1. Held(c) = 0
        BY <1>1 DEF Held, Erasing
      <3>2. Text(chars[c], c, Len(a) - 0, length[c]) /\ Len(a) + length[c] = n + 0
        BY <1>1, <2>1, <3>1 DEF Content, Erasing, Sent, Total
      <3>. QED BY <2>2, <2>3, <3>2
    <2>5. text \in Seq(Msgs) /\ Len(text) = length[c] /\ Numbered(text, c, Len(a))
      <3>1. length[c] \in 0 .. length[c]
        BY <2>2
      <3>. QED BY <2>2, <2>3, <2>4, <3>1, GivenText
    <2>. HIDE DEF a, text, n
    <2>6. a \o text \in Seq(Msgs) /\ Len(a \o text) = n /\ Numbered(a \o text, c, 0)
      <3>1. Numbered(text, c, 0 + Len(a)) /\ 0 \in Nat
        BY <2>3, <2>5
      <3>2. /\ a \o text \in Seq(Msgs) /\ Len(a \o text) = Len(a) + Len(text)
            /\ Numbered(a \o text, c, 0)
        BY <2>3, <2>5, <3>1, NumberedConcat
      <3>. QED BY <2>4, <2>5, <3>2
    <2>7. Made(c) \in Seq(Msgs) /\ Len(Made(c)) = n /\ Numbered(Made(c), c, 0)
      <3>1. \A i \in 1 .. n : <<c, i>> \in Msgs
        BY <2>2 DEF Msgs
      <3>2. Made(c) \in [1 .. n -> Msgs]
        BY <3>1 DEF Made, n
      <3>3. Made(c) \in Seq(Msgs) /\ DOMAIN Made(c) = 1 .. n
        BY <2>2, <3>2
      <3>4. Len(Made(c)) = n
        BY <2>2, <3>3, LenProperties
      <3>5. \A i \in 1 .. n : Made(c)[i] = <<c, 0 + i>>
        BY <2>2 DEF Made, n
      <3>. QED BY <3>3, <3>4, <3>5 DEF Numbered
    <2>8. Made(c) = a \o text
      BY <2>6, <2>7, NumberedEqual
    <2>. QED BY <2>8 DEF a, text
  <1>2. ForthInvariant => KeptUnlessClash
    BY <1>1 DEF KeptUnlessClash
  <1>. QED BY <1>2, ForthInvariantHolds, PTL

-----------------------------------------------------------------------------
(* The way back.                                                           *)

\* The pieces of a run of bytes that begins where a message does are messages.
LEMMA PiecesAreMessages ==
  ASSUME NEW c \in Conns, NEW whole \in Seq(Msgs), NEW l \in Nat,
         Numbered(whole, c, l * MsgLen)
  PROVE  LET n == Len(whole) \div MsgLen
             pieces == [i \in 1 .. n |-> SubSeq(whole, (i - 1) * MsgLen + 1, i * MsgLen)]
             rest == SubSeq(whole, n * MsgLen + 1, Len(whole))
         IN /\ \A i \in 1 .. n : pieces[i] = Msg(c, l + i)
            /\ Numbered(rest, c, (l + n) * MsgLen)
            /\ Len(rest) = Len(whole) - n * MsgLen
  <1>. DEFINE n == Len(whole) \div MsgLen
              pieces == [i \in 1 .. n |-> SubSeq(whole, (i - 1) * MsgLen + 1, i * MsgLen)]
              rest == SubSeq(whole, n * MsgLen + 1, Len(whole))
              from == l * MsgLen
  <1>1. /\ Len(whole) \in Nat /\ MsgLen \in Nat \ {0} /\ from \in Nat
        /\ n \in Nat /\ n * MsgLen <= Len(whole) /\ n * MsgLen \in Nat
    BY LenProperties, PiecesType, ClientAssumption
  <1>2. ASSUME NEW i \in 1 .. n
        PROVE  SubSeq(whole, (i - 1) * MsgLen + 1, i * MsgLen) = Msg(c, l + i)
    <2>. DEFINE a == (i - 1) * MsgLen + 1
                b == i * MsgLen
                piece == SubSeq(whole, a, b)
    <2>1. /\ a \in Nat \ {0} /\ b \in Nat /\ a <= b + 1 /\ b - a + 1 = MsgLen
          /\ b <= n * MsgLen
          /\ from + (a - 1) = (l + i - 1) * MsgLen /\ l + i \in Nat \ {0}
      <3>. HIDE DEF n
      <3>. QED BY <1>1
    <2>2. b <= Len(whole)
      BY <1>1, <2>1
    <2>3. Numbered(whole, c, from)
      OBVIOUS
    <2>. HIDE DEF a, b, from, n
    <2>4. piece \in Seq(Msgs) /\ Len(piece) = b - a + 1 /\ Numbered(piece, c, from + (a - 1))
      BY <1>1, <2>1, <2>2, <2>3, NumberedPart
    <2>5. /\ Msg(c, l + i) \in Seq(Msgs) /\ Len(Msg(c, l + i)) = MsgLen
          /\ Numbered(Msg(c, l + i), c, (l + i - 1) * MsgLen)
      BY <2>1, MsgFacts
    <2>. HIDE DEF piece
    <2>6. piece = Msg(c, l + i)
      <3>1. Len(piece) = Len(Msg(c, l + i))
        BY <2>1, <2>4, <2>5
      <3>2. \A k \in 1 .. Len(piece) : piece[k] = Msg(c, l + i)[k]
        BY <2>1, <2>4, <2>5, <3>1 DEF Numbered
      <3>. QED BY <2>4, <2>5, <3>1, <3>2, SeqEqual
    <2>. QED BY <2>6 DEF piece, a, b
  <1>3. Numbered(rest, c, from + n * MsgLen) /\ Len(rest) = Len(whole) - n * MsgLen
    <2>. DEFINE m == n * MsgLen
    <2>1. m \in 0 .. Len(whole)
      BY <1>1
    <2>2. Numbered(whole, c, from)
      OBVIOUS
    <2>. HIDE DEF m, from
    <2>3. /\ Len(SubSeq(whole, m + 1, Len(whole))) = Len(whole) - m
          /\ Numbered(SubSeq(whole, m + 1, Len(whole)), c, from + m)
      BY <1>1, <2>1, <2>2, RestPart
    <2>. QED BY <2>3 DEF m
  <1>4. from + n * MsgLen = (l + n) * MsgLen
    <2>. HIDE DEF n
    <2>. QED BY <1>1
  <1>5. \A i \in 1 .. n : pieces[i] = Msg(c, l + i)
    <2>. HIDE DEF n
    <2>. QED BY <1>2
  <1>. HIDE DEF n, rest, from, pieces
  <1>6. Numbered(rest, c, (l + n) * MsgLen)
    BY <1>3, <1>4
  <1>. QED BY <1>3, <1>5, <1>6 DEF n, pieces, rest

\* recv_func cuts messages in their turn from bytes that arrive in order.
LEMMA CutStep ==
  ASSUME ClientTypeOK, NEW c \in Conns, NEW t \in Nat, NEW part \in Seq(Msgs),
         \A i \in 1 .. Len(frames[c]) : frames[c][i] = Msg(c, i),
         Numbered(recved_str[c], c, Len(frames[c]) * MsgLen),
         t = Len(frames[c]) * MsgLen + Len(recved_str[c]),
         Numbered(part, c, t), Cut(c, recved_str[c] \o part)
  PROVE  /\ \A i \in 1 .. Len(frames'[c]) : frames'[c][i] = Msg(c, i)
         /\ Numbered(recved_str'[c], c, Len(frames'[c]) * MsgLen)
         /\ t + Len(part) = Len(frames'[c]) * MsgLen + Len(recved_str'[c])
  <1>. DEFINE f == frames[c]
              r == recved_str[c]
              l == Len(f)
              from == l * MsgLen
              whole == r \o part
              n == Len(whole) \div MsgLen
              pieces == [i \in 1 .. n |-> SubSeq(whole, (i - 1) * MsgLen + 1, i * MsgLen)]
              rest == SubSeq(whole, n * MsgLen + 1, Len(whole))
  <1>1. /\ f \in Seq(Seq(Msgs)) /\ r \in Seq(Msgs) /\ l \in Nat /\ MsgLen \in Nat \ {0}
        /\ from \in Nat /\ Len(r) \in Nat /\ Len(part) \in Nat
    BY LenProperties, ClientAssumption DEF ClientTypeOK
  <1>2. /\ recved_str'[c] = rest /\ frames'[c] = f \o pieces
    BY DEF Cut, CutTo, ClientTypeOK
  <1>3. Numbered(r, c, from) /\ Numbered(part, c, from + Len(r)) /\ t = from + Len(r)
    OBVIOUS
  <1>4. \A i \in 1 .. l : f[i] = Msg(c, i)
    OBVIOUS
  <1>. HIDE DEF f, r
  <1>5. /\ whole \in Seq(Msgs) /\ Len(whole) = Len(r) + Len(part) /\ Numbered(whole, c, from)
    <2>. HIDE DEF from
    <2>. QED BY <1>1, <1>3, NumberedConcat
  <1>. HIDE DEF whole
  <1>6. n \in Nat /\ pieces \in Seq(Seq(Msgs)) /\ Len(pieces) = n /\ rest \in Seq(Msgs)
    BY <1>5, PiecesType
  <1>7. /\ \A i \in 1 .. n : pieces[i] = Msg(c, l + i)
        /\ Numbered(rest, c, (l + n) * MsgLen)
        /\ Len(rest) = Len(whole) - n * MsgLen
    <2>. HIDE DEF l
    <2>1. Numbered(whole, c, l * MsgLen)
      BY <1>5
    <2>. QED BY <1>1, <1>5, <2>1, PiecesAreMessages
  <1>. HIDE DEF n, pieces, rest
  <1>8. /\ Len(f \o pieces) = l + n
        /\ \A i \in 1 .. l + n : (f \o pieces)[i] = IF i <= l THEN f[i] ELSE pieces[i - l]
    BY <1>1, <1>6, ConcatProperties
  <1>. HIDE DEF l
  <1>9. ASSUME NEW i \in 1 .. l + n PROVE (f \o pieces)[i] = Msg(c, i)
    <2>1. CASE i <= l
      <3>1. i \in 1 .. l
        BY <1>1, <2>1
      <3>. QED BY <1>4, <1>8, <2>1, <3>1
    <2>2. CASE ~(i <= l)
      <3>1. i - l \in 1 .. n /\ l + (i - l) = i
        BY <1>1, <1>6, <2>2
      <3>. QED BY <1>7, <1>8, <2>2, <3>1
    <2>. QED BY <2>1, <2>2
  <1>10. t + Len(part) = (l + n) * MsgLen + Len(rest)
    <2>1. Len(whole) = Len(r) + Len(part) /\ Len(rest) = Len(whole) - n * MsgLen
          /\ t = l * MsgLen + Len(r)
      BY <1>3, <1>5, <1>7
    <2>2. (l + n) * MsgLen = l * MsgLen + n * MsgLen
      BY <1>1, <1>6
    <2>3. l * MsgLen \in Nat /\ n * MsgLen \in Nat /\ Len(whole) \in Nat
      BY <1>1, <1>5, <1>6, LenProperties
    <2>. DEFINE lm == l * MsgLen
                nm == n * MsgLen
                w == Len(whole)
                lr == Len(r)
                lp == Len(part)
                q == Len(rest)
    <2>4. /\ lm \in Nat /\ nm \in Nat /\ w \in Nat /\ lr \in Nat /\ lp \in Nat
          /\ w = lr + lp /\ q = w - nm /\ t = lm + lr
      BY <1>1, <2>1, <2>3
    <2>5. t + lp = lm + nm + q
      <3>. HIDE DEF lm, nm, w, lr, lp, q
      <3>. QED BY <2>4
    <2>. QED BY <2>2, <2>5
  <1>. QED BY <1>2, <1>7, <1>8, <1>9, <1>10

\* What the way back is made of.
Back(c) ==
  <<taken[ClientSock(c)], rcvBuf[ClientSock(c)], sndBuf[ServerSock(c)], accepted[ServerSock(c)],
    taken[ServerSock(c)], msg_buf_need_send[c], recved_str[c], frames[c]>>

\* The way back is as it was if none of its parts has changed.
LEMMA BackKept ==
  ASSUME NEW c \in Conns, BackInOrder(c), CutInOrder(c), UNCHANGED Back(c)
  PROVE  BackInOrder(c)' /\ CutInOrder(c)'
  BY DEF BackInOrder, CutInOrder, Back, Msg

\* The client reads and cuts what has come back.
LEMMA ClientBack ==
  ASSUME ClientTypeOK, UdtTypeOK, NEW c \in Conns, BackInOrder(c), CutInOrder(c),
         ClientStep(c), UNCHANGED serverVars
  PROVE  BackInOrder(c)' /\ CutInOrder(c)'
  <1>. DEFINE cs == ClientSock(c)
              ss == ServerSock(c)
  <1>0. cs \in Socks /\ ss \in Socks /\ cs # ss
    BY SocketNames, OtherSockets
  <1>1. ASSUME UNCHANGED <<taken[cs], rcvBuf[cs], recved_str[c], frames[c]>>
        PROVE  UNCHANGED Back(c)
    BY <1>1, ClientKeepsServerSide DEF Back, serverVars
  <1>2. CASE RecvSome(c)
    <2>1. PICK k \in 1 .. RcvCap :
            /\ RecvReturns(ClientSock(c), k)
            /\ Cut(c, recved_str[c] \o SubSeq(rcvBuf[ClientSock(c)], 1, k))
      BY <1>2 DEF RecvSome
    <2>. DEFINE t == taken[cs]
                r == rcvBuf[cs]
                part == SubSeq(r, 1, k)
                tt == Recorded(t, part)
    <2>2. k \in 1 .. Len(r) /\ k \in 0 .. Len(r)
      BY <2>1 DEF RecvReturns
    <2>3. /\ t \in Seq(Msgs) /\ r \in Seq(Msgs)
          /\ sndBuf[ss] \in Seq(Msgs) /\ accepted[ss] \in Seq(Msgs)
      BY <1>0, ConnTypes
    <2>4. /\ rcvBuf'[cs] = SubSeq(r, k + 1, Len(r)) /\ taken'[cs] = tt
          /\ taken'[ss] = taken[ss] /\ msg_buf_need_send'[c] = msg_buf_need_send[c]
          /\ UNCHANGED <<sndBuf, accepted>>
      BY <1>0, <2>1 DEF RecvReturns, UdtTypeOK, serverVars
    <2>5. Pipe(c, t, r, sndBuf[ss], accepted[ss])
      BY DEF BackInOrder
    <2>6. Numbered(t, c, 0) /\ Numbered(r, c, Len(t)) /\ Len(t) \in Nat
      BY <2>3, <2>5, LenProperties DEF Pipe
    <2>7. Cut(c, recved_str[c] \o part)
      BY <2>1
    <2>8. Len(t) = Len(frames[c]) * MsgLen + Len(recved_str[c])
      BY DEF CutInOrder
    <2>. HIDE DEF cs, ss, t, r
    <2>9. Pipe(c, tt, SubSeq(r, k + 1, Len(r)), sndBuf[ss], accepted[ss])
      BY <2>2, <2>3, <2>5, PipeGives
    <2>10. part \in Seq(Msgs) /\ Len(part) = k /\ Numbered(part, c, Len(t))
      BY <2>2, <2>3, <2>6, FirstPart
    <2>11. Len(tt) = Len(t) + k
      BY <2>2, <2>3, <2>6, RecordedPart
    <2>. HIDE DEF part, tt
    <2>12. BackInOrder(c)'
      BY <2>4, <2>9 DEF BackInOrder, cs, ss
    <2>13. /\ \A i \in 1 .. Len(frames[c]) : frames[c][i] = Msg(c, i)
           /\ Numbered(recved_str[c], c, Len(frames[c]) * MsgLen)
      BY DEF CutInOrder
    <2>14. /\ \A i \in 1 .. Len(frames'[c]) : frames'[c][i] = Msg(c, i)
           /\ Numbered(recved_str'[c], c, Len(frames'[c]) * MsgLen)
           /\ Len(t) + Len(part) = Len(frames'[c]) * MsgLen + Len(recved_str'[c])
      <3>. DEFINE n == Len(t)
      <3>1. /\ n \in Nat /\ n = Len(frames[c]) * MsgLen + Len(recved_str[c])
            /\ Numbered(part, c, n)
        BY <2>6, <2>8, <2>10
      <3>. HIDE DEF n
      <3>2. /\ \A i \in 1 .. Len(frames'[c]) : frames'[c][i] = Msg(c, i)
            /\ Numbered(recved_str'[c], c, Len(frames'[c]) * MsgLen)
            /\ n + Len(part) = Len(frames'[c]) * MsgLen + Len(recved_str'[c])
        BY <2>7, <2>10, <2>13, <3>1, CutStep
      <3>. QED BY <3>2 DEF n
    <2>15. Len(taken'[cs]) = Len(frames'[c]) * MsgLen + Len(recved_str'[c])
      BY <2>4, <2>10, <2>11, <2>14
    <2>16. CutInOrder(c)'
      BY <2>14, <2>15 DEF CutInOrder, cs, Msg
    <2>. QED BY <2>12, <2>16
  <1>3. CASE SendTakesSome(c)
    <2>1. PICK text \in {Chars(c, 1, send_size[c]), [i \in 1 .. send_size[c] |-> Junk(c)]},
               k \in 1 .. SndCap :
            SendTakes(ClientSock(c), text, k) /\ SendReturns(c, k)
      BY <1>3 DEF SendTakesSome
    <2>2. UNCHANGED Back(c)
      BY <1>1, <2>1 DEF SendTakes, SendReturns, histories
    <2>. QED BY <2>2, BackKept
  <1>4. CASE Main(c)
    <2>1. UNCHANGED <<recved_str, frames>>
      BY <1>4 DEF Main, StartFails, StartConnects, StartSpawns, AppendReads, AppendCopies,
                  AppendGrows, AppendCrashes, AppendStores, Measure, ioVars, histories
    <2>2. UNCHANGED Ends(c)
      BY <1>4, ClientKeepsServerSide
    <2>3. UNCHANGED Back(c)
      BY <1>1, <2>1, <2>2 DEF Ends
    <2>. QED BY <2>3, BackKept
  <1>5. CASE \/ RunBoots(c) \/ LoopTests(c) \/ RunCloses(c) \/ SendSkips(c)
             \/ SendPoints(c) \/ SendCounts(c)
             \/ SendTakesNone(c) \/ SendFails(c) \/ EraseReads(c) \/ EraseMoves(c)
             \/ EraseStores(c) \/ RecvNothing(c) \/ RecvFails(c)
    <2>1. UNCHANGED <<taken, rcvBuf, recved_str, frames>>
      BY <1>5 DEF RunBoots, LoopTests, RunCloses, SendSkips, SendPoints, SendCounts,
                  SendTakesNone, SendFails,
                  SendReturns, EraseReads, EraseMoves, EraseStores, EraseTo, RecvNothing, RecvFails,
                  SendmsgFull, SendmsgError, RecvmsgNothing, RecvmsgNoConn, RecvmsgLost,
                  CloseSock, udtVars, flowVars, histories
    <2>2. UNCHANGED Back(c)
      BY <1>1, <2>1
    <2>. QED BY <2>2, BackKept
  <1>. QED BY <1>2, <1>3, <1>4, <1>5 DEF ClientStep, Run

\* What recv_func cut depends on its own string, its frames and what it read.
LEMMA CutKept ==
  ASSUME NEW c \in Conns, CutInOrder(c), UNCHANGED <<recved_str[c], frames[c]>>,
         taken'[ClientSock(c)] = taken[ClientSock(c)]
  PROVE  CutInOrder(c)'
  BY DEF CutInOrder, Msg

\* A worker reads as many bytes as its string grows by.
LEMMA WorkerRecvBack ==
  ASSUME ServerTypeOK, UdtTypeOK, NEW c \in Conns, ForthInOrder(c), BackInOrder(c),
         WorkerRecv(c)
  PROVE  BackInOrder(c)' /\ taken'[ClientSock(c)] = taken[ClientSock(c)]
  <1>. DEFINE cs == ClientSock(c)
              ss == ServerSock(c)
              r == rcvBuf[ss]
              t == taken[ss]
              o == msg_buf_need_send[c]
              b == accepted[ss]
  <1>0. cs \in Socks /\ ss \in Socks /\ o \in Seq(Msgs) /\ cs # ss
    BY SocketNames, OtherSockets DEF ServerTypeOK
  <1>1. PICK k \in 1 .. RcvCap :
          /\ RecvReturns(ss, k)
          /\ msg_buf_need_send' = [msg_buf_need_send EXCEPT ![c] = @ \o SubSeq(rcvBuf[ss], 1, k)]
    BY DEF WorkerRecv
  <1>. DEFINE part == SubSeq(r, 1, k)
              tt == Recorded(t, part)
  <1>2. k \in 1 .. Len(r) /\ k \in Nat
    BY <1>1 DEF RecvReturns
  <1>3. /\ rcvBuf'[cs] = rcvBuf[cs] /\ taken'[cs] = taken[cs] /\ taken'[ss] = tt
        /\ msg_buf_need_send'[c] = o \o part
        /\ UNCHANGED <<sndBuf, accepted>>
    BY <1>0, <1>1 DEF RecvReturns, UdtTypeOK, ServerTypeOK
  <1>4. /\ t \in Seq(Msgs) /\ r \in Seq(Msgs) /\ b \in Seq(Msgs)
        /\ sndBuf[cs] \in Seq(Msgs) /\ accepted[cs] \in Seq(Msgs)
    BY <1>0, ConnTypes
  <1>5. Pipe(c, t, r, sndBuf[cs], accepted[cs])
    BY DEF ForthInOrder
  <1>6. Len(b) + Len(o) = Len(t)
    BY DEF BackInOrder
  <1>7. Pipe(c, taken'[cs], rcvBuf'[cs], sndBuf'[ss], accepted'[ss])
    BY <1>3 DEF BackInOrder
  <1>. HIDE DEF cs, ss, r, t, o, b
  <1>8. part \in Seq(Msgs) /\ Len(part) = k /\ Len(tt) = Len(t) + k
    <2>1. Numbered(t, c, 0) /\ Numbered(r, c, Len(t))
      BY <1>5 DEF Pipe
    <2>2. k \in 0 .. Len(r) /\ Len(t) \in Nat
      BY <1>2, <1>4, LenProperties
    <2>3. part \in Seq(Msgs) /\ Len(part) = k
      BY <1>4, <2>1, <2>2, FirstPart
    <2>4. Len(tt) = Len(t) + k
      BY <1>2, <1>4, <2>1, RecordedPart
    <2>. QED BY <2>3, <2>4
  <1>. HIDE DEF part, tt
  <1>9. Len(o \o part) = Len(o) + Len(part)
    BY <1>0, <1>8, ConcatProperties
  <1>10. Len(b) \in Nat /\ Len(o) \in Nat /\ Len(t) \in Nat
    BY <1>0, <1>4, LenProperties
  <1>11. Len(b) + Len(o \o part) = Len(tt)
    BY <1>2, <1>6, <1>8, <1>9, <1>10
  <1>12. Len(accepted'[ss]) + Len(msg_buf_need_send'[c]) = Len(taken'[ss])
    BY <1>3, <1>11 DEF b
  <1>. QED BY <1>3, <1>7, <1>12 DEF BackInOrder, cs, ss

\* A worker sends all it owes.
LEMMA WorkerSendAllBack ==
  ASSUME ServerTypeOK, UdtTypeOK, NEW c \in Conns, OwesInOrder(c), BackInOrder(c),
         WorkerSendAll(c)
  PROVE  BackInOrder(c)' /\ taken'[ClientSock(c)] = taken[ClientSock(c)]
  <1>. DEFINE cs == ClientSock(c)
              ss == ServerSock(c)
              r == rcvBuf[cs]
              t == taken[cs]
              q == sndBuf[ss]
              o == msg_buf_need_send[c]
              b == accepted[ss]
              k == Len(o)
              part == SubSeq(o, 1, k)
              bb == Recorded(b, part)
              total == Len(taken[ss])
  <1>0. cs \in Socks /\ ss \in Socks /\ o \in Seq(Msgs) /\ cs # ss
    BY SocketNames, OtherSockets DEF ServerTypeOK
  <1>1. SendTakes(ss, o, k) /\ msg_buf_need_send'[c] = <<>>
    BY DEF WorkerSendAll, ServerTypeOK
  <1>2. k \in 1 .. Len(o)
    BY <1>1 DEF SendTakes
  <1>3. /\ sndBuf'[ss] = q \o part /\ accepted'[ss] = bb /\ UNCHANGED <<rcvBuf, taken>>
    BY <1>0, <1>1 DEF SendTakes, UdtTypeOK
  <1>4. t \in Seq(Msgs) /\ r \in Seq(Msgs) /\ q \in Seq(Msgs) /\ b \in Seq(Msgs)
    BY <1>0, ConnTypes
  <1>5. Pipe(c, t, r, q, b) /\ Len(b) + Len(o) = total
    BY DEF BackInOrder
  <1>6. Numbered(o, c, total - Len(o))
    BY DEF OwesInOrder, Debt
  <1>. HIDE DEF cs, ss, r, t, o, q, b, total
  <1>7. Len(b) \in Nat /\ Len(o) \in Nat
    BY <1>0, <1>4, LenProperties
  <1>8. total - Len(o) = Len(b)
    BY <1>5, <1>7
  <1>9. Numbered(o, c, Len(b)) /\ Numbered(b, c, 0)
    BY <1>5, <1>6, <1>8 DEF Pipe
  <1>10. Pipe(c, t, r, q \o part, bb)
    BY <1>0, <1>2, <1>4, <1>5, <1>9, PipeTakes
  <1>11. Len(bb) = Len(b) + k
    BY <1>0, <1>2, <1>4, <1>9, RecordedPart
  <1>12. Len(bb) + Len(<<>>) = total
    <2>1. Len(<<>>) = 0
      OBVIOUS
    <2>. HIDE DEF bb
    <2>. QED BY <1>5, <1>7, <1>11, <2>1
  <1>. HIDE DEF part, bb, k
  <1>13. Pipe(c, taken'[cs], rcvBuf'[cs], sndBuf'[ss], accepted'[ss])
    BY <1>3, <1>10 DEF t, r
  <1>14. Len(accepted'[ss]) + Len(msg_buf_need_send'[c]) = Len(taken'[ss])
    BY <1>1, <1>3, <1>12 DEF total
  <1>. QED BY <1>3, <1>13, <1>14 DEF BackInOrder, cs, ss

\* The library keeps the order of the way back.
LEMMA NetworkBack ==
  ASSUME UdtTypeOK, NEW c \in Conns, BackInOrder(c), CutInOrder(c), Network,
         UNCHANGED <<clientVars, serverVars>>
  PROVE  BackInOrder(c)' /\ CutInOrder(c)'
  <1>. DEFINE cs == ClientSock(c)
              ss == ServerSock(c)
  <1>0. cs \in Socks /\ ss \in Socks /\ Peer(ss) = cs
    BY SocketNames
  <1>1. UNCHANGED <<msg_buf_need_send[c], recved_str[c], frames[c]>>
    BY DEF clientVars, serverVars, ioVars, histories
  <1>2. ASSUME UNCHANGED flowVars PROVE BackInOrder(c)' /\ CutInOrder(c)'
    BY <1>1, <1>2, BackKept DEF Back, flowVars
  <1>3. ASSUME NEW s \in Socks, Transmit(s) PROVE BackInOrder(c)' /\ CutInOrder(c)'
    <2>1. UNCHANGED <<accepted, taken>>
      BY <1>3 DEF Transmit
    <2>2. CASE s = ss
      <3>1. /\ sndBuf[ss] # <<>>
            /\ sndBuf'[ss] = Tail(sndBuf[ss])
            /\ rcvBuf'[cs] = Append(rcvBuf[cs], Head(sndBuf[ss]))
        BY <1>0, <1>3, <2>2 DEF Transmit, UdtTypeOK
      <3>2. Pipe(c, taken[cs], Append(rcvBuf[cs], Head(sndBuf[ss])), Tail(sndBuf[ss]),
                 accepted[ss])
        BY <1>0, <3>1, ConnTypes, PipeMoves DEF BackInOrder
      <3>3. BackInOrder(c)'
        BY <1>1, <2>1, <3>1, <3>2 DEF BackInOrder
      <3>4. CutInOrder(c)'
        BY <1>1, <2>1, CutKept
      <3>. QED BY <3>3, <3>4
    <2>3. CASE s # ss
      <3>1. Peer(s) # cs
        BY <1>0, <2>3, SocketSides, SocketNames, OtherSockets
      <3>2. sndBuf'[ss] = sndBuf[ss] /\ rcvBuf'[cs] = rcvBuf[cs]
        BY <1>0, <1>3, <2>3, <3>1 DEF Transmit, UdtTypeOK
      <3>3. UNCHANGED Back(c)
        BY <1>1, <2>1, <3>2 DEF Back
      <3>. QED BY <3>3, BackKept
    <2>. QED BY <2>2, <2>3
  <1>4. ASSUME NEW s \in Socks, Break(s) \/ Collect(s) PROVE UNCHANGED flowVars
    BY <1>4 DEF Break, Collect
  <1>5. ASSUME NEW d \in Conns, Handshake(d) \/ Established(d) PROVE UNCHANGED flowVars
    BY <1>5 DEF Handshake, Established
  <1>. QED BY <1>2, <1>3, <1>4, <1>5 DEF Network

\* The server sends back what it read, as long as it keeps nothing it sent.
LEMMA ServerBack ==
  ASSUME ServerTypeOK, UdtTypeOK, NEW c \in Conns, ForthInOrder(c), OwesInOrder(c),
         BackInOrder(c), CutInOrder(c), ServerStep, UNCHANGED clientVars,
         \/ sndBuf'[ServerSock(c)] = sndBuf[ServerSock(c)]
         \/ msg_buf_need_send'[c] = <<>>
  PROVE  BackInOrder(c)' /\ CutInOrder(c)'
  <1>1. UNCHANGED <<recved_str[c], frames[c]>>
    BY DEF clientVars, ioVars, histories
  <1>2. ASSUME UNCHANGED <<flowVars, msg_buf_need_send>> PROVE BackInOrder(c)' /\ CutInOrder(c)'
    BY <1>1, <1>2, BackKept DEF Back, flowVars
  <1>3. CASE ServerRun
    <2>1. ASSUME NEW d \in Conns, Accept(d) PROVE UNCHANGED <<flowVars, msg_buf_need_send>>
      BY <2>1 DEF Accept
    <2>2. CASE CreateListenSocket \/ CloseServer \/ ProcessExit
      BY <2>2, <1>2 DEF CreateListenSocket, CloseServer, ProcessExit
    <2>3. CASE AcceptFails
      BY <2>3, <1>2 DEF AcceptFails, udtVars, flowVars
    <2>. QED BY <1>2, <1>3, <2>1, <2>2, <2>3 DEF ServerRun
  <1>4. CASE WorkThread(c)
    <2>1. CASE WorkerRecv(c)
      BY <1>1, <2>1, WorkerRecvBack, CutKept
    <2>2. CASE WorkerSendAll(c)
      BY <1>1, <2>2, WorkerSendAllBack, CutKept
    <2>3. CASE WorkerSendPart(c)
      <3>. DEFINE q == sndBuf[ServerSock(c)]
                  o == msg_buf_need_send[c]
      <3>1. PICK k \in 1 .. SndCap :
              k < Len(msg_buf_need_send[c]) /\ SendTakes(ServerSock(c), msg_buf_need_send[c], k)
        BY <2>3 DEF WorkerSendPart
      <3>2. /\ sndBuf'[ServerSock(c)] = q \o SubSeq(o, 1, k) /\ msg_buf_need_send'[c] = o
            /\ k \in 1 .. Len(o) /\ k < Len(o)
        BY <2>3, <3>1, SocketNames DEF WorkerSendPart, SendTakes, UdtTypeOK
      <3>3. q \in Seq(Msgs) /\ o \in Seq(Msgs) /\ Len(q) \in Nat /\ Len(o) \in Nat
        BY SocketNames, ConnTypes, LenProperties DEF ServerTypeOK
      <3>4. sndBuf'[ServerSock(c)] = q \/ msg_buf_need_send'[c] = <<>>
        OBVIOUS
      <3>. HIDE DEF q, o
      <3>5. o # <<>>
        BY <3>2, <3>3
      <3>6. SubSeq(o, 1, k) \in Seq(Msgs) /\ Len(SubSeq(o, 1, k)) = k
        <4>1. 1 \in Nat \ {0} /\ k \in Nat /\ k <= Len(o) /\ 1 <= k /\ k - 1 + 1 = k
          BY <3>2, <3>3
        <4>. QED BY <3>3, <4>1, PartType
      <3>7. Len(q \o SubSeq(o, 1, k)) = Len(q) + k
        BY <3>3, <3>6, ConcatProperties
      <3>8. q \o SubSeq(o, 1, k) # q
        BY <3>2, <3>3, <3>7
      <3>. QED BY <3>2, <3>4, <3>5, <3>8
    <2>4. CASE WorkerSendNone(c) \/ WorkerRecvEnds(c)
      <3>1. UNCHANGED <<flowVars, msg_buf_need_send>>
        BY <2>4 DEF WorkerSendNone, WorkerRecvEnds, RecvmsgNothing, RecvmsgLost, udtVars, flowVars
      <3>. QED BY <1>2, <3>1
    <2>. QED BY <1>4, <2>1, <2>2, <2>3, <2>4 DEF WorkThread
  <1>5. ASSUME NEW d \in Conns, c # d, WorkThread(d) PROVE BackInOrder(c)' /\ CutInOrder(c)'
    <2>1. /\ \A s \in {ClientSock(c), ServerSock(c)} :
               /\ sndBuf'[s] = sndBuf[s] /\ rcvBuf'[s] = rcvBuf[s]
               /\ accepted'[s] = accepted[s] /\ taken'[s] = taken[s]
          /\ msg_buf_need_send'[c] = msg_buf_need_send[c]
      BY <1>5, OtherWorker
    <2>2. UNCHANGED Back(c)
      BY <1>1, <2>1 DEF Back
    <2>. QED BY <2>2, BackKept
  <1>. QED BY <1>3, <1>4, <1>5 DEF ServerStep

\* Both directions of a connection are in order while nothing clashed and nothing was
\* repeated.
GoodBack(c) == clash[c] = 0 /\ repeated[c] = 0 => BackInOrder(c) /\ CutInOrder(c)

BackInvariant == ForthInvariant /\ \A c \in Conns : GoodBack(c)

\* At first nothing is under way.
LEMMA BackInit == Init => BackInvariant
  <1>. SUFFICES ASSUME Init PROVE BackInvariant
    OBVIOUS
  <1>1. ForthInvariant
    BY ForthInit
  <1>2. ASSUME NEW c \in Conns PROVE BackInOrder(c) /\ CutInOrder(c)
    <2>1. /\ \A s \in Socks : /\ sndBuf[s] = <<>> /\ rcvBuf[s] = <<>>
                              /\ accepted[s] = <<>> /\ taken[s] = <<>>
          /\ msg_buf_need_send[c] = <<>> /\ recved_str[c] = <<>> /\ frames[c] = <<>>
      BY DEF Init, ServerInit, UdtInit, ClientInit
    <2>2. Len(<<>>) = 0 /\ \A n : Numbered(<<>>, c, n)
      BY DEF Numbered
    <2>3. Pipe(c, <<>>, <<>>, <<>>, <<>>)
      BY <2>2 DEF Pipe
    <2>4. BackInOrder(c)
      BY <2>1, <2>2, <2>3, SocketNames DEF BackInOrder
    <2>5. 0 * MsgLen + 0 = 0
      BY ClientAssumption
    <2>6. CutInOrder(c)
      BY <2>1, <2>2, <2>5, SocketNames DEF CutInOrder
    <2>. QED BY <2>4, <2>6
  <1>. QED BY <1>1, <1>2 DEF BackInvariant, GoodBack

\* Every step of the benchmark keeps the order.
LEMMA BackStep == BackInvariant /\ [Next]_vars => BackInvariant'
  <1>. SUFFICES ASSUME BackInvariant, [Next]_vars PROVE BackInvariant'
    OBVIOUS
  <1>0. /\ ForthInvariant /\ ClientTypeOK /\ ServerTypeOK /\ UdtTypeOK
        /\ repeated \in [Conns -> {0, 1}]
        /\ \A c \in Conns : GoodForth(c) /\ GoodBack(c)
    BY DEF BackInvariant, ForthInvariant, SizesInvariant, TypeOK
  <1>1. ForthInvariant'
    BY <1>0, ForthStep
  <1>2. ASSUME NEW d \in Conns, ClientStep(d), UNCHANGED <<serverVars, repeated>>,
               NEW c \in Conns, clash'[c] = 0, repeated'[c] = 0
        PROVE  BackInOrder(c)' /\ CutInOrder(c)'
    <2>1. CASE c # d
      <3>1. UNCHANGED <<Own(c), Ends(c)>>
        BY <1>0, <1>2, <2>1, OtherMain, OtherRun DEF ClientStep
      <3>2. UNCHANGED Back(c) /\ clash'[c] = clash[c] /\ repeated'[c] = repeated[c]
        BY <1>2, <3>1 DEF Back, Own, Ends, serverVars
      <3>. QED BY <1>0, <1>2, <3>2, BackKept DEF GoodBack
    <2>2. CASE c = d
      <3>1. clash[c] = 0 /\ repeated[c] = 0
        BY <1>0, <1>2, <2>2, ClashStays
      <3>. QED BY <1>0, <1>2, <2>2, <3>1, ClientBack DEF GoodBack
    <2>. QED BY <2>1, <2>2
  <1>3. ASSUME Server, NEW c \in Conns, clash'[c] = 0, repeated'[c] = 0
        PROVE  BackInOrder(c)' /\ CutInOrder(c)'
    <2>1. ServerStep /\ UNCHANGED clientVars /\ clash[c] = 0
      BY <1>3 DEF Server, clientVars, histories
    <2>2. repeated'[c] = IF sndBuf'[ServerSock(c)] # sndBuf[ServerSock(c)]
                              /\ msg_buf_need_send'[c] # <<>>
                         THEN 1 ELSE repeated[c]
      BY <1>3 DEF Server
    <2>3. /\ repeated[c] = 0
          /\ \/ sndBuf'[ServerSock(c)] = sndBuf[ServerSock(c)]
             \/ msg_buf_need_send'[c] = <<>>
      BY <1>3, <2>2
    <2>. QED BY <1>0, <2>1, <2>3, ServerBack DEF GoodForth, GoodBack
  <1>4. ASSUME Library, NEW c \in Conns, clash'[c] = 0, repeated'[c] = 0
        PROVE  BackInOrder(c)' /\ CutInOrder(c)'
    <2>1. /\ Network /\ UNCHANGED <<clientVars, serverVars>>
          /\ clash[c] = 0 /\ repeated[c] = 0
      BY <1>4 DEF Library, clientVars, histories
    <2>. QED BY <1>0, <2>1, NetworkBack DEF GoodBack
  <1>5. ASSUME UNCHANGED vars, NEW c \in Conns, clash'[c] = 0, repeated'[c] = 0
        PROVE  BackInOrder(c)' /\ CutInOrder(c)'
    <2>1. UNCHANGED <<clientVars, serverVars, udtVars, repeated>>
      BY <1>5 DEF vars
    <2>2. UNCHANGED <<Back(c), clash, repeated>>
      BY <2>1 DEF clientVars, serverVars, udtVars, flowVars, ioVars, histories, Back
    <2>. QED BY <1>0, <1>5, <2>2, BackKept DEF GoodBack
  <1>6. \A c \in Conns : GoodBack(c)'
    BY <1>2, <1>3, <1>4, <1>5 DEF Next, Client, GoodBack
  <1>. QED BY <1>1, <1>6 DEF BackInvariant

\* While no append clashed with an erase and the server repeated no part, the bytes of a
\* connection come back in their order and recv_func cuts them where messages begin.
THEOREM BackInvariantHolds == Spec => []BackInvariant
  BY BackInit, BackStep, PTL DEF Spec

\* No more comes back than was made.
LEMMA BackBounded ==
  ASSUME BackInvariant, NEW c \in Conns, clash[c] = 0, repeated[c] = 0
  PROVE  Len(frames[c]) <= made[c]
  <1>. DEFINE cs == ClientSock(c)
              ss == ServerSock(c)
              read == Len(taken[cs])
              back == Len(accepted[ss])
              got == Len(taken[ss])
              n == Len(frames[c])
              m == made[c]
              sent == Sent(c)
              arrived == Len(rcvBuf[cs])
              leaving == Len(sndBuf[ss])
              come == Len(rcvBuf[ss])
              going == Len(sndBuf[cs])
              owed == Len(msg_buf_need_send[c])
              uncut == Len(recved_str[c])
  <1>1. /\ ClientTypeOK /\ ServerTypeOK /\ UdtTypeOK
        /\ ForthInOrder(c) /\ Content(c) /\ Sizes(c) /\ BackInOrder(c) /\ CutInOrder(c)
    BY DEF BackInvariant, ForthInvariant, SizesInvariant, TypeOK, GoodForth, GoodBack
  <1>2. /\ read \in Nat /\ back \in Nat /\ got \in Nat /\ n \in Nat
        /\ arrived \in Nat /\ leaving \in Nat /\ come \in Nat /\ going \in Nat
        /\ owed \in Nat /\ uncut \in Nat /\ n * MsgLen \in Nat
    <2>1. /\ frames[c] \in Seq(Seq(Msgs)) /\ recved_str[c] \in Seq(Msgs)
          /\ msg_buf_need_send[c] \in Seq(Msgs)
          /\ \A s \in {cs, ss} : /\ taken[s] \in Seq(Msgs) /\ rcvBuf[s] \in Seq(Msgs)
                                /\ accepted[s] \in Seq(Msgs) /\ sndBuf[s] \in Seq(Msgs)
      BY <1>1, SocketNames, ConnTypes DEF ClientTypeOK, ServerTypeOK
    <2>2. n \in Nat
      BY <2>1, LenProperties
    <2>3. n * MsgLen \in Nat
      BY <2>2, ClientAssumption
    <2>. QED BY <2>1, <2>2, <2>3, LenProperties
  <1>3. read = n * MsgLen + uncut
    BY <1>1 DEF CutInOrder
  <1>4. back = read + arrived + leaving
    BY <1>1 DEF BackInOrder, Pipe
  <1>5. back + owed = got
    BY <1>1 DEF BackInOrder
  <1>6. sent = got + come + going
    BY <1>1 DEF ForthInOrder, Pipe, Sent
  <1>7. /\ Sent(c) \in Nat /\ Held(c) \in Nat /\ length[c] \in Nat /\ m \in Nat
        /\ Total(c) = m * MsgLen /\ m * MsgLen \in Nat
    BY <1>1, Numbers, ClientAssumption DEF Total
  <1>8. Held(c) <= length[c]
    <2>1. CASE io[c] = "erase"
      BY <1>1, <2>1 DEF Sizes, Held
    <2>2. CASE io[c] \in {"move", "cut"}
      BY <1>1, <1>7, <2>2 DEF Sizes, Held, Erasing, ClientTypeOK
    <2>3. CASE io[c] \notin {"erase", "move", "cut"}
      BY <1>7, <2>3 DEF Held
    <2>. QED BY <2>1, <2>2, <2>3
  <1>9. Sent(c) <= m * MsgLen
    <2>1. Sent(c) + length[c] = Total(c) + Held(c)
      BY <1>1 DEF Content
    <2>. QED BY <1>7, <1>8, <2>1
  <1>10. n * MsgLen <= m * MsgLen
    <2>1. sent \in Nat /\ sent <= m * MsgLen /\ m * MsgLen \in Nat
      BY <1>7, <1>9
    <2>. HIDE DEF n, m, read, back, got, sent, arrived, leaving, come, going, owed, uncut
    <2>. QED BY <1>2, <1>3, <1>4, <1>5, <1>6, <2>1
  <1>. HIDE DEF n, m
  <1>11. n <= m
    BY <1>2, <1>7, <1>10, ClientAssumption
  <1>. QED BY <1>11 DEF n, m

\* Every latency the client prints is then that of a message main() made, in its turn.
THEOREM PiecesAreWholeMessages == Spec => []FramesAreMessages
  <1>1. BackInvariant => FramesAreMessages
    BY BackBounded DEF BackInvariant, GoodBack, CutInOrder, FramesAreMessages
  <1>. QED BY <1>1, BackInvariantHolds, PTL
=============================================================================
