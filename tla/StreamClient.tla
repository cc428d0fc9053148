---------------------------- MODULE StreamClient ----------------------------
(***************************************************************************)
(* udt_stream_client: main() appends a message to send_msg_buf_ every 50    *)
(* ms; the thread UDTClient::Run started hands the string to UDT, erases    *)
(* what was taken, and cuts what arrives into messages again.               *)
(*                                                                         *)
(* send_msg_buf_ is a std::string that both threads use without a lock.     *)
(* Its += and erase are therefore split where the other thread can come in  *)
(* between: they read the length, copy characters, and store the length     *)
(* with the terminator behind it. The string is that of libstdc++ since GCC *)
(* 5 (not the older copy-on-write one), without its 15 local characters;    *)
(* where its headers read the length again a compiler may keep the value it *)
(* has, so either may happen. One copy of characters, with the load of the  *)
(* address before it, is one step. A write outside the block is seen by     *)
(* StaysInBlock, and what it would overwrite there is not followed.         *)
(***************************************************************************)
EXTENDS UdtStream

CONSTANTS
  MsgLen,     \* test_str_size: bytes of a message
  BufLimit,   \* main() waits while the string is longer than this (25000 in the code)
  MaxMsgs     \* bound: messages one client makes

ASSUME ClientAssumption == MsgLen \in Nat \ {0} /\ BufLimit \in Nat /\ MaxMsgs \in Nat

VARIABLES
  main,         \* client -> what main() does next
  io,           \* client -> what the I/O thread does next
  half,         \* client -> which of the two sends and reads of a round
  udt_running,  \* client -> udt_running_
  chars,        \* client -> the block of send_msg_buf_: its capacity and a terminator
  length,       \* client -> the length of send_msg_buf_
  append_at,    \* client -> the length += has read
  send_size,    \* client -> the length the I/O thread has read
  send_len,     \* client -> what send returned
  freed,        \* client -> 1 once += freed the block a running send was given
  recved_str,   \* client -> bytes recv_func has not cut off yet
  torn,         \* history: client -> 1 once an append grew a string shorter than it read
  made,         \* history: client -> how many messages main() appended
  frames,       \* history: client -> what handle_one_msg got, as far as it was right
  clash         \* history: client -> 1 once an append overlapped an erase

ioVars == <<io, half, udt_running, recved_str>>
sendVars == <<send_size, send_len, freed>>
textVars == <<chars, length, append_at>>
histories == <<torn, made, frames, clash>>
clientVars == <<main, ioVars, sendVars, textVars, histories>>

\* The n-th message, a byte of no message (a terminator, or what a freed block holds), and
\* all the bytes main() made.
Msg(c, n) == [i \in 1 .. MsgLen |-> <<c, (n - 1) * MsgLen + i>>]
Junk(c) == <<c, MaxMsgs * MsgLen + 1>>
Made(c) == [i \in 1 .. made[c] * MsgLen |-> <<c, i>>]

ClientTypeOK ==
  /\ main \in [Conns -> {"start", "settle", "push", "copy", "store", "measure", "exit"}]
  /\ io \in [Conns -> {"none", "boot", "top", "send", "point", "count", "give",
                       "erase", "move", "cut", "recv", "close", "done"}]
  /\ half \in [Conns -> {1, 2}]
  /\ udt_running \in [Conns -> {0, 1}]
  /\ chars \in [Conns -> Seq(Msgs)]
  /\ length \in [Conns -> Nat]
  /\ append_at \in [Conns -> Nat]
  /\ send_size \in [Conns -> Nat]
  /\ send_len \in [Conns -> Nat]
  /\ freed \in [Conns -> {0, 1}]
  /\ recved_str \in [Conns -> Seq(Msgs)]
  /\ torn \in [Conns -> {0, 1}]
  /\ made \in [Conns -> 0 .. MaxMsgs]
  /\ frames \in [Conns -> Seq(Seq(Msgs))]
  /\ clash \in [Conns -> {0, 1}]

ClientInit ==
  /\ main = [c \in Conns |-> "start"]
  /\ io = [c \in Conns |-> "none"]
  /\ half = [c \in Conns |-> 1]
  /\ udt_running = [c \in Conns |-> 0]
  /\ chars = [c \in Conns |-> <<Junk(c)>>]
  /\ length = [c \in Conns |-> 0]
  /\ append_at = [c \in Conns |-> 0]
  /\ send_size = [c \in Conns |-> 0]
  /\ send_len = [c \in Conns |-> 0]
  /\ freed = [c \in Conns |-> 0]
  /\ recved_str = [c \in Conns |-> <<>>]
  /\ torn = [c \in Conns |-> 0]
  /\ made = [c \in Conns |-> 0]
  /\ frames = [c \in Conns |-> <<>>]
  /\ clash = [c \in Conns |-> 0]

\* The characters from first to last; what lies behind the block is no byte of a message.
Chars(c, first, last) ==
  [i \in 1 .. (last + 1) - first |->
     IF first + i - 1 <= Len(chars[c]) THEN chars[c][first + i - 1] ELSE Junk(c)]

\* The block with data written behind its first n characters.
Written(block, n, data) ==
  [i \in 1 .. Len(block) |->
     IF n < i /\ i <= n + Len(data) THEN data[i - n] ELSE block[i]]

\* The string's new length is stored, and the terminator behind it.
SetLength(c, n) ==
  /\ length' = [length EXCEPT ![c] = n]
  /\ chars' = [chars EXCEPT ![c] = Written(@, n, <<Junk(c)>>)]

Appending(c) == main[c] \in {"copy", "store"}
Erasing(c) == io[c] \in {"move", "cut"}

-----------------------------------------------------------------------------
(* main().                                                                 *)

MainGoes(c, from, to) == main[c] = from /\ main' = [main EXCEPT ![c] = to]

\* Start() fails: connect() refused at once. main() returns.
StartFails(c) ==
  /\ MainGoes(c, "start", "exit")
  /\ UNCHANGED <<ioVars, sendVars, textVars, histories, udtVars>>

\* Start() up to its five-second sleep: CreateSocket, and a connect() without an error.
StartConnects(c) ==
  /\ MainGoes(c, "start", "settle")
  /\ ConnectOk(c)
  /\ UNCHANGED <<ioVars, sendVars, textVars, histories>>

\* The sleep is over: the thread is started.
StartSpawns(c) ==
  /\ MainGoes(c, "settle", "push")
  /\ io' = [io EXCEPT ![c] = "boot"]
  /\ UNCHANGED <<half, udt_running, recved_str, sendVars, textVars, histories, udtVars>>

\* make_test_str; SendMsg: send_msg_buf_ += *msg reads the length first.
AppendReads(c) ==
  /\ MainGoes(c, "push", "copy")
  /\ made[c] < MaxMsgs
  /\ append_at' = [append_at EXCEPT ![c] = length[c]]
  /\ clash' = [clash EXCEPT ![c] = IF Erasing(c) THEN 1 ELSE @]
  /\ UNCHANGED <<ioVars, sendVars, chars, length, torn, made, frames, udtVars>>

\* The message fits the block and is copied behind the characters: the length gives the
\* place, as it was read or read again.
AppendCopies(c) ==
  /\ MainGoes(c, "copy", "store")
  /\ append_at[c] + MsgLen < Len(chars[c])
  /\ \E at \in {append_at[c], length[c]} :
       chars' = [chars EXCEPT ![c] = Written(@, at, Msg(c, made[c] + 1))]
  /\ UNCHANGED <<ioVars, sendVars, length, append_at, histories, udtVars>>

\* Mutant of Room: twice the capacity, whether it is enough or not.
RoomDoubled(needed, capacity) == 2 * capacity

\* std::string's growth: what is needed, but twice the capacity at least if it is more than
\* the capacity.
Room(needed, capacity) ==
  IF needed > capacity /\ needed < 2 * capacity THEN 2 * capacity ELSE needed

TooLong(c) == append_at[c] + MsgLen >= Len(chars[c])

\* It does not fit: a new block takes the place of the old one, which is freed, whoever
\* still reads it. Its size and the message's place go by the length as it is now.
AppendGrows(c) ==
  /\ MainGoes(c, "copy", "store")
  /\ TooLong(c)
  /\ LET text == Chars(c, 1, length[c]) \o Msg(c, made[c] + 1)
         block == [i \in 1 .. Room(Len(text), Len(chars[c]) - 1) + 1 |-> Junk(c)]
     IN chars' = [chars EXCEPT ![c] = Written(block, 0, text)]
  /\ freed' = [freed EXCEPT ![c] = IF io[c] \in {"point", "give"} THEN 1 ELSE @]
  /\ clash' = [clash EXCEPT ![c] = IF io[c] \in {"point", "give"} THEN 1 ELSE @]
  /\ torn' = [torn EXCEPT ![c] = IF length[c] < append_at[c] THEN 1 ELSE @]
  /\ UNCHANGED <<ioVars, send_size, send_len, length, append_at, made, frames, udtVars>>

\* Or the place goes by the length += had read, and an erase has made it less: the number of
\* characters behind that place wraps, and the process dies copying them.
AppendCrashes(c) ==
  /\ MainGoes(c, "copy", "exit")
  /\ TooLong(c) /\ length[c] < append_at[c]
  /\ io' = [io EXCEPT ![c] = "done"]
  /\ CloseSock(ClientSock(c))
  /\ UNCHANGED <<half, udt_running, recved_str, sendVars, textVars, histories>>

\* The new length and the terminator are stored; main() sleeps 50 ms.
AppendStores(c) ==
  /\ MainGoes(c, "store", "measure")
  /\ SetLength(c, append_at[c] + MsgLen)
  /\ made' = [made EXCEPT ![c] = @ + 1]
  /\ append_at' = [append_at EXCEPT ![c] = 0]
  /\ UNCHANGED <<ioVars, sendVars, torn, frames, clash, udtVars>>

\* Mutant of Measure: an if in place of the while.
MeasureOnce(c) ==
  /\ MainGoes(c, "measure", "push")
  /\ UNCHANGED <<ioVars, sendVars, textVars, histories, udtVars>>

\* SendMsgBufSize, and the test of the while loop on the value it returned.
Measure(c) ==
  /\ MainGoes(c, "measure", IF length[c] > BufLimit THEN "measure" ELSE "push")
  /\ UNCHANGED <<ioVars, sendVars, textVars, histories, udtVars>>

Main(c) ==
  \/ StartFails(c) \/ StartConnects(c) \/ StartSpawns(c)
  \/ AppendReads(c) \/ AppendCopies(c) \/ AppendGrows(c) \/ AppendCrashes(c)
  \/ AppendStores(c) \/ Measure(c)

-----------------------------------------------------------------------------
(* UDTClient::Run.                                                         *)

IoGoes(c, from, to) == io[c] = from /\ io' = [io EXCEPT ![c] = to]

RunBoots(c) ==
  /\ IoGoes(c, "boot", "top")
  /\ udt_running' = [udt_running EXCEPT ![c] = 1]
  /\ UNCHANGED <<main, half, recved_str, sendVars, textVars, histories, udtVars>>

\* while (udt_running_): tested once for both halves of the round.
LoopTests(c) ==
  /\ IoGoes(c, "top", IF udt_running[c] = 0 THEN "close" ELSE "send")
  /\ half' = [half EXCEPT ![c] = 1]
  /\ UNCHANGED <<main, udt_running, recved_str, sendVars, textVars, histories, udtVars>>

\* TrySendMsg returns: the string is empty.
SendSkips(c) ==
  /\ IoGoes(c, "send", "recv")
  /\ length[c] = 0
  /\ UNCHANGED <<main, half, udt_running, recved_str, sendVars, textVars, histories, udtVars>>

\* DoSendMsg: c_str() and size(), the arguments of UDT::send, are read one after the other,
\* in either order; the address first,
SendPoints(c) ==
  /\ \/ IoGoes(c, "send", "point") /\ length[c] > 0
     \/ IoGoes(c, "count", "give")
  /\ UNCHANGED <<main, half, udt_running, recved_str, sendVars, textVars, histories, udtVars>>

\* or the size.
SendCounts(c) ==
  /\ \/ IoGoes(c, "send", "count") /\ length[c] > 0
     \/ IoGoes(c, "point", "give")
  /\ send_size' = [send_size EXCEPT ![c] = length[c]]
  /\ UNCHANGED <<main, half, udt_running, recved_str, send_len, freed, textVars, histories,
                 udtVars>>

\* send is back, having taken k bytes: its arguments are gone.
SendReturns(c, k) ==
  /\ send_len' = [send_len EXCEPT ![c] = k]
  /\ send_size' = [send_size EXCEPT ![c] = 0]
  /\ freed' = [freed EXCEPT ![c] = 0]
  /\ UNCHANGED <<main, half, recved_str, textVars, histories>>

\* UDT::send took the first bytes, or, if += freed them meanwhile, perhaps something else
\* in their place; TrySendMsg goes on to erase as many.
SendTakesSome(c) ==
  /\ IoGoes(c, "give", "erase")
  /\ \E text \in {Chars(c, 1, send_size[c]), [i \in 1 .. send_size[c] |-> Junk(c)]} :
       /\ freed[c] = 0 => text = Chars(c, 1, send_size[c])
       /\ \E k \in 1 .. SndCap : SendTakes(ClientSock(c), text, k) /\ SendReturns(c, k)
  /\ UNCHANGED udt_running

\* EASYNCSND: DoSendMsg returns 0 and nothing is erased.
SendTakesNone(c) ==
  /\ IoGoes(c, "give", "recv")
  /\ SendmsgFull(ClientSock(c))
  /\ SendReturns(c, 0)
  /\ UNCHANGED udt_running

\* Any other error stops the loop, after the rest of this round.
SendFails(c) ==
  /\ IoGoes(c, "give", "recv")
  /\ SendmsgError(ClientSock(c))
  /\ SendReturns(c, 0)
  /\ udt_running' = [udt_running EXCEPT ![c] = 0]

\* send_msg_buf_.erase(0, send_len): the length is read,
EraseReads(c) ==
  /\ IoGoes(c, "erase", "move")
  /\ send_size' = [send_size EXCEPT ![c] = length[c]]
  /\ clash' = [clash EXCEPT ![c] = IF Appending(c) THEN 1 ELSE @]
  /\ UNCHANGED <<main, half, udt_running, recved_str, send_len, freed, textVars, torn, made,
                 frames, udtVars>>

\* what follows the erased part moves to the front (and the length may be read again),
EraseMoves(c) ==
  /\ IoGoes(c, "move", "cut")
  /\ chars' = [chars EXCEPT ![c] =
                 Written(@, 0, Chars(c, send_len[c] + 1, send_size[c]))]
  /\ \E n \in {send_size[c], length[c]} : send_size' = [send_size EXCEPT ![c] = n]
  /\ UNCHANGED <<main, half, udt_running, recved_str, send_len, freed, length, append_at,
                 histories, udtVars>>

\* and the new length and the terminator are stored.
EraseTo(c, n) ==
  /\ IoGoes(c, "cut", "recv")
  /\ SetLength(c, n)
  /\ send_size' = [send_size EXCEPT ![c] = 0]
  /\ send_len' = [send_len EXCEPT ![c] = 0]
  /\ UNCHANGED <<main, half, udt_running, recved_str, freed, append_at, histories, udtVars>>

\* Mutants of EraseStores: erase(send_len), which keeps the beginning instead of the rest;
\* and DoSendMsg and its caller both counting the bytes off.
EraseStoresRest(c) == EraseTo(c, send_len[c])
EraseStoresTwice(c) == EraseTo(c, send_size[c] - 2 * send_len[c])

EraseStores(c) == EraseTo(c, send_size[c] - send_len[c])

\* After a read: the second half of the round, or the sleep and the loop's head.
NextHalf(c) ==
  /\ IoGoes(c, "recv", IF half[c] = 1 THEN "send" ELSE "top")
  /\ half' = [half EXCEPT ![c] = 2]

\* recv_func cuts whole every test_str_size bytes and keeps the rest. The history of frames
\* stops at the first that is no message in its turn.
CutTo(c, whole, rest) ==
  /\ recved_str' = [recved_str EXCEPT ![c] = rest]
  /\ frames' = [frames EXCEPT ![c] =
       IF \A i \in 1 .. Len(@) : @[i] = Msg(c, i)
       THEN @ \o [i \in 1 .. Len(whole) \div MsgLen |->
                   SubSeq(whole, (i - 1) * MsgLen + 1, i * MsgLen)]
       ELSE @]

\* Mutant of Cut: the string is cleared, with the beginning of the next message in it.
CutClears(c, whole) == CutTo(c, whole, IF Len(whole) < MsgLen THEN whole ELSE <<>>)

Cut(c, whole) ==
  CutTo(c, whole, SubSeq(whole, (Len(whole) \div MsgLen) * MsgLen + 1, Len(whole)))

\* DoRecvMsg: one recv, and its bytes go to recv_callback_func_.
RecvSome(c) ==
  /\ NextHalf(c)
  /\ \E k \in 1 .. RcvCap :
       /\ RecvReturns(ClientSock(c), k)
       /\ Cut(c, recved_str[c] \o SubSeq(rcvBuf[ClientSock(c)], 1, k))
  /\ UNCHANGED <<main, udt_running, sendVars, textVars, torn, made, clash>>

\* EASYNCRCV, or the connection is not up yet.
RecvNothing(c) ==
  /\ NextHalf(c)
  /\ RecvmsgNothing(ClientSock(c)) \/ RecvmsgNoConn(ClientSock(c))
  /\ UNCHANGED <<main, udt_running, recved_str, sendVars, textVars, histories>>

\* ECONNLOST or EINVSOCK stops the loop.
RecvFails(c) ==
  /\ NextHalf(c)
  /\ RecvmsgLost(ClientSock(c))
  /\ udt_running' = [udt_running EXCEPT ![c] = 0]
  /\ UNCHANGED <<main, recved_str, sendVars, textVars, histories>>

RunCloses(c) ==
  /\ IoGoes(c, "close", "done")
  /\ CloseSock(ClientSock(c))
  /\ UNCHANGED <<main, half, udt_running, recved_str, sendVars, textVars, histories>>

Run(c) ==
  \/ RunBoots(c) \/ LoopTests(c) \/ RunCloses(c)
  \/ SendSkips(c) \/ SendPoints(c) \/ SendCounts(c)
  \/ SendTakesSome(c) \/ SendTakesNone(c) \/ SendFails(c)
  \/ EraseReads(c) \/ EraseMoves(c) \/ EraseStores(c)
  \/ RecvSome(c) \/ RecvNothing(c) \/ RecvFails(c)

ClientStep(c) == Main(c) \/ Run(c)

-----------------------------------------------------------------------------
(* What the client promises, whatever the other side does.                 *)

\* An append beside a send, or between two erases, does no harm: while no append overlapped
\* an erase or moved the string under a send, what main() made is what UDT took and then
\* the string, in order (SendMsg, TrySendMsg, DoSendMsg).
KeptUnlessClash ==
  \A c \in Conns :
    clash[c] = 0 /\ ~Erasing(c) /\ io[c] # "erase"
      => Made(c) = accepted[ClientSock(c)] \o SubSeq(chars[c], 1, length[c])

\* Whatever the two threads do to the length of the string, it stays within one message of
\* the limit, and erase never takes more than there is (main.cpp, the inner loop;
\* SendMsgBufSize, TrySendMsg).
LengthBounded ==
  \A c \in Conns :
    /\ length[c] <= BufLimit + MsgLen
    /\ io[c] = "cut" => send_len[c] <= send_size[c]

\* No thread stores a length, copies a message or gives UDT a size that reaches outside the
\* string's block, though each goes by lengths the other changes, with one exception: once
\* an append that needed a new block found the string shorter than it had read, so that the
\* block is too small for the length it stores (SendMsg, TrySendMsg, DoSendMsg).
StaysInBlock ==
  \A c \in Conns :
    torn[c] = 0 =>
      /\ length[c] < Len(chars[c])
      /\ main[c] = "store" => append_at[c] + MsgLen < Len(chars[c])
      /\ io[c] = "give" /\ freed[c] = 0 => send_size[c] < Len(chars[c])
      /\ Erasing(c) => send_size[c] < Len(chars[c])

\* "The client send 500 bytes data as one packet in every 50 milliseconds." (bench_mark.md):
\* when the string is empty and nobody is at it, UDT has taken all that main() made.
EveryByteSent ==
  \A c \in Conns :
    length[c] = 0 /\ ~Appending(c) /\ io[c] \in {"top", "recv"}
      => Len(accepted[ClientSock(c)]) >= Len(Made(c))
=============================================================================
