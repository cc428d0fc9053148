# A model of the UDT echo benchmark

`src/udt_bench_mark` holds two client/server pairs that measure the round trip of small
packets over UDT: one over message sockets (`udt_dgram_*`, SOCK_DGRAM), one over byte
streams (`udt_stream_*`, SOCK_STREAM). A client makes a message every 50 ms, the server
sends back what it receives, and the client's callback prints how long that took. This
directory models what the programs do with the messages on the way: the threads, the
queues between them, the non-blocking sockets, and what happens when one of them fails.

## 1. Inventory

| component | state | operations | works with |
|---|---|---|---|
| `threadsafe_queue.hpp` | `mut`, `data_queue`, `data_cond` | push, wait_and_pop, try_pop, grab_all, size, empty | client's main thread and I/O thread |
| datagram client (`UDTClient`, `main`) | `send_msg_queue_`, `send_msg_buff_`, `udt_running_`, the socket | Start, SendMsg, SendMsgQueueSize, Run with TryGrabMsg / TrySendMsg / TryRecvMsg | the queue, UDT, the callback |
| datagram server (`UDTServer`, `main`) | `udt_running_` (one int for all threads), the listening socket, one `msg_queue_need_send` per worker | Run, WorkThread with TryRecvMsg / TrySendMsg | UDT; workers and accept loop through `udt_running_` |
| stream server | the listening socket, one `msg_buf_need_send` string per worker | Run, WorkThread with TryRecvMsg / TrySendMsg | UDT |
| stream client | `send_msg_buf_`, a string both threads use without a lock; `recved_str`, the unsplit input | Start, SendMsg, Run, recv_func | UDT |
| latency statistics | windows of ten intervals, totals in `int` | recv_func (datagram), handle_one_msg (stream) | the I/O thread's callback |
| `test_util` | none | test_str, make_test_str, iclock64 | main(), the statistics |
| UDT 4.11 (`install_pack`) | sockets, send and receive buffers | connect, accept, send(msg), recv(msg), close | external |

Where it is hard:

* **Interleavings.** Three to five kinds of thread: each client's main and I/O thread, the
  server's accept loop, its detached workers, and the library's own. The client's two
  threads meet in the queue, the server's in one unprotected flag, the stream client's in
  an unprotected string.
* **Full buffers.** Every send may find no room (EASYNCSND) and is tried again a round
  later; a stream send may take a part.
* **Failures.** Either side of a connection may be lost at any time; the two sides learn
  it at different times and by different calls; arrived messages can still be read.
* **Order at start and end.** `connect` is asynchronous and a fixed sleep stands for its
  completion; `main` returning ends a process that still has workers at work.

What makes each component correct: the queue is a FIFO whose methods look atomic and that
wakes its sleepers; a client loses, doubles or reorders nothing between `main` and UDT and
bounds what it holds; a server owes on each connection exactly what it read and has not
sent; together, what a callback sees is what its client made, in order, as long as the
connection lives; what one connection suffers is no concern of another.
`PROJECT.json` lists the places in the code where each of these could go wrong.

## 2. Modules

| module | models | kind |
|---|---|---|
| `UdtDgram` | UDT as the datagram programs see it | external, component |
| `DgramClient` | `udt_dgram_client` | component |
| `DgramServer` | `udt_dgram_server` | component |
| `EchoService` | what the datagram pair promises | abstract specification |
| `DgramEcho` | clients, server and library together; fairness; end-to-end properties | composition |
| `MCDgramEcho` | symmetry and a constraint for TLC | instance |
| `FifoQueue` | what the queue promises | abstract specification |
| `ThreadsafeQueue` | `threadsafe_queue.hpp`, step by step under its mutex | component |
| `UdtStream` | UDT's byte streams: partial send and recv | external, component |
| `StreamServer` | `udt_stream_server` | component |
| `StreamService` | the stream server with clients that do what they like | composition |
| `StreamClient` | `udt_stream_client`, its shared string step by step | component |
| `StreamEcho` | stream clients, server and library together | composition |
| `MCStreamEcho` | a constraint for TLC | instance |
| `TestStr` | `test_util.cpp`, `make_test_str`, `get_time_from_msg` | pure functions |
| `RecvStats` | the figures both clients print | component |
| `SequenceLemmas`, `DgramEchoProofs`, `ThreadsafeQueueProofs`, `StreamServerProofs`, `StreamServiceProofs`, `StreamEchoProofs`, `TestStrProofs`, `RecvStatsProofs` | | proofs |

### The library: `UdtDgram`, `UdtStream`

External: its definitions are the outcomes the calls have *at these call sites*
(non-blocking, `sendmsg(..., -1, true)`). A socket is `none`, `connecting`, `up`, `broken`
(this side knows the connection is lost, arrived data can be read) or `closed`. The two
sides of one connection have their own state, so one may be `up` while the other is gone.
`sendmsg` takes a message whole or says EASYNCSND; `send` takes as many bytes as there is
room for. Packets lost on the wire are repaired below this interface and do not appear:
`Transmit` moves the oldest message from one buffer to the other. `Break` may happen to
any live side at any time; `Collect` is the library's garbage collector.
There is no clock: the handshake may be over before, during or after any sleep in the
programs, or never. UDT 4.11 itself sends requests for three seconds and then gives the
attempt up without another state or error: a client that has waited its five seconds finds
the socket not connected, and stays with it. That is the case in which the handshake never
comes; a handshake that completes after the sleep is more than this library does.

### `DgramClient`

`main` and `io` are the program counters of the two threads. `main` is in `start`
(CreateSocket, connect), `settle` (the five-second sleep), `push` (make and push a
message), `measure` (the loop on SendMsgQueueSize) or has left. `io` follows Run: `top`
(test the flag, grab the queue if the buffer is empty), `send` (one `sendmsg` per step),
`recv` (one `recvmsg` per step), `close`, `done`. One step is one call that another thread
or the library could interleave with. `send_msg_queue` is the thread-safe queue, whose
methods are one step here; that they may be is what `ThreadsafeQueue` shows
(`ImplementsFifo`). Messages are `<<client, number>>`; `made` and `delivered` are
histories. The options of the socket, what is printed, and the text of a message are left
out. A message always fits the send buffer (1460 bytes by default in 93440).

### `DgramServer`

`run` follows UDTServer::Run and `main`; the test of the flag (`TestRunning`) and the
accept after it are two steps, and CreateListenSocket may fail without Run noticing.
`srv_running` is the shared `udt_running_`. `worker[c]` alternates between `recv` and
`send`. A worker never ends by itself; `ProcessExit` (main returns) ends all of them and
closes their sockets.

### `DgramEcho`

Puts the processes together; a step is a step of one thread or of the library. Nothing is
added to what the programs do.

### `ThreadsafeQueue`

Any number of threads call any method in any order. A call is: take the mutex, the body in
as many steps as it has effects, release it. `Test` falling asleep releases the mutex in
the same step, as condition variables do; `NotifyOne` wakes one sleeper or nobody;
`WakeSpuriously` wakes one for no reason; `Throws` is `std::bad_alloc` from copying or
from `make_shared`. The two overloads of each pop differ only in how the copy is returned
and are one method here; `size` and `empty` are one. The mutex is a step of its own, so
mutual exclusion is a result and not an assumption.

### `StreamServer`, `StreamService`

Elements of the buffers are bytes. A worker's round is: read until recv has nothing (any
number of `WorkerRecv`), then one send of the whole string: `WorkerSendAll` (taken whole,
erased), `WorkerSendPart` (taken in part: DoSendMsg returns 0, nothing is erased) or
`WorkerSendNone` (empty, EASYNCSND or any error). Since bytes are sent more than once, the
histories record a byte when it passes for the first time, which keeps the state finite
while the repeats go on in the buffers. The clients of `StreamService` connect, send a
byte, and read whenever they like; they stand for every client there could be.

### `StreamClient`, `StreamEcho`

`main` and `io` are the two program counters again; `half` tells which of the two sends
and two reads of a round of Run is next. Between the threads is `send_msg_buf_`, a
`std::string` without a lock. Its state is what the two threads can see of it: `length`,
and `chars`, the block with its capacity and the terminator (a character of no message is
`Junk`). What `+=` and `erase` do is split where the other thread can come in between:

* `+=` reads the length (`AppendReads`), copies the message behind it, either into the
  block (`AppendCopies`) or into a new block, the old one being freed (`AppendGrows`), and
  stores the sum and a terminator (`AppendStores`). How large the new block is (`Room`)
  goes by the length as it is *now*: what that and the message need, and twice the old
  capacity at least, but the latter only if the need is more than the old capacity. After an
  erase in between it may be less than that, and then the block has no room for the sum
  `AppendStores` goes by. Or the copy takes the length it had read as the place to insert
  at, and the number of characters behind that place, a difference below zero, wraps: the
  process dies (`AppendCrashes`);
* the send reads the address (`SendPoints`) and the size (`SendCounts`), in either order,
  and then runs (`SendTakesSome`, `SendTakesNone`, `SendFails`); if an append freed the
  block after the address was read, what it is given is either the old characters or junk;
* `erase` reads the length (`EraseReads`), moves the rest to the front (`EraseMoves`), and
  stores the difference and a terminator (`EraseStores`).

The string is the one libstdc++ has had since GCC 5; the copy-on-write string before it is
not covered. Its 15 characters in place of a first block are left out: the block starts
empty and every growth is by `Room`. Where the headers read a length a second time, the
model lets either value be used. Copying characters is one step, and so is a
store of length and terminator; the race on single characters is coarser here than in the
machine, so the runs show what the race can do at this grain and not all it can do. A store
outside the block is seen (`StaysInBlock`); what it would overwrite there is not followed.

`recv_func` is part of `RecvSome`, since it runs on the same thread: `Cut` splits what has
come into pieces of `MsgLen` and keeps the rest. Histories: `made`, how many messages were
appended; `frames`, the pieces handed to handle_one_msg, up to the first wrong one;
`clash`, set when an append and an erase overlap or an append frees the block a send is
reading; `torn`, set when an append that needs a new block finds the string shorter than it
had read. `StreamEcho` adds `repeated`, set when the server sends bytes that it keeps, the
flaw `StreamRepeats` shows. The properties about bytes say what holds without a `clash` and, where the server
matters, without a repeat.

### `TestStr`, `RecvStats`

A text is a sequence of characters; digits are their values, the five other characters are
numbers from 10 on. `test_str` (four identical copies in the repository) and
`make_test_str` are operators, with recursive functions for the loops; the subtraction that wraps for a size below the clock's
digits is `Makes`: the string of nearly 2^64 characters cannot be allocated, and main never
gets such a message. `RecvStats` makes messages and takes them back in order, with a clock
that may be set back, and computes the figures as the code does: a `uint64_t` difference
that becomes an `int`, windows of ten, sums in `int`, a division of an `int` by an `int` in
one average and by a `size_t` in the other. Widths are parameters, so that small numbers
overflow. Signed overflow is undefined in C++; what is modelled is the wrapping sum that
the compilers produce for these loops. handle_one_msg of the stream client and recv_func
of the datagram client compute the same. The rate in KB/s is printed and never read; only
when it is printed, and what that resets, is in the model. `SizesAssumption` keeps sizes
below ten million characters, where the number in a group gets an eighth digit.

## 3. Runs

All constants are small; `CHECK_DEADLOCK FALSE` everywhere because the systems do stop: a
client makes `MaxMsgs` messages and its main thread then waits, a server process ends,
queue threads make `MaxCalls` calls, and consumers may sleep for ever on an empty queue.

| run | instance | asks |
|---|---|---|
| `EchoOneClient` | 1 client, 7 messages, limit 2 as in the code, buffers of 1 | `TypeOK`, `SendPathConserves`, `BacklogBounded`, `EchoPathConserves`, `StalledForGood`, `ImplementsEcho` |
| `EchoTwoClients` | 2 clients, 2 messages each | `EchoesInOrder`, `StopsOnlyAfterFailure` |
| `EchoLiveness` | 1 client, 6 messages, limit 1, buffers of 1, fair | `EchoedUnlessLost`, `LossStopsServer`, `LossStopsClient` |
| `EchoAbandoned` | 2 clients | violates `NoReplyAbandoned` |
| `EchoLateConnect` | 1 client | violates `SleepCoversConnect` |
| `QueueAllMethods` | 3 threads, 2 calls each, a spurious wakeup, a throw, fair | `TypeOK`, `MutualExclusion`, `Fifo`, `NoLostWakeup`, `SleeperServed`, `ImplementsFifo` |
| `StreamSafety` | 1 client, 5 bytes, send buffer 2, receive buffer 3, recv of 2, fair | `TypeOK`, `OwesTheRest`, `RepliesHaveNoGap`, `OutlivesItsClients`, `QuickNetworkEchoes` |
| `StreamRepeats` | 1 client, 3 bytes | violates `ReturnsActualSize` |
| `StreamStuck` | 1 client, 4 bytes, fair, no assumption on the network's speed | violates `ShortStringsComeBack` |
| `StreamPair` | 1 client, 3 messages of 2 bytes, limit 2, send buffer 3, receive buffer 2, recv of 2 | `TypeOK`, `KeptUnlessClash`, `LengthBounded`, `StaysInBlock`, `FramesAreMessages` |
| `StreamRace` | the same | violates `EveryByteSent` |
| `Latencies` | sizes 1, 2, 3, 12 and 47 with a clock of 2 digits, 4 messages, windows of 2, `int` of 4 bits, words of 6 | `TypeOK`, `MessageCarriesItsClock`, `PaddingTellsItsPlace`, `AveragesRight` |

Why the bounds are enough. Buffers of one message make EASYNCSND and a stopped peer as
frequent as they can be. Seven messages with the code's limit of 2 fill queue (3), client
buffer (3) and still leave one for the main thread to push, so the bound of
`BacklogBounded` is reached in both places. Two clients are what it takes for one
connection to harm another; the results that need more clients are proved. Of the
two-client runs, the constraint `OneLossAtATime` drops states in which two sides are in
the state `broken` at once (each may still break after the other was collected). Two messages
of each client are what it takes to put the replies of one connection in the wrong order; in
`EchoTwoClients` they meet on two healthy connections, and losses are followed up while each
client has made at most one (`LossBeforeSecond`). The proofs of
`EchoesInOrder` and `StopsOnlyAfterFailure` have no constraint. Six messages with a limit of 1
are enough in `EchoLiveness` for both directions to be full at once: all four buffers of the
connection, the client's buffer and the worker's queue hold a message while both sides are
up, and the echo must still come. There a connection is given up only while its client has
made at most one message, or when it has nothing left to send and waits for at most two
replies (`EarlyOrLateLoss`): in the one case a send finds out, in the other only a read can.
That leaves out steps of `Break`, which no fairness asks for, and none of a thread. Symmetry among
clients is used in `EchoTwoClients` only, which has invariants only. For the queue, three
threads are the smallest number with two sleepers and a push, or with a sleeper, a second
consumer and a push; a notification, a spurious wakeup and a throwing pop can all meet.
Five bytes, a send buffer of two and a recv of two give every case of a partial send: none,
part and whole taken, with and without repeats in the buffer.

For the stream pair, a send buffer of three and messages of two give a send that takes one
message and a half, and a receive of two after a send of three gives a piece that begins in
one read and ends in the next; with three messages and a limit of two the string grows twice,
is past the limit, and is erased while it grows. The constraint `RightSoFar` leaves out what follows a repeat, and
what follows a clash once the server has accepted the connection: `KeptUnlessClash` and
`FramesAreMessages` say nothing about the bytes there, and the two properties that do,
`LengthBounded` and `StaysInBlock`, concern the client, which after a clash still runs
against the library's buffers. The proofs have no constraint. The sizes of
`Latencies` are: less than the clock's digits, as many, one more (an underscore and nothing
else), a padding below 20 characters, and one of 45 with three groups and a tail.

Fairness (`DgramEcho!Fairness`, `StreamService!Fairness`, `ThreadsafeQueue!FairSpec`) is
weak fairness of each thread: every loop of the programs sleeps a bounded time
(1 ms or 50 ms) and never blocks, and the operating system runs every thread. Of the
library it is assumed that a pending handshake and its answer arrive and that data moves
on a connection both of whose sides are up, which is what UDT's retransmission is for.
Nothing is assumed about losses of connections: they may or may not come. For the queue,
each thread inside a method is scheduled; calls are bounded, so weak fairness of the step
that takes the mutex suffices. `QuickNetworkEchoes` makes one assumption more, that from
some time on the network has emptied the send buffer whenever the worker sends (`Drained`),
and `StreamStuck` shows what happens without it.

## 4. What the runs show about the code

* On both paths of the datagram programs nothing is lost, doubled or reordered inside the
  programs, and the pair implements `EchoService`, which may stop but never answers
  wrongly.
* **A lost connection takes the datagram server down** (`EchoAbandoned`,
  `LossStopsServer`). DoSendOneMsg clears `udt_running_` for any error but EASYNCSND
  (udt_server.cpp:249); it is the accept loop that tests it. Run returns, main returns, and
  healthy connections lose their replies, although bench_mark.md says the server sends the
  data back after receiving it. The stream server has no such flag and outlives its
  clients (`OutlivesItsClients`).
* **A client whose I/O thread ended stays for ever** (`StalledForGood`): main waits for a
  queue that nobody empties, printing "B". It neither exits nor reconnects.
* **The five-second sleep does not cover the connect** (`EchoLateConnect`): the thread is
  started whatever became of the handshake, and the first send then ends it.
* **The stream server repeats bytes** (`StreamRepeats`): DoSendMsg returns 0 for a partial
  send although its comment promises the size that was sent. The reply stream then has
  repeats, but no gap (`RepliesHaveNoGap`).
* **The repeats can keep the rest from coming back** (`StreamStuck`): they fill the send
  buffer, so that the whole string never fits; if the network takes a round's bytes within
  a round this does not happen while the string fits the buffer (`QuickNetworkEchoes`).
* **The stream client's string is not safe** (`StreamRace`): an append that begins while an
  erase is under way is undone when erase stores the length it computed before, and the whole
  message vanishes. The other order brings sent bytes back. What survives any
  interleaving at this grain is a bound: the length stays within one message of the limit
  (`LengthBounded`).
* **It can write outside its block, or die.** Say the block has room for 2, the string holds
  2, and `+=` reads that length; the I/O thread then erases both, and `+=`, which saw that a
  message of 2 does not fit, allocates for the length as it is now: 0 and 2, not more than
  the old capacity, so exactly 2. It stores the length 4, and the terminator lies behind the
  block. Or, if it inserts where the string used to end, 0 - 2 characters are to be moved.
  `StaysInBlock` says that there is no other way out of the block than such an append
  (`torn`): without that exception TLC reports it violated by this trace. Nothing that
  happens before it reaches outside, clashes included, because a stored sum is one the block
  was made or measured for, and a size given to a send is never more than the length.
* **Without a clash, nothing is lost** (`KeptUnlessClash`): an append during a send, or
  between two erases, is harmless, though the string may have grown between the send and
  the erase. If the server repeats nothing either, the pieces recv_func cuts off are the
  messages, each in its turn (`FramesAreMessages`); one repeated byte shifts all later
  pieces, and their clocks are read from the middle of a message.
* **The figures** (`Latencies`): right while the sums fit an `int` and, for the
  average over all, while the sum is not negative; past that they are numbers that mean
  nothing. All intervals of a run are kept and summed again for every tenth message. A size equal to the clock's digits gives
  messages without an underscore, whose clock is read as 0; with a smaller one the client makes no
  message at all, as test_str is asked for nearly 2^64 characters and appends until memory is out.
  The example of test_util.h:13 for length 45 shows a string of 35 characters; the code
  makes 45, with a group `(40_56789)` before the tail.
* **One character too many** (theorems `ChunkOverruns`, `TestStrOverruns`): asked for ten
  million characters, test_str makes ten million and one. A round is taken when ten more
  characters fit, but its number has eight digits by then and the round appends eleven. A
  benchmark hardly uses such messages, and no run could have one; it is proved that nothing
  of the kind happens below.
* The queue is correct for any mix of callers, with one reservation: a pop that throws has
  used up its notification, and another sleeper may stay asleep beside an item. Both
  wakeup properties say "unless a call has thrown". Items are copied pointers in this
  program and nothing calls the waiting pops, so this concerns the header, not the
  benchmark.

## 5. Proofs

Checked by TLAPS for all values of the constants (buffers, limits and messages of any
size, any number of clients or threads), from the assumptions `BufferAssumption`,
`ClientAssumption` (one in each client), `RecvAssumption`, `BytesAssumption`,
`QueueAssumption`, `DigitsAssumption` (a clock of 1 to 20 digits, as many as a `uint64_t`
has; 13 today), `StatsAssumption` and `SizesAssumption`.

*Datagram pair.* `TypeCorrect` is the type invariant. The heart is `NothingLost`: the
conjunction `PathsConserve` of four equations that together lay out a message's whole way,
`made = accepted \o buffer \o queue` at the client, `accepted = taken \o received \o
unsent` in the library in each direction, `taken = accepted \o queue` at the worker, and
`delivered = taken` at the callback. It is inductive with `TypeOK`: each action moves one
message from the head of one place to the end of the next, or a whole queue to an empty
place (`MoveHead` and `AppendLast` in `SequenceLemmas`), and touches no other place
(`MovesOrNot`). None of the equations is inductive alone: a client's or worker's send
changes `accepted`, which two of them share. `EchoSafe` follows by chaining the equations round
the loop. `EchoRefined` (refinement of `EchoService`) uses the same invariant for the one
step that answers: the message a read returns is the first one unanswered. The library's
equation is proved of its model, not of UDT.
`BacklogSafe` needs a strengthening (`BacklogInv`): when main is about to push, the
queue is within the limit. `StallIsForGood` says of each step by itself that it leaves a
stalled client's main(), its I/O thread, its queue and its count of messages as they are:
past the limit main() can only measure, and nobody else takes from the queue. `StopSafe` needs that a worker exists only on a connection whose
server side was set up, and that the flag is 0 only after one of those broke or before the
loop starts.

*Queue.* `QueueInvariant`: types, mutual exclusion, that a thread between `front()` and
`pop()` holds a copy of an item still in front, and that only `wait_and_pop` sleeps. From
it `QueueFifo`, `QueueRefined` (each method is one step of `FifoQueue` or invisible) and
`QueueWakes`, which counts threads on their way: a push adds an item and a thread about to
notify, a notification trades that thread for a woken one, a pop takes away one of each.

*Stream server.* Byte `<<c, n>>` is the n-th of client c, so that "in order" is arithmetic:
`Numbered(s, c, from)` says that s holds the bytes after the first `from`. `Pipe` states it
for the four places of one direction (taken, received, unsent, accepted), with the equation
of their lengths; `Debt` states it for a worker: what it keeps are the last bytes it read,
what it sent are the first, and the two reach each other. Neither is inductive without the
other: a read moves bytes from the pipe to the debt, and that a send's record grows by what is new only
(`RecordedRun`) needs the numbers of both. `WorkerOwesTheRest` and `NoGapInReplies` follow.
`ServerOutlivesItsClients` needs only that the loop runs as long as there is a listener
and that workers come from the listener (`LoopInv`).

*Stream pair.* Three invariants, each resting on the one before. `Sizes` relates the lengths
the two threads have read, the length stored and the block, in every combination of their
program counters: that is what `LengthStaysBounded` and `StringStaysInBlock` need, and it
holds through clashes, since a stored sum uses a length of at most the limit and a stored
difference one of at most the string's. Its part about the block (`Fits`) ends with the first
append that is `torn`; until then such an append finds the length it had read, and the new
block (`RoomIsEnough`) holds the sum. `ForthInvariant` adds, for a client without a clash,
`Content`: the characters up to the length are the bytes after those UDT took (before an
erase, after those it took earlier), and a message copied but not yet counted stands right behind.
The hard step is an append that runs between the send and the erase. With `Pipe` and `Debt` it
gives `NothingLostUnlessClash`. `BackInvariant` adds, for a connection without repeats
either, the pipe of the way back, the exact length of what the worker owes, and where
recv_func stands in the stream; `PiecesAreWholeMessages` follows, and its bound on the number of pieces
from the chain of lengths round the loop.

*Texts.* The loops of test_str, of atoll and of `operator<<` are recursive functions, and
what they compute is proved for all inputs. The induction theorems of the library cannot be
used, because they take an operator as a parameter; `NatSetInduction` states induction for a
*set* of numbers instead, from the well-foundedness of `<` and the first-order `WFMin`, and
`RunExists` and `RunUnique` define a function by its first value and its step. From them:
`NumberOfNumeral` (atoll reads back the digits `operator<<` wrote, whose quotients by powers
of ten are settled by `DivDiv`), `ChunkTells` and `GrownIs` (a round of the loop appends ten
characters and keeps `Tells`; the loop stops when no further round fits), and `TestStrIs`.
`ChunkOverruns` and `TestStrOverruns` show that the limit on the size is not one of the
proof: it is exactly where the code stops doing this.

*Figures.* The properties of `RecvStats` are not inductive: nothing in `AveragesRight`
says what the two vectors hold. The invariant `Inv` does, in four parts. `Steady`: sizes
and clocks stay in their sets. `FlightInv`: the messages on their way are those made at
`stamps`, one by one (`Mapped`), so that each is what `MessageIs` says. `CountInv`: every
interval is its latency cut to an `int`, if messages carry clocks at all. `WindowInv`: the
intervals after the last whole window are in `recv_package_interval10_`, and the line
printed is the one of that window and of all before it. `ClocksCarried` and `PaddingTells`
follow from the second part, `Typed` and `Averages` from all. The step in `Averages` that
a test would hardly reach is `SumsAgree`: a sum of `int`s that wraps on the way is the true
sum cut to an `int`, so it is right whenever the true sum fits.

*Only model-checked:* the liveness properties (`EchoedUnlessLost`, `LossStopsServer`,
`LossStopsClient`, `SleeperServed`, `QuickNetworkEchoes`), because TLAPS does not handle
fairness and ENABLED. Every other property of a passing run is a theorem.

## 6. Not modelled

* The build files, logs and documents. Socket options, output, command lines.
* Of the queue, its copy constructor and `grab_all2`, which nobody calls.
* UDT's protocol below the sockets, and messages of a size UDT refuses.
* The value of the printed rate, the time of day in front of a line, and how long anything
  takes; only the order of events is in the models.
* A race on one character of the shared string, and a crash from reading freed memory:
  both are undefined, and no choice of a next state would be faithful to every build.
* Liveness of the stream client: after a clash it may lose what it owes, and without one its
  loop is the datagram client's.
* `udt_running_` of each program is a plain int used by several threads; its accesses are
  taken as atomic and in program order, which is what the compilers do for an aligned int
  read once per call of accept or of a socket.

What could come next: liveness of the stream pair on a network that keeps up, and messages
larger than UDT's send buffer, which end a datagram client at its first send.
