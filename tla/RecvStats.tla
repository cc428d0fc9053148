----------------------------- MODULE RecvStats -----------------------------
(***************************************************************************)
(* The figures a client prints: main() makes messages with the clock in     *)
(* them, and recv_func (in the stream client handle_one_msg) takes the      *)
(* latency from each that comes back and prints maximum and averages after  *)
(* every tenth. What is between the two, the echo, keeps the order.         *)
(*                                                                         *)
(* An int has IntBits bits and a size_t or uint64_t WordBits. The sums in   *)
(* int wrap when they overflow, as the compiled loops do.                   *)
(***************************************************************************)
EXTENDS TestStr

CONSTANTS
  Sizes,         \* the values of test_str_size to start with
  Clocks,        \* what iclock64() may return: it is set, too, and may step back
  IntBits, WordBits,
  Window,        \* 10 in the code
  RefreshAfter,  \* 10 * 1000 in the code
  MaxMade,       \* bound: messages made
  MaxFlight      \* bound: messages on their way

ASSUME StatsAssumption ==
  /\ Clocks \subseteq Power(10, ClockDigits - 1) .. Power(10, ClockDigits) - 1
  /\ Sizes \subseteq Nat
  /\ {IntBits, WordBits, Window, RefreshAfter, MaxMade, MaxFlight} \subseteq Nat \ {0}
  /\ IntBits < WordBits

\* test_str numbers its chunks of ten characters in the chunk: with eight digits the number
\* leaves no room for the parentheses, and the text gets longer than asked for (theorem
\* TestStrOverruns).
ASSUME SizesAssumption == \A size \in Sizes : size - ClockDigits < Power(10, 7)

VARIABLES
  test_str_size,
  clock,                       \* what iclock64() returns now
  flight,                      \* messages made and not yet back
  recv_package_interval_,
  recv_package_interval10_,
  static_recved_bytes,
  static_last_refresh_time,
  printed,                     \* the last line of figures, and of how many messages
  stamps,                      \* history: the clocks the messages of flight were made at
  latencies                    \* history: what each message back really took

vars == <<test_str_size, clock, flight, recv_package_interval_, recv_package_interval10_,
          static_recved_bytes, static_last_refresh_time, printed, stamps, latencies>>

MaxInt == Power(2, IntBits - 1) - 1

\* Conversions to int and to size_t, int division, and the loops that sum an int.
AsInt(n) == ((n + MaxInt + 1) % Power(2, IntBits)) - (MaxInt + 1)
AsWord(n) == n % Power(2, WordBits)
Quotient(a, b) == IF a >= 0 THEN a \div b ELSE -((-a) \div b)
IntSum(s) ==
  LET sum[i \in 0 .. Len(s)] == IF i = 0 THEN 0 ELSE AsInt(sum[i - 1] + s[i])
  IN sum[Len(s)]

Ints == -MaxInt - 1 .. MaxInt

TypeOK ==
  /\ test_str_size \in Sizes
  /\ clock \in Clocks
  /\ Len(flight) <= MaxFlight
  /\ recv_package_interval_ \in Seq(Ints)
  /\ recv_package_interval10_ \in Seq(Ints)
  /\ Len(recv_package_interval10_) < Window
  /\ static_recved_bytes \in 0 .. MaxMade * test_str_size
  /\ static_last_refresh_time \in Clocks \cup {0}
  /\ printed \in [count : Nat, max : Ints, average10 : Ints, average_total : Ints]

Init ==
  /\ test_str_size \in Sizes
  /\ clock \in Clocks
  /\ flight = <<>>
  /\ recv_package_interval_ = <<>>
  /\ recv_package_interval10_ = <<>>
  /\ static_recved_bytes = 0
  /\ static_last_refresh_time = 0
  /\ printed = [count |-> 0, max |-> 0, average10 |-> 0, average_total |-> 0]
  /\ stamps = <<>>
  /\ latencies = <<>>

\* Time passes, or the system's clock is set.
ClockMoves ==
  /\ clock' \in Clocks \ {clock}
  /\ UNCHANGED <<test_str_size, flight, recv_package_interval_, recv_package_interval10_,
                 static_recved_bytes, static_last_refresh_time, printed, stamps, latencies>>

\* main(): make_test_str and SendMsg.
Make ==
  /\ Makes(test_str_size)
  /\ Len(latencies) + Len(flight) < MaxMade
  /\ Len(flight) < MaxFlight
  /\ flight' = Append(flight, make_test_str(clock, test_str_size))
  /\ stamps' = Append(stamps, clock)
  /\ UNCHANGED <<test_str_size, clock, recv_package_interval_, recv_package_interval10_,
                 static_recved_bytes, static_last_refresh_time, printed, latencies>>

\* The line after a window's last message.
Line(count, ten, total) ==
  [count |-> count,
   max |-> CHOOSE m \in ToSet(ten) : \A x \in ToSet(ten) : x <= m,
   average10 |-> Quotient(IntSum(ten), Window),
   average_total |-> AsInt(AsWord(total) \div count)]

\* Mutant of FiguresOf: the window's sum stands for that of all.
FiguresOfWindow(all, ten) == Line(Len(all), ten, IntSum(ten))

FiguresOf(all, ten) == Line(Len(all), ten, IntSum(all))

\* Mutant of PrintFigures: the window is not cleared.
PrintFiguresKeeps(all, ten, bytes) ==
  /\ printed' = FiguresOf(all, ten)
  /\ recv_package_interval10_' = ten
  /\ static_recved_bytes' = bytes
  /\ UNCHANGED static_last_refresh_time

\* std::cout << ... << std::endl, and the KB/s with it when the last are long enough ago.
PrintFigures(all, ten, bytes) ==
  /\ printed' = FiguresOf(all, ten)
  /\ recv_package_interval10_' = <<>>
  /\ IF AsWord(clock - static_last_refresh_time) > RefreshAfter
     THEN static_last_refresh_time' = clock /\ static_recved_bytes' = 0
     ELSE static_recved_bytes' = bytes /\ UNCHANGED static_last_refresh_time

\* recv_func. The counter static_good_recv_count is the length of recv_package_interval_.
recv_func ==
  /\ flight # <<>>
  /\ LET msg == Head(flight)
         interval == AsInt(clock - get_time_from_msg(msg))
         all == Append(recv_package_interval_, interval)
         ten == Append(recv_package_interval10_, interval)
         bytes == static_recved_bytes + Len(msg)
     IN /\ recv_package_interval_' = all
        /\ IF Len(all) % Window = 0
           THEN PrintFigures(all, ten, bytes)
           ELSE /\ recv_package_interval10_' = ten
                /\ static_recved_bytes' = bytes
                /\ UNCHANGED <<static_last_refresh_time, printed>>
  /\ flight' = Tail(flight)
  /\ stamps' = Tail(stamps)
  /\ latencies' = Append(latencies, clock - Head(stamps))
  /\ UNCHANGED <<test_str_size, clock>>

Next == ClockMoves \/ Make \/ recv_func

Spec == Init /\ [][Next]_vars

-----------------------------------------------------------------------------

\* Every message has the size asked for and, if that is more than the clock's digits, gives
\* back the clock it was made at (make_test_str, get_time_from_msg).
MessageCarriesItsClock ==
  \A i \in 1 .. Len(flight) :
    /\ Len(flight[i]) = test_str_size
    /\ test_str_size > ClockDigits => get_time_from_msg(flight[i]) = stamps[i]

\* The padding tells where it stands: a digit in it is the last digit of its position, and
\* the number in a parenthesis is the position of the one that closes it (test_str).
PaddingTellsItsPlace ==
  \A i \in 1 .. Len(flight) :
    LET text == SubSeq(flight[i], ClockDigits + 1, Len(flight[i]))
    IN DigitsTell(text) /\ NumbersTell(text)

TrueSum(s) ==
  LET sum[i \in 0 .. Len(s)] == IF i = 0 THEN 0 ELSE sum[i - 1] + s[i]
  IN sum[Len(s)]

\* The figures are those of the messages that came back: the maximum and the average of the
\* last window while its sum fits an int, and the average of all while their sum does
\* and is not negative, whatever the clock did meanwhile (recv_func).
AveragesRight ==
  test_str_size > ClockDigits /\ printed.count > 0 =>
    LET all == SubSeq(latencies, 1, printed.count)
        ten == SubSeq(all, printed.count - Window + 1, printed.count)
    IN ToSet(all) \subseteq Ints =>
         /\ printed.max \in ToSet(ten) /\ \A x \in ToSet(ten) : x <= printed.max
         /\ TrueSum(ten) \in Ints => printed.average10 = Quotient(TrueSum(ten), Window)
         /\ TrueSum(all) \in 0 .. MaxInt =>
              printed.average_total = TrueSum(all) \div printed.count
=============================================================================
