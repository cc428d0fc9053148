------------------------------ MODULE TestStr ------------------------------
(***************************************************************************)
(* The text of a message: test_util.cpp's test_str, make_test_str and       *)
(* get_time_from_msg of the clients. A text is a sequence of characters; a  *)
(* digit is its value.                                                      *)
(***************************************************************************)
EXTENDS Integers, SequencesExt

CONSTANT ClockDigits   \* digits of iclock64() (13 since 2001)

MaxDigits == 20        \* digits of the largest uint64_t

ASSUME DigitsAssumption == ClockDigits \in 1 .. MaxDigits

\* b to the n-th, by a recursive function.
Power(b, n) == LET p[i \in Nat] == IF i = 0 THEN 1 ELSE b * p[i - 1] IN p[n]

Underscore == 10   \* CLOCK_INTERVAL_STR
Colon == 11
Open == 12
Close == 13
Equal == 14

\* operator<< of a number.
Numeral(n) ==
  LET width == CHOOSE w \in 1 .. MaxDigits :
                 n < Power(10, w) /\ (w = 1 \/ n >= Power(10, w - 1))
  IN [i \in 1 .. width |-> (n \div Power(10, width - i)) % 10]

\* std::string::resize.
Resized(str, n) == [i \in 1 .. n |-> IF i <= Len(str) THEN str[i] ELSE Equal]

\* for (i = str.size() + 1; i <= n; ++i) str.push_back(i % 10 + '0')
Filled(str, n) == str \o [i \in 1 .. n - Len(str) |-> (Len(str) + i) % 10]

\* Mutant of Chunk: the number is the length so far.
ChunkCountsBefore(str) ==
  LET opened == str \o <<Open>> \o Numeral(Len(str)) \o <<Underscore>>
  IN Append(Filled(opened, Len(str) + 9), Close)

\* One round of the loop that appends (20_56789), (30_56789) and so on.
Chunk(str) ==
  LET new_len == Len(str) + 10
      opened == str \o <<Open>> \o Numeral(new_len) \o <<Underscore>>
  IN Append(Filled(opened, new_len - 1), Close)

\* Mutant of Grown: the loop goes on while anything is missing.
GrownOverruns(str, n) ==
  LET More(s) == IF Len(s) < n THEN Chunk(s) ELSE s
      grown[k \in 0 .. n \div 10] == IF k = 0 THEN str ELSE More(grown[k - 1])
  IN grown[n \div 10]

\* The loop, which runs while another round fits: n \div 10 rounds are enough.
Grown(str, n) ==
  LET More(s) == IF Len(s) + 10 <= n THEN Chunk(s) ELSE s
      grown[k \in 0 .. n \div 10] == IF k = 0 THEN str ELSE More(grown[k - 1])
  IN grown[n \div 10]

test_str(str_prefix, str_len) ==
  LET str == Append(str_prefix, Colon)
  IN IF Len(str) >= str_len THEN Resized(str, str_len)
     ELSE IF str_len < 20 THEN Filled(str, str_len)
     ELSE Filled(Grown(Resized(str, 10), str_len), str_len)

\* The clock's digits, then test_str("_", size - digits). With a smaller size the
\* difference wraps to a length no memory holds: main() never gets that message.
Makes(size) == size >= ClockDigits
make_test_str(clock, size) ==
  Numeral(clock) \o test_str(<<Underscore>>, size - ClockDigits)

\* atoll of digits.
Number(s) ==
  LET value[i \in 0 .. Len(s)] == IF i = 0 THEN 0 ELSE 10 * value[i - 1] + s[i]
  IN value[Len(s)]

\* The number in front of the first underscore (up to the first non-digit), 0 if there is
\* none.
get_time_from_msg(msg) ==
  LET marks == {i \in 1 .. Len(msg) : msg[i] = Underscore}
      pos == CHOOSE i \in marks : \A j \in marks : i <= j
      digits == {i \in 1 .. pos - 1 : \A j \in 1 .. i : msg[j] < 10}
  IN IF marks = {} THEN 0
     ELSE Number(SubSeq(msg, 1, Cardinality(digits)))

-----------------------------------------------------------------------------

\* The places between a parenthesis that opens and the underscore after it.
Numbered(text) ==
  {p \in 1 .. Len(text) :
     \E q \in 1 .. p : text[q] = Open /\ \A r \in q .. p : text[r] # Underscore}

\* Elsewhere a digit is the last one of its place,
DigitsTell(text) == \A p \in (1 .. Len(text)) \ Numbered(text) : text[p] < 10 => text[p] = p % 10

\* and a parenthesis has the place of the one that closes it.
NumbersTell(text) ==
  \A p \in 1 .. Len(text) : text[p] = Close =>
    /\ p > 10 /\ text[p - 9] = Open
    /\ SubSeq(text, p - 8, p - 8 + Len(Numeral(p))) = Append(Numeral(p), Underscore)
=============================================================================
