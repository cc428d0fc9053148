-------------------------- MODULE RecvStatsProofs --------------------------
(***************************************************************************)
(* The figures of the latencies: every message on its way carries its clock *)
(* and tells where it stands, and every line has the figures of the         *)
(* messages that came back.                                                 *)
(***************************************************************************)
EXTENDS RecvStats, TestStrProofs

-----------------------------------------------------------------------------
(* A message.                                                              *)

\* A message: its length, its clock, its padding.
LEMMA MessageIs ==
  ASSUME NEW c \in Clocks, NEW size \in Sizes, Makes(size)
  PROVE  LET msg == make_test_str(c, size)
         IN /\ msg \in Seq(Nat) /\ Len(msg) = size
            /\ Tells(SubSeq(msg, ClockDigits + 1, Len(msg)))
            /\ get_time_from_msg(msg) = IF size > ClockDigits THEN c ELSE 0
  <1>. DEFINE num == Numeral(c)
              n == size - ClockDigits
              t == test_str(<<Underscore>>, n)
              w == ClockDigits
              msg == num \o t
  <1>1. /\ num \in Seq(0 .. 9) /\ num \in Seq(Nat) /\ Len(num) = w /\ Number(num) = c
        /\ w \in Nat \ {0} /\ c \in Nat
    BY ClockNumeral, StatsAssumption
  <1>2. n \in Nat /\ n < Power(10, 7) /\ size \in Nat /\ w + n = size /\ (size > w <=> n > 0)
    BY <1>1, StatsAssumption, SizesAssumption DEF Makes
  <1>3. Tells(t) /\ Len(t) = n /\ (n > 0 => t[1] = Underscore)
    <2>. HIDE DEF n
    <2>. QED BY <1>2, TestStrIs
  <1>. HIDE DEF n, t, num
  <1>4. t \in Seq(Nat)
    BY <1>3 DEF Tells
  <1>5. /\ msg \in Seq(Nat) /\ Len(msg) = w + n
        /\ \A i \in w + 1 .. w + n : msg[i] = t[i - w]
    <2>1. w = Len(num) /\ n = Len(t) /\ num \in Seq(Nat)
      BY <1>1, <1>3
    <2>. HIDE DEF w
    <2>. QED BY <1>4, <2>1, Behind
  <1>. SUFFICES /\ Len(msg) = size /\ Tells(SubSeq(msg, w + 1, Len(msg)))
                /\ get_time_from_msg(msg) = IF size > w THEN c ELSE 0
    BY <1>5 DEF make_test_str, num, t, n
  <1>6. SubSeq(msg, w + 1, Len(msg)) = t
    <2>. DEFINE a == w + 1  b == w + n  s == SubSeq(msg, a, b)
    <2>1. a \in Int /\ b \in Int /\ \A i \in a .. b : msg[i] \in Nat
      <3>1. \A i \in a .. b : i \in 1 .. Len(msg)
        BY <1>1, <1>2, <1>5
      <3>2. \A i \in 1 .. Len(msg) : msg[i] \in Nat
        <4>. HIDE DEF msg
        <4>. QED BY <1>5, ElementOfSeq
      <3>3. a \in Int /\ b \in Int
        BY <1>1, <1>2
      <3>. QED BY <3>1, <3>2, <3>3
    <2>2. /\ s \in Seq(Nat) /\ Len(s) = IF a <= b THEN b - a + 1 ELSE 0
          /\ \A i \in 1 .. b - a + 1 : s[i] = msg[a + i - 1]
      <3>. HIDE DEF a, b, msg
      <3>. QED BY <2>1, SubSeqProperties
    <2>. HIDE DEF s, msg
    <2>3. Len(s) = n /\ b - a + 1 = n
      BY <1>1, <1>2, <2>2
    <2>4. \A i \in 1 .. n : s[i] = t[i]
      <3>. SUFFICES ASSUME NEW i \in 1 .. n PROVE s[i] = t[i]
        OBVIOUS
      <3>. DEFINE j == a + i - 1
      <3>1. j \in w + 1 .. w + n /\ j - w = i /\ i \in 1 .. b - a + 1
        BY <1>1, <1>2
      <3>2. s[i] = msg[j]
        BY <2>2, <3>1
      <3>. HIDE DEF j
      <3>. QED BY <1>5, <3>1, <3>2
    <2>5. s = t
      BY <1>3, <1>4, <2>2, <2>3, <2>4, SeqEqual
    <2>. QED BY <1>5, <2>5 DEF s
  <1>7. CASE n > 0
    <2>1. get_time_from_msg(msg) = Number(num)
      BY <1>1, <1>3, <1>4, <1>7, TimeIs DEF Text, Digits
    <2>. QED BY <1>1, <1>2, <1>3, <1>5, <1>6, <1>7, <2>1
  <1>8. CASE n = 0
    <2>1. t = <<>>
      <3>1. Len(t) = 0
        BY <1>3, <1>8
      <3>2. t # <<>> => Len(t) \in Nat \ {0}
        BY <1>4, EmptySeq
      <3>. QED BY <3>1, <3>2
    <2>2. msg = num
      BY <1>1, <2>1, ConcatEmptySeq
    <2>3. get_time_from_msg(num) = 0
      BY <1>1, NoTime
    <2>. HIDE DEF msg
    <2>4. ~(size > w)
      BY <1>2, <1>8
    <2>5. Len(msg) = size
      BY <1>2, <1>5
    <2>6. get_time_from_msg(msg) = 0
      BY <2>2, <2>3
    <2>. QED BY <1>3, <1>6, <2>4, <2>5, <2>6
  <1>. QED BY <1>2, <1>7, <1>8

-----------------------------------------------------------------------------
(* Conversions to int and to size_t.                                       *)

\* The constants, one by one.
LEMMA Bits ==
  /\ IntBits \in Nat \ {0} /\ WordBits \in Nat \ {0} /\ Window \in Nat \ {0}
  /\ RefreshAfter \in Nat \ {0} /\ MaxMade \in Nat \ {0} /\ MaxFlight \in Nat \ {0}
  /\ IntBits < WordBits /\ Sizes \subseteq Nat /\ Clocks \subseteq Nat
  <1>1. \A c \in Clocks : c \in Nat
    BY ClockNumeral, StatsAssumption
  <1>. QED BY <1>1, StatsAssumption

\* Half of the ints are negative.
LEMMA Halves ==
  /\ MaxInt + 1 \in Nat \ {0} /\ Power(2, IntBits) = 2 * (MaxInt + 1)
  /\ MaxInt + 1 = Power(2, IntBits - 1)
  <1>. DEFINE b == 2
  <1>1. b \in Nat \ {0}
    OBVIOUS
  <1>2. IntBits - 1 \in Nat /\ IntBits - 1 + 1 = IntBits
    BY Bits
  <1>. HIDE DEF b
  <1>3. Power(b, IntBits - 1) \in Nat \ {0} /\ Power(b, IntBits) = b * Power(b, IntBits - 1)
    BY <1>1, <1>2, PowerFacts
  <1>. DEFINE h == Power(b, IntBits - 1)
  <1>4. h \in Nat \ {0} /\ MaxInt = h - 1
    BY <1>3 DEF MaxInt, b
  <1>. HIDE DEF h
  <1>5. MaxInt + 1 = h
    BY <1>4
  <1>. QED BY <1>3, <1>4, <1>5 DEF h, b

\* A word holds the ints that are not negative.
LEMMA WordHolds ==
  ASSUME NEW n \in 0 .. MaxInt
  PROVE  AsWord(n) = n
  <1>. DEFINE b == 2  p == Power(b, WordBits)  h == Power(b, IntBits - 1)
  <1>1. b \in Nat \ {0} /\ b >= 2
    OBVIOUS
  <1>. HIDE DEF b
  <1>2. IntBits - 1 \in Nat /\ WordBits \in Nat /\ IntBits - 1 < WordBits
    BY Bits
  <1>3. p \in Nat \ {0} /\ h \in Nat \ {0} /\ h < p
    BY <1>1, <1>2, PowerFacts, PowerGrows
  <1>. HIDE DEF p, h
  <1>4. MaxInt + 1 = h
    BY Halves DEF h, b
  <1>5. MaxInt \in Int
    BY <1>3, Halves DEF MaxInt, h, b
  <1>6. n \in Int /\ n \in 0 .. p - 1 /\ n = p * 0 + n
    BY <1>3, <1>4, <1>5
  <1>7. n % p = n
    BY <1>3, <1>6, DivModUnique
  <1>. QED BY <1>7 DEF AsWord, p, b

\* Conversion to int.
LEMMA AsIntIs ==
  /\ 0 \in Ints /\ Ints \subseteq Int
  /\ \A n \in Int : AsInt(n) \in Ints
  /\ \A n \in Ints : AsInt(n) = n
  /\ \A a \in Int, c \in Int : AsInt(AsInt(a) + c) = AsInt(a + c)
  <1>. DEFINE h == MaxInt + 1  m == 2 * h
  <1>1. h \in Nat \ {0} /\ m \in Nat \ {0} /\ Power(2, IntBits) = m
    BY Halves
  <1>2. MaxInt = h - 1 /\ MaxInt \in Int
    <2>1. MaxInt \in Int
      <3>1. \A k \in Nat : Power(2, k) \in Int
        <4>. DEFINE b == 2
        <4>1. b \in Nat \ {0}
          OBVIOUS
        <4>. HIDE DEF b
        <4>2. \A k \in Nat : Power(b, k) \in Nat \ {0}
          BY <4>1, PowerFacts
        <4>. QED BY <4>2 DEF b
      <3>2. IntBits - 1 \in Nat
        BY Bits
      <3>3. Power(2, IntBits - 1) \in Int
        BY <3>1, <3>2
      <3>. QED BY <3>3 DEF MaxInt
    <2>. QED BY <2>1
  <1>3. \A n : AsInt(n) = ((n + MaxInt + 1) % m) - h
    BY <1>1 DEF AsInt
  <1>4. Ints = -h .. h - 1
    <2>1. -MaxInt - 1 = -h
      BY <1>2
    <2>. QED BY <1>2, <2>1 DEF Ints
  <1>5. ASSUME NEW n \in Int PROVE n + MaxInt + 1 = n + h
    BY <1>2
  <1>. HIDE DEF h
  <1>6. m = 2 * h
    OBVIOUS
  <1>. HIDE DEF m
  <1>7. ASSUME NEW n \in Int
        PROVE  AsInt(n) \in Ints /\ AsInt(n) = ((n + h) % m) - h /\ (n \in Ints => AsInt(n) = n)
    <2>. DEFINE x == n + h
    <2>1. x \in Int
      BY <1>1
    <2>2. AsInt(n) = (x % m) - h
      BY <1>3, <1>5
    <2>. HIDE DEF x
    <2>3. x % m \in 0 .. m - 1
      BY <1>1, <2>1, DivMod
    <2>4. AsInt(n) \in Ints
      BY <1>1, <1>4, <1>6, <2>2, <2>3
    <2>5. ASSUME n \in Ints PROVE AsInt(n) = n
      <3>1. x \in 0 .. m - 1 /\ x = m * 0 + x
        BY <1>1, <1>4, <1>6, <2>5 DEF x
      <3>2. x % m = x
        BY <1>1, <2>1, <3>1, DivModUnique
      <3>. QED BY <1>1, <2>2, <3>2 DEF x
    <2>. QED BY <2>2, <2>4, <2>5 DEF x
  <1>8. ASSUME NEW a \in Int, NEW c \in Int PROVE AsInt(AsInt(a) + c) = AsInt(a + c)
    <2>. DEFINE x == a + h  q == x \div m  y == a + c + h  z == AsInt(a) + c
    <2>1. x \in Int /\ y \in Int
      BY <1>1
    <2>2. AsInt(a) = (x % m) - h
      BY <1>7
    <2>. HIDE DEF x
    <2>3. q \in Int /\ x % m \in 0 .. m - 1 /\ x = m * q + (x % m)
      BY <1>1, <2>1, DivMod
    <2>. HIDE DEF q
    <2>4. z \in Int /\ z + h = y + m * (-q)
      <3>1. m * (-q) = -(m * q) /\ m * q \in Int
        BY <1>1, <2>3
      <3>. DEFINE r == x % m  k == m * q
      <3>2. r \in Int /\ k \in Int /\ x = k + r /\ m * (-q) = -k
        BY <1>1, <2>3, <3>1
      <3>3. z = r - h + c
        BY <2>2
      <3>. HIDE DEF r, k, z
      <3>4. m * (-q) = -k
        BY <3>2
      <3>5. z \in Int /\ z + h = r + c
        BY <1>1, <3>2, <3>3
      <3>6. y + (-k) = r + c
        BY <1>1, <3>2 DEF x
      <3>. QED BY <3>4, <3>5, <3>6
    <2>. HIDE DEF y, z
    <2>5. (y + m * (-q)) % m = y % m
      <3>1. -q \in Int
        BY <2>3
      <3>. QED BY <1>1, <2>1, <3>1, ModShift
    <2>6. AsInt(z) = ((z + h) % m) - h
      BY <1>7, <2>4
    <2>7. AsInt(a + c) = (y % m) - h
      BY <1>7 DEF y
    <2>. QED BY <2>4, <2>5, <2>6, <2>7 DEF z
  <1>9. 0 \in Ints /\ Ints \subseteq Int
    BY <1>1, <1>4
  <1>. QED BY <1>7, <1>8, <1>9

-----------------------------------------------------------------------------
(* Sums, maxima and windows.                                               *)

\* The loop that adds, which its equation defines.
LEMMA TrueSumRun ==
  ASSUME NEW s \in Seq(Int)
  PROVE  \E sum \in [0 .. Len(s) -> Int] :
           /\ sum[0] = 0
           /\ \A i \in 1 .. Len(s) : sum[i] = sum[i - 1] + s[i]
           /\ TrueSum(s) = sum[Len(s)]
  <1>. DEFINE n == Len(s)
              Eq(g) == g = [i \in 0 .. n |-> IF i = 0 THEN 0 ELSE g[i - 1] + s[i]]
              p == CHOOSE g : Eq(g)
              step == [x \in (Nat \ {0}) \X Int |->
                         IF x[1] \in 1 .. n THEN x[2] + s[x[1]] ELSE x[2]]
  <1>1. n \in Nat /\ \A i \in 1 .. n : s[i] \in Int
    BY LenProperties
  <1>2. TrueSum(s) = p[n]
    BY DEF TrueSum
  <1>. HIDE DEF n
  <1>3. step \in [(Nat \ {0}) \X Int -> Int] /\ 0 \in Int
    BY <1>1
  <1>4. \A i \in 1 .. n, v \in Int : step[<<i, v>>] = v + s[i]
    BY <1>1
  <1>. HIDE DEF step
  <1>5. PICK g \in [0 .. n -> Int] : Runs(g, n, 0, step)
    BY <1>1, <1>3, RunExists
  <1>6. g[0] = 0 /\ \A i \in 1 .. n : g[i] = g[i - 1] + s[i]
    <2>1. ASSUME NEW i \in 1 .. n PROVE g[i] = g[i - 1] + s[i]
      <3>1. i - 1 \in 0 .. n /\ g[i - 1] \in Int
        BY <1>1
      <3>. QED BY <1>4, <1>5, <3>1 DEF Runs
    <2>. QED BY <1>5, <2>1 DEF Runs
  <1>7. Eq(g)
    <2>1. \A i \in 0 .. n : g[i] = IF i = 0 THEN 0 ELSE g[i - 1] + s[i]
      BY <1>1, <1>6
    <2>. QED BY <2>1
  <1>8. Eq(p)
    BY <1>7
  <1>. HIDE DEF p
  <1>9. p[0] = 0 /\ \A i \in 1 .. n : p[i] = p[i - 1] + s[i]
    BY <1>1, <1>8
  <1>. DEFINE T == {i \in Nat : p[i] \in Int}
  <1>10. \A i \in 0 .. n : i \in T
    <2>1. 0 \in T
      BY <1>9
    <2>2. ASSUME NEW i \in 1 .. n, i - 1 \in T PROVE i \in T
      <3>1. i \in Nat /\ p[i] = p[i - 1] + s[i] /\ s[i] \in Int
        BY <1>1, <1>9
      <3>. QED BY <2>2, <3>1
    <2>. HIDE DEF T
    <2>. QED BY <1>1, <2>1, <2>2, UpTo
  <1>11. p \in [0 .. n -> Int]
    <2>1. p = [i \in 0 .. n |-> p[i]]
      BY <1>8
    <2>. QED BY <1>10, <2>1
  <1>. QED BY <1>2, <1>9, <1>11 DEF n

\* The same with an int.
LEMMA IntSumRun ==
  ASSUME NEW s \in Seq(Int)
  PROVE  \E sum \in [0 .. Len(s) -> Ints] :
           /\ sum[0] = 0
           /\ \A i \in 1 .. Len(s) : sum[i] = AsInt(sum[i - 1] + s[i])
           /\ IntSum(s) = sum[Len(s)]
  <1>. DEFINE n == Len(s)
              Eq(g) == g = [i \in 0 .. n |-> IF i = 0 THEN 0 ELSE AsInt(g[i - 1] + s[i])]
              p == CHOOSE g : Eq(g)
              step == [x \in (Nat \ {0}) \X Ints |->
                         IF x[1] \in 1 .. n THEN AsInt(x[2] + s[x[1]]) ELSE x[2]]
  <1>1. n \in Nat /\ \A i \in 1 .. n : s[i] \in Int
    BY LenProperties
  <1>2. IntSum(s) = p[n]
    BY DEF IntSum
  <1>. HIDE DEF n
  <1>3. 0 \in Ints /\ \A i \in 1 .. n, v \in Ints : AsInt(v + s[i]) \in Ints
    <2>1. ASSUME NEW i \in 1 .. n, NEW v \in Ints PROVE v + s[i] \in Int
      <3>1. v \in Int /\ s[i] \in Int
        BY <1>1, AsIntIs
      <3>. QED BY <3>1
    <2>. QED BY <2>1, AsIntIs
  <1>4. step \in [(Nat \ {0}) \X Ints -> Ints]
    BY <1>3
  <1>5. \A i \in 1 .. n, v \in Ints : step[<<i, v>>] = AsInt(v + s[i])
    BY <1>1
  <1>. HIDE DEF step
  <1>6. PICK g \in [0 .. n -> Ints] : Runs(g, n, 0, step)
    BY <1>1, <1>3, <1>4, RunExists
  <1>7. g[0] = 0 /\ \A i \in 1 .. n : g[i] = AsInt(g[i - 1] + s[i])
    <2>1. ASSUME NEW i \in 1 .. n PROVE g[i] = AsInt(g[i - 1] + s[i])
      <3>1. i - 1 \in 0 .. n /\ g[i - 1] \in Ints
        BY <1>1
      <3>. QED BY <1>5, <1>6, <3>1 DEF Runs
    <2>. QED BY <1>6, <2>1 DEF Runs
  <1>8. Eq(g)
    <2>1. \A i \in 0 .. n : g[i] = IF i = 0 THEN 0 ELSE AsInt(g[i - 1] + s[i])
      BY <1>1, <1>7
    <2>. QED BY <2>1
  <1>9. Eq(p)
    BY <1>8
  <1>. HIDE DEF p
  <1>10. p[0] = 0 /\ \A i \in 1 .. n : p[i] = AsInt(p[i - 1] + s[i])
    BY <1>1, <1>9
  <1>. DEFINE T == {i \in Nat : p[i] \in Ints}
  <1>11. \A i \in 0 .. n : i \in T
    <2>1. 0 \in T
      BY <1>3, <1>10
    <2>2. ASSUME NEW i \in 1 .. n, i - 1 \in T PROVE i \in T
      <3>1. i \in Nat /\ p[i] = AsInt(p[i - 1] + s[i])
        BY <1>1, <1>10
      <3>. QED BY <1>3, <2>2, <3>1
    <2>. HIDE DEF T
    <2>. QED BY <1>1, <2>1, <2>2, UpTo
  <1>12. p \in [0 .. n -> Ints]
    <2>1. p = [i \in 0 .. n |-> p[i]]
      BY <1>9
    <2>. QED BY <1>11, <2>1
  <1>. QED BY <1>2, <1>10, <1>12 DEF n

\* Overflows on the way do no harm.
LEMMA SumsAgree ==
  ASSUME NEW s \in Seq(Int)
  PROVE  TrueSum(s) \in Int /\ IntSum(s) \in Ints /\ IntSum(s) = AsInt(TrueSum(s))
  <1>. DEFINE n == Len(s)
  <1>1. n \in Nat /\ \A i \in 1 .. n : s[i] \in Int
    BY LenProperties
  <1>2. PICK f \in [0 .. n -> Int] :
          /\ f[0] = 0 /\ \A i \in 1 .. n : f[i] = f[i - 1] + s[i]
          /\ TrueSum(s) = f[n]
    BY TrueSumRun
  <1>3. PICK g \in [0 .. n -> Ints] :
          /\ g[0] = 0 /\ \A i \in 1 .. n : g[i] = AsInt(g[i - 1] + s[i])
          /\ IntSum(s) = g[n]
    BY IntSumRun
  <1>. HIDE DEF n
  <1>. DEFINE T == {i \in Nat : g[i] = AsInt(f[i])}
  <1>4. 0 \in T
    BY <1>2, <1>3, AsIntIs
  <1>5. ASSUME NEW i \in 1 .. n, i - 1 \in T PROVE i \in T
    <2>1. i - 1 \in 0 .. n /\ i \in Nat
      BY <1>1
    <2>. DEFINE a == f[i - 1]  c == s[i]
    <2>2. a \in Int /\ c \in Int
      BY <1>1, <2>1
    <2>3. g[i] = AsInt(AsInt(a) + c) /\ f[i] = a + c
      BY <1>2, <1>3, <1>5
    <2>. HIDE DEF a, c
    <2>4. AsInt(AsInt(a) + c) = AsInt(a + c)
      BY <2>2, AsIntIs
    <2>. QED BY <2>1, <2>3, <2>4
  <1>6. n \in T
    <2>1. \A i \in 0 .. n : i \in T
      <3>. HIDE DEF T
      <3>. QED BY <1>1, <1>4, <1>5, UpTo
    <2>. QED BY <1>1, <2>1
  <1>. QED BY <1>1, <1>2, <1>3, <1>6

\* The maximum of a set of numbers from low to high.
LEMMA GreatestOf ==
  ASSUME NEW T, T # {}, NEW low \in Int, NEW high \in Int, T \subseteq low .. high
  PROVE  \E m \in T : \A x \in T : x <= m
  <1>. DEFINE U == {high - x : x \in T}
  <1>0. \A x \in T : x \in Int /\ high - x \in Nat
    OBVIOUS
  <1>1. U \subseteq Nat /\ U # {}
    BY <1>0
  <1>2. PICK u \in U : \A y \in U : u <= y
    <2>. HIDE DEF U
    <2>. QED BY <1>1, LeastOf
  <1>3. PICK m \in T : u = high - m
    BY <1>2
  <1>4. ASSUME NEW x \in T PROVE x <= m
    <2>1. high - x \in U
      OBVIOUS
    <2>2. u <= high - x
      BY <1>2, <2>1
    <2>3. x \in Int /\ m \in Int
      OBVIOUS
    <2>. QED BY <1>3, <2>2, <2>3
  <1>. QED BY <1>4

\* The beginning of a window, before and after the next message.
LEMMA WindowStep ==
  ASSUME NEW n \in Nat, NEW m \in Nat \ {0}
  PROVE  /\ (n \div m) * m \in 0 .. n /\ n - (n \div m) * m < m
         /\ (n + 1) % m = 0 => /\ ((n + 1) \div m) * m = n + 1
                               /\ (n \div m) * m = n + 1 - m
         /\ (n + 1) % m # 0 => ((n + 1) \div m) * m = (n \div m) * m
  <1>. DEFINE q == n \div m  r == n % m  N == n + 1
  <1>1. q \in Int /\ r \in 0 .. m - 1 /\ n = m * q + r
    BY DivMod
  <1>2. q \in Nat
    OBVIOUS
  <1>. HIDE DEF q, r
  <1>3. m * q = q * m /\ q * m \in Nat
    BY <1>2
  <1>4. CASE r = m - 1
    <2>1. q + 1 \in Int /\ 0 \in 0 .. m - 1 /\ N \in Int
      BY <1>2
    <2>2. m * (q + 1) = m * q + m /\ (q + 1) * m = q * m + m
      BY <1>2
    <2>3. N = m * (q + 1) + 0
      BY <1>1, <1>3, <1>4, <2>2
    <2>. HIDE DEF N
    <2>4. N \div m = q + 1 /\ N % m = 0
      BY <2>1, <2>3, DivModUnique
    <2>. QED BY <1>1, <1>3, <1>4, <2>2, <2>4 DEF N, q
  <1>5. CASE r # m - 1
    <2>1. r + 1 \in 0 .. m - 1 /\ N \in Int
      BY <1>1, <1>5
    <2>2. N = m * q + (r + 1)
      BY <1>1, <1>3
    <2>. HIDE DEF N
    <2>3. N \div m = q /\ N % m = r + 1
      BY <1>1, <2>1, <2>2, DivModUnique
    <2>4. N % m # 0
      BY <1>1, <2>3
    <2>. QED BY <1>1, <1>3, <2>3, <2>4 DEF N, q
  <1>. QED BY <1>4, <1>5

-----------------------------------------------------------------------------
(* The figures of a line.                                                  *)

\* A quotient is between 0 and what is divided.
LEMMA QuotientIs ==
  ASSUME NEW a \in Ints, NEW b \in Nat \ {0}
  PROVE  Quotient(a, b) \in Ints /\ (a >= 0 => a \div b \in 0 .. a)
  <1>1. ASSUME NEW x \in Nat PROVE x \div b \in 0 .. x
    <2>. DEFINE q == x \div b  r == x % b
    <2>1. q \in Int /\ r \in 0 .. b - 1 /\ x = b * q + r
      BY DivMod
    <2>2. q \in Nat
      OBVIOUS
    <2>. HIDE DEF q, r
    <2>3. b * q >= q
      BY <2>2
    <2>. QED BY <2>1, <2>2, <2>3 DEF q
  <1>. DEFINE h == MaxInt + 1
  <1>2. h \in Nat \ {0} /\ MaxInt \in Int /\ Ints = -h .. h - 1
    <2>1. h \in Nat \ {0}
      BY Halves
    <2>2. MaxInt \in Int
      <3>1. Power(2, IntBits - 1) \in Int
        BY Halves
      <3>. QED BY <3>1 DEF MaxInt
    <2>3. -MaxInt - 1 = -h /\ MaxInt = h - 1
      BY <2>2
    <2>. QED BY <2>1, <2>2, <2>3 DEF Ints
  <1>. HIDE DEF h
  <1>3. a \in Int /\ a \in -h .. h - 1
    BY <1>2
  <1>4. CASE a >= 0
    <2>1. a \in Nat
      BY <1>3, <1>4
    <2>2. a \div b \in 0 .. a
      BY <1>1, <2>1
    <2>. DEFINE q == a \div b
    <2>3. Quotient(a, b) = q
      BY <1>4 DEF Quotient
    <2>. HIDE DEF q
    <2>4. q \in 0 .. a
      BY <2>2 DEF q
    <2>. QED BY <1>2, <1>3, <2>2, <2>3, <2>4
  <1>5. CASE ~(a >= 0)
    <2>1. -a \in Nat
      BY <1>3, <1>5
    <2>. DEFINE c == -a  q == c \div b
    <2>2. q \in 0 .. c
      BY <1>1, <2>1
    <2>3. Quotient(a, b) = -q
      BY <1>5 DEF Quotient
    <2>. HIDE DEF q
    <2>. QED BY <1>2, <1>3, <1>5, <2>2, <2>3
  <1>. QED BY <1>4, <1>5

\* The figures of intervals: they are ints, and right while the sums are.
LEMMA FiguresAre ==
  ASSUME NEW all \in Seq(Ints), all # <<>>, NEW ten \in Seq(Ints), ten # <<>>
  PROVE  LET line == FiguresOf(all, ten)
         IN /\ line \in [count : Nat, max : Ints, average10 : Ints, average_total : Ints]
            /\ line.count = Len(all)
            /\ line.max \in ToSet(ten) /\ \A x \in ToSet(ten) : x <= line.max
            /\ TrueSum(ten) \in Ints => line.average10 = Quotient(TrueSum(ten), Window)
            /\ TrueSum(all) \in 0 .. MaxInt => line.average_total = TrueSum(all) \div Len(all)
  <1>. DEFINE T == ToSet(ten)
              greatest == CHOOSE m \in T : \A x \in T : x <= m
              n == Len(all)
              a10 == Quotient(IntSum(ten), Window)
              a == AsInt(AsWord(IntSum(all)) \div n)
              line == FiguresOf(all, ten)
  <1>1. n \in Nat \ {0} /\ Len(ten) \in Nat \ {0}
    BY EmptySeq
  <1>2. line = [count |-> n, max |-> greatest, average10 |-> a10, average_total |-> a]
    BY DEF FiguresOf, Line
  <1>3. all \in Seq(Int) /\ ten \in Seq(Int)
    BY AsIntIs, SeqMonotonic
  <1>4. T \subseteq Ints /\ T # {}
    <2>1. DOMAIN ten = 1 .. Len(ten) /\ \A i \in 1 .. Len(ten) : ten[i] \in Ints
      BY LenProperties, ElementOfSeq
    <2>2. 1 \in 1 .. Len(ten)
      BY <1>1
    <2>. QED BY <2>1, <2>2 DEF ToSet
  <1>5. \E m \in T : \A x \in T : x <= m
    <2>. HIDE DEF T
    <2>1. -MaxInt - 1 \in Int /\ MaxInt \in Int
      <3>1. Power(2, IntBits - 1) \in Int
        BY Halves
      <3>2. MaxInt \in Int
        BY <3>1 DEF MaxInt
      <3>. QED BY <3>2
    <2>. DEFINE low == -MaxInt - 1  high == MaxInt
    <2>2. low \in Int /\ high \in Int /\ T \subseteq low .. high
      BY <1>4, <2>1 DEF Ints
    <2>. HIDE DEF low, high
    <2>. QED BY <1>4, <2>2, GreatestOf
  <1>. HIDE DEF T
  <1>6. greatest \in T /\ \A x \in T : x <= greatest
    BY <1>5
  <1>. HIDE DEF greatest
  <1>7. a10 \in Ints /\ (TrueSum(ten) \in Ints => a10 = Quotient(TrueSum(ten), Window))
    <2>1. IntSum(ten) \in Ints /\ IntSum(ten) = AsInt(TrueSum(ten))
      BY <1>3, SumsAgree
    <2>2. TrueSum(ten) \in Ints => IntSum(ten) = TrueSum(ten)
      BY <2>1, AsIntIs
    <2>. QED BY <2>1, <2>2, Bits, QuotientIs
  <1>8. a \in Ints
    <2>. DEFINE x == IntSum(all)  m == Power(2, WordBits)  y == x % m
    <2>1. x \in Int
      BY <1>3, SumsAgree, AsIntIs
    <2>2. m \in Nat \ {0}
      <3>. DEFINE b == 2
      <3>1. b \in Nat \ {0} /\ WordBits \in Nat
        BY Bits
      <3>. HIDE DEF b
      <3>2. Power(b, WordBits) \in Nat \ {0}
        BY <3>1, PowerFacts
      <3>. QED BY <3>2 DEF b
    <2>. HIDE DEF x, m
    <2>3. y \in Int
      BY <2>1, <2>2, DivMod
    <2>4. AsWord(IntSum(all)) = y
      BY DEF AsWord, x, m
    <2>. HIDE DEF y
    <2>5. y \div n \in Int
      <3>. HIDE DEF n
      <3>. QED BY <1>1, <2>3, DivMod
    <2>. QED BY <2>4, <2>5, AsIntIs
  <1>9. ASSUME TrueSum(all) \in 0 .. MaxInt PROVE a = TrueSum(all) \div n
    <2>. DEFINE x == TrueSum(all)
    <2>1. x \in Int /\ x \in Ints /\ x >= 0
      <3>1. MaxInt \in Int /\ -MaxInt - 1 <= 0
        <4>1. MaxInt + 1 \in Nat /\ Power(2, IntBits - 1) \in Int
          BY Halves
        <4>2. MaxInt \in Int
          BY <4>1 DEF MaxInt
        <4>. QED BY <4>1, <4>2
      <3>2. x \in 0 .. MaxInt
        BY <1>9
      <3>. HIDE DEF x
      <3>. QED BY <3>1, <3>2 DEF Ints
    <2>2. IntSum(all) = x
      BY <1>3, <2>1, SumsAgree, AsIntIs
    <2>3. AsWord(x) = x
      BY <1>9, WordHolds
    <2>4. a = AsInt(x \div n)
      BY <2>2, <2>3
    <2>. HIDE DEF x, a
    <2>5. x \div n \in Ints
      <3>1. x \div n \in 0 .. x
        <4>. HIDE DEF n
        <4>. QED BY <1>1, <2>1, QuotientIs
      <3>. DEFINE q == x \div n
      <3>2. q \in 0 .. x
        BY <3>1
      <3>. HIDE DEF q
      <3>3. MaxInt \in Int /\ -MaxInt - 1 <= 0
        <4>1. MaxInt + 1 \in Nat /\ Power(2, IntBits - 1) \in Int
          BY Halves
        <4>2. MaxInt \in Int
          BY <4>1 DEF MaxInt
        <4>. QED BY <4>1, <4>2
      <3>4. q \in Ints
        BY <2>1, <3>2, <3>3 DEF Ints
      <3>. QED BY <3>4 DEF q
    <2>6. AsInt(x \div n) = x \div n
      BY <2>5, AsIntIs
    <2>. QED BY <2>4, <2>6 DEF x
  <1>. HIDE DEF a, a10, line
  <1>10. line.count = n /\ line.max = greatest /\ line.average10 = a10 /\ line.average_total = a
    BY <1>2
  <1>11. greatest \in Ints
    BY <1>4, <1>6
  <1>12. line \in [count : Nat, max : Ints, average10 : Ints, average_total : Ints]
    <2>. HIDE DEF n
    <2>. QED BY <1>1, <1>2, <1>7, <1>8, <1>11
  <1>. QED BY <1>6, <1>7, <1>9, <1>10, <1>12 DEF T, line

\* Function F of every element of s.
Mapped(s, F) == [i \in 1 .. Len(s) |-> F[s[i]]]

\* There are as many values as elements, and they are where F has its values;
LEMMA MappedIs ==
  ASSUME NEW S, NEW s \in Seq(S), NEW F, NEW V, \A y \in S : F[y] \in V
  PROVE  Mapped(s, F) \in Seq(V) /\ Len(Mapped(s, F)) = Len(s)
  <1>. DEFINE f == Mapped(s, F)  n == Len(s)
  <1>1. n \in Nat /\ \A i \in 1 .. n : s[i] \in S
    BY LenProperties, ElementOfSeq
  <1>2. f \in [1 .. n -> V]
    BY <1>1 DEF Mapped
  <1>. HIDE DEF f, n
  <1>3. f \in Seq(V) /\ Len(f) = n
    BY <1>1, <1>2
  <1>. QED BY <1>3 DEF f, n

\* one more element has one more value.
LEMMA MapAppend ==
  ASSUME NEW S, NEW s \in Seq(S), NEW F, NEW x \in S
  PROVE  Append(Mapped(s, F), F[x]) = Mapped(Append(s, x), F)
  <1>. DEFINE f == Mapped(s, F)
              V == {F[y] : y \in S}
              n == Len(s)
  <1>1. n \in Nat /\ \A i \in 1 .. n : s[i] \in S
    BY LenProperties, ElementOfSeq
  <1>2. f \in [1 .. n -> V] /\ \A i \in 1 .. n : f[i] = F[s[i]]
    BY <1>1 DEF Mapped
  <1>. HIDE DEF f, V
  <1>3. f \in Seq(V) /\ Len(f) = n
    <2>. HIDE DEF n
    <2>. QED BY <1>1, <1>2
  <1>4. Append(f, F[x]) = Mapped(Append(s, x), F)
    <2>. DEFINE e == F[x]  t == Append(s, x)  g == Mapped(t, F)  f2 == Append(f, e)
    <2>1. e \in V
      BY DEF V
    <2>. HIDE DEF e
    <2>2. /\ f2 \in Seq(V) /\ Len(f2) = n + 1
          /\ (\A i \in 1 .. n : f2[i] = f[i]) /\ f2[n + 1] = e
      <3>. HIDE DEF n
      <3>. QED BY <1>3, <2>1, AppendProperties
    <2>3. /\ t \in Seq(S) /\ Len(t) = n + 1
          /\ (\A i \in 1 .. n : t[i] = s[i]) /\ t[n + 1] = x
      BY AppendProperties
    <2>. HIDE DEF t, f2, n
    <2>4. g = [i \in 1 .. n + 1 |-> F[t[i]]]
      BY <2>3 DEF Mapped
    <2>5. \A i \in 1 .. n + 1 : i \in 1 .. n \/ i = n + 1
      BY <1>1
    <2>6. \A i \in 1 .. n + 1 : f2[i] = F[t[i]]
      BY <1>2, <2>2, <2>3, <2>5 DEF e
    <2>7. f2 = [i \in 1 .. n + 1 |-> f2[i]]
      BY <2>2, LenProperties
    <2>8. f2 = g
      BY <2>4, <2>6, <2>7
    <2>. QED BY <2>8 DEF f2, e, t
  <1>. QED BY <1>4 DEF f

\* How many there are does not depend on what they are.
LEMMA MapLength ==
  ASSUME NEW S, NEW s \in Seq(S), NEW F
  PROVE  Len(Mapped(s, F)) = Len(s) /\ Len(s) \in Nat
  <1>. DEFINE V == {F[y] : y \in S}
  <1>1. \A y \in S : F[y] \in V
    OBVIOUS
  <1>. HIDE DEF V
  <1>. QED BY <1>1, MappedIs, LenProperties

\* The first goes with the first.
LEMMA MapFirst ==
  ASSUME NEW S, NEW s \in Seq(S), NEW F, s # <<>>
  PROVE  Head(Mapped(s, F)) = F[Head(s)] /\ Tail(Mapped(s, F)) = Mapped(Tail(s), F)
  <1>. DEFINE f == Mapped(s, F)
              V == {F[y] : y \in S}
              n == Len(s)
  <1>1. n \in Nat /\ \A i \in 1 .. n : s[i] \in S
    BY LenProperties, ElementOfSeq
  <1>2. f \in [1 .. n -> V] /\ \A i \in 1 .. n : f[i] = F[s[i]]
    BY <1>1 DEF Mapped
  <1>. HIDE DEF f, V
  <1>3. f \in Seq(V) /\ Len(f) = n
    <2>. HIDE DEF n
    <2>. QED BY <1>1, <1>2
  <1>5. n \in Nat \ {0}
    <2>1. n # 0
      BY EmptySeq
    <2>. QED BY <1>1, <2>1
  <1>6. f # <<>>
    BY <1>3, <1>5, EmptySeq
  <1>7. Head(s) \in S /\ Head(s) = s[1] /\ Head(f) = f[1]
    BY <1>3, <1>6, HeadTailProperties
  <1>8. Head(f) = F[Head(s)]
    BY <1>2, <1>5, <1>7
  <1>. DEFINE t == Tail(s)  g == Mapped(t, F)  f2 == Tail(f)
  <1>9. /\ f2 \in Seq(V) /\ Len(f2) = n - 1
        /\ \A i \in 1 .. n - 1 : f2[i] = f[i + 1]
    BY <1>3, <1>6, HeadTailProperties
  <1>10. /\ t \in Seq(S) /\ Len(t) = n - 1
         /\ \A i \in 1 .. n - 1 : t[i] = s[i + 1]
    BY HeadTailProperties
  <1>. HIDE DEF t, f2, n
  <1>11. g = [i \in 1 .. n - 1 |-> F[t[i]]]
    BY <1>10 DEF Mapped
  <1>12. \A i \in 1 .. n - 1 : i + 1 \in 1 .. n
    BY <1>1
  <1>13. \A i \in 1 .. n - 1 : f2[i] = F[t[i]]
    BY <1>2, <1>9, <1>10, <1>12
  <1>14. f2 = [i \in 1 .. n - 1 |-> f2[i]]
    BY <1>9, LenProperties
  <1>15. f2 = g
    BY <1>11, <1>13, <1>14
  <1>. QED BY <1>8, <1>15 DEF f, f2, t

-----------------------------------------------------------------------------
(* The inductive invariant.                                                *)

\* Parts of a sequence with one more element.
LEMMA PartsOfAppend ==
  ASSUME NEW S, NEW s \in Seq(S), NEW x \in S
  PROVE  /\ \A a \in Nat \ {0}, b \in 0 .. Len(s) :
              SubSeq(Append(s, x), a, b) = SubSeq(s, a, b)
         /\ \A a \in 1 .. Len(s) + 1 :
              SubSeq(Append(s, x), a, Len(s) + 1) = Append(SubSeq(s, a, Len(s)), x)
  <1>. DEFINE n == Len(s)  u == Append(s, x)
  <1>1. n \in Nat
    BY LenProperties
  <1>2. u \in Seq(S) /\ Len(u) = n + 1 /\ (\A i \in 1 .. n : u[i] = s[i]) /\ u[n + 1] = x
    BY AppendProperties
  <1>3. Begins(s, u)
    BY <1>1, <1>2 DEF Begins
  <1>. HIDE DEF u
  <1>4. ASSUME NEW a \in Nat \ {0}, NEW b \in 0 .. n PROVE SubSeq(u, a, b) = SubSeq(s, a, b)
    <2>1. b \in Nat /\ b <= Len(s)
      BY <1>1
    <2>. QED BY <1>2, <1>3, <2>1, BeginsSubSeq
  <1>5. ASSUME NEW a \in 1 .. n + 1 PROVE SubSeq(u, a, n + 1) = Append(SubSeq(s, a, n), x)
    <2>. DEFINE m == n + 1  t == SubSeq(s, a, n)
    <2>1. a \in 1 .. Len(u) /\ m \in a .. Len(u) /\ m - 1 = n /\ a \in Nat \ {0} /\ n \in 0 .. n
      BY <1>1, <1>2
    <2>2. SubSeq(u, a, m) = SubSeq(u, a, m - 1) \o <<u[m]>>
      <3>. HIDE DEF m
      <3>. QED BY <1>2, <2>1, SubSeqRecursiveSecond
    <2>3. SubSeq(u, a, n) = t
      BY <1>4, <2>1
    <2>4. t \in Seq(S)
      <3>1. \A i \in a .. n : s[i] \in S
        <4>1. \A i \in a .. n : i \in 1 .. Len(s)
          BY <1>1
        <4>. QED BY <4>1, ElementOfSeq
      <3>2. a \in Int /\ n \in Int
        BY <1>1
      <3>. HIDE DEF n
      <3>. QED BY <3>1, <3>2, SubSeqProperties
    <2>. HIDE DEF t
    <2>5. Append(t, x) = t \o <<x>>
      BY <2>4, AppendIsConcat
    <2>6. SubSeq(u, a, m) = t \o <<x>>
      BY <1>2, <2>1, <2>2, <2>3
    <2>. QED BY <2>5, <2>6 DEF t
  <1>. QED BY <1>4, <1>5 DEF u

-----------------------------------------------------------------------------

\* The message of every clock.
Messages(size) == [c \in Clocks |-> make_test_str(c, size)]

\* What never changes, or only within its set.
Steady ==
  /\ test_str_size \in Sizes
  /\ clock \in Clocks
  /\ static_last_refresh_time \in Clocks \cup {0}

\* On their way are the messages made at the stamps.
FlightInv ==
  /\ stamps \in Seq(Clocks)
  /\ Len(flight) <= MaxFlight
  /\ flight = Mapped(stamps, Messages(test_str_size))
  /\ flight # <<>> => Makes(test_str_size)

\* Every message back has an interval, which is its latency if it carries a clock.
CountInv ==
  /\ latencies \in Seq(Int)
  /\ recv_package_interval_ \in Seq(Ints)
  /\ Len(latencies) = Len(recv_package_interval_)
  /\ test_str_size > ClockDigits =>
       recv_package_interval_ = Mapped(latencies, [n \in Int |-> AsInt(n)])
  /\ Len(latencies) + Len(flight) <= MaxMade
  /\ static_recved_bytes \in 0 .. Len(latencies) * test_str_size

\* The intervals of whole windows.
Done == (Len(recv_package_interval_) \div Window) * Window

\* The intervals after them are in recv_package_interval10_; printed is the last of them.
WindowInv ==
  /\ recv_package_interval10_
       = SubSeq(recv_package_interval_, Done + 1, Len(recv_package_interval_))
  /\ printed = IF Done = 0
               THEN [count |-> 0, max |-> 0, average10 |-> 0, average_total |-> 0]
               ELSE FiguresOf(SubSeq(recv_package_interval_, 1, Done),
                              SubSeq(recv_package_interval_, Done - Window + 1, Done))

\* The inductive invariant.
Inv == Steady /\ FlightInv /\ CountInv /\ WindowInv

\* The message that comes back first.
LEMMA FirstBack ==
  ASSUME Steady, FlightInv, flight # <<>>
  PROVE  LET time == get_time_from_msg(Head(flight))
         IN /\ stamps # <<>> /\ Head(stamps) \in Clocks
            /\ Len(Head(flight)) = test_str_size
            /\ time = IF test_str_size > ClockDigits THEN Head(stamps) ELSE 0
            /\ clock - time \in Int /\ clock - Head(stamps) \in Int
            /\ AsInt(clock - time) \in Ints
  <1>. DEFINE F == Messages(test_str_size)  c == Head(stamps)
              time == get_time_from_msg(Head(flight))
  <1>1. stamps \in Seq(Clocks) /\ flight = Mapped(stamps, F) /\ Makes(test_str_size)
    BY DEF FlightInv
  <1>2. stamps # <<>>
    <2>1. Len(stamps) = 0 => Mapped(stamps, F) = <<>>
      BY DEF Mapped
    <2>. QED BY <1>1, <2>1, EmptySeq
  <1>. HIDE DEF F
  <1>3. c \in Clocks /\ Head(flight) = F[c]
    <2>1. c \in Clocks
      BY <1>1, <1>2, HeadTailProperties
    <2>2. Head(Mapped(stamps, F)) = F[c]
      BY <1>1, <1>2, MapFirst
    <2>. QED BY <1>1, <2>1, <2>2
  <1>. HIDE DEF c
  <1>4. Head(flight) = make_test_str(c, test_str_size)
    BY <1>3 DEF F, Messages
  <1>5. Len(Head(flight)) = test_str_size /\ time = IF test_str_size > ClockDigits THEN c ELSE 0
    <2>1. test_str_size \in Sizes
      BY DEF Steady
    <2>. QED BY <1>1, <1>3, <1>4, <2>1, MessageIs
  <1>. HIDE DEF time
  <1>6. c \in Nat /\ clock \in Nat
    BY <1>3, Bits DEF Steady
  <1>7. clock - time \in Int /\ clock - c \in Int
    BY <1>5, <1>6
  <1>8. AsInt(clock - time) \in Ints
    BY <1>7, AsIntIs
  <1>. QED BY <1>2, <1>3, <1>5, <1>7, <1>8 DEF c, time

\* Every step preserves what is steady,
LEMMA SteadyKept ==
  ASSUME Steady, [Next]_vars
  PROVE  Steady'
  <1>1. CASE ClockMoves
    BY <1>1 DEF Steady, ClockMoves
  <1>2. CASE Make
    BY <1>2 DEF Steady, Make
  <1>3. CASE recv_func
    BY <1>3 DEF Steady, recv_func, PrintFigures
  <1>4. CASE UNCHANGED vars
    BY <1>4 DEF Steady, vars
  <1>. QED BY <1>1, <1>2, <1>3, <1>4 DEF Next

\* what is on its way,
LEMMA FlightKept ==
  ASSUME Steady, FlightInv, [Next]_vars
  PROVE  FlightInv'
  <1>1. CASE ClockMoves
    BY <1>1 DEF FlightInv, ClockMoves
  <1>2. CASE Make
    <2>. DEFINE F == Messages(test_str_size)
    <2>1. clock \in Clocks /\ F[clock] = make_test_str(clock, test_str_size)
      BY DEF Steady, Messages
    <2>2. stamps \in Seq(Clocks) /\ flight = Mapped(stamps, F)
      BY DEF FlightInv
    <2>3. /\ stamps' = Append(stamps, clock) /\ flight' = Append(flight, F[clock])
          /\ test_str_size' = test_str_size /\ Makes(test_str_size) /\ Len(flight) < MaxFlight
      BY <1>2, <2>1 DEF Make
    <2>. HIDE DEF F
    <2>4. stamps' \in Seq(Clocks) /\ flight' = Mapped(stamps', F)
      <3>1. Append(stamps, clock) \in Seq(Clocks)
        BY <2>1, <2>2, AppendProperties
      <3>2. Append(Mapped(stamps, F), F[clock]) = Mapped(Append(stamps, clock), F)
        BY <2>1, <2>2, MapAppend
      <3>. QED BY <2>2, <2>3, <3>1, <3>2
    <2>5. Len(flight') <= MaxFlight
      <3>1. Len(flight) = Len(stamps) /\ Len(stamps) \in Nat
        BY <2>2, MapLength
      <3>2. Len(flight') = Len(stamps')
        BY <2>4, MapLength
      <3>3. Len(stamps') = Len(stamps) + 1
        BY <2>1, <2>2, <2>3, AppendProperties
      <3>. QED BY <2>3, <3>1, <3>2, <3>3, Bits
    <2>. QED BY <2>3, <2>4, <2>5 DEF FlightInv, F
  <1>3. CASE recv_func
    <2>. DEFINE F == Messages(test_str_size)
    <2>1. stamps \in Seq(Clocks) /\ flight = Mapped(stamps, F) /\ clock \in Clocks
      BY DEF FlightInv, Steady
    <2>2. flight # <<>> /\ flight' = Tail(flight) /\ stamps' = Tail(stamps)
          /\ test_str_size' = test_str_size
      BY <1>3 DEF recv_func
    <2>3. stamps # <<>>
      BY <2>2, FirstBack
    <2>. HIDE DEF F
    <2>4. stamps' \in Seq(Clocks) /\ flight' = Mapped(stamps', F)
      <3>1. Tail(stamps) \in Seq(Clocks)
        BY <2>1, <2>3, HeadTailProperties
      <3>2. Tail(Mapped(stamps, F)) = Mapped(Tail(stamps), F)
        BY <2>1, <2>3, MapFirst
      <3>. QED BY <2>1, <2>2, <3>1, <3>2
    <2>5. Len(flight') <= MaxFlight
      <3>1. Len(stamps) \in Nat /\ Len(Tail(stamps)) = Len(stamps) - 1
        BY <2>1, <2>3, HeadTailProperties, LenProperties
      <3>4. Len(Mapped(stamps, F)) = Len(stamps)
        BY <2>1, MapLength
      <3>2. Len(Mapped(stamps', F)) = Len(stamps')
        BY <2>4, MapLength
      <3>3. Len(flight) <= MaxFlight
        BY DEF FlightInv
      <3>5. Len(flight') = Len(flight) - 1
        BY <2>1, <2>2, <2>4, <3>1, <3>2, <3>4
      <3>. QED BY <2>1, <3>1, <3>3, <3>4, <3>5, Bits
    <2>. QED BY <2>2, <2>4, <2>5 DEF FlightInv, F
  <1>4. CASE UNCHANGED vars
    BY <1>4 DEF FlightInv, vars
  <1>. QED BY <1>1, <1>2, <1>3, <1>4 DEF Next

-----------------------------------------------------------------------------
(* What recv_func preserves.                                               *)

\* What recv_func does to the vectors.
LEMMA Received ==
  ASSUME Steady, FlightInv, recv_func
  PROVE  \E x \in Ints :
           /\ x = AsInt(clock - get_time_from_msg(Head(flight)))
           /\ recv_package_interval_' = Append(recv_package_interval_, x)
           /\ IF Len(recv_package_interval_') % Window = 0
              THEN /\ recv_package_interval10_' = <<>>
                   /\ printed' = FiguresOf(recv_package_interval_',
                                           Append(recv_package_interval10_, x))
              ELSE /\ recv_package_interval10_' = Append(recv_package_interval10_, x)
                   /\ printed' = printed
           /\ static_recved_bytes' \in {0, static_recved_bytes + test_str_size}
  <1>. DEFINE x == AsInt(clock - get_time_from_msg(Head(flight)))
              all == Append(recv_package_interval_, x)
  <1>1. flight # <<>>
    BY DEF recv_func
  <1>2. x \in Ints /\ Len(Head(flight)) = test_str_size
    BY <1>1, FirstBack
  <1>3. /\ recv_package_interval_' = all
        /\ IF Len(all) % Window = 0
           THEN /\ recv_package_interval10_' = <<>>
                /\ printed' = FiguresOf(all, Append(recv_package_interval10_, x))
           ELSE /\ recv_package_interval10_' = Append(recv_package_interval10_, x)
                /\ printed' = printed
        /\ static_recved_bytes' \in {0, static_recved_bytes + Len(Head(flight))}
    <2>1. CASE Len(all) % Window = 0
      <3>1. /\ recv_package_interval_' = all
            /\ PrintFigures(all, Append(recv_package_interval10_, x),
                            static_recved_bytes + Len(Head(flight)))
        BY <2>1 DEF recv_func
      <3>. HIDE DEF all, x
      <3>2. static_recved_bytes' \in {0, static_recved_bytes + Len(Head(flight))}
        BY <3>1 DEF PrintFigures
      <3>. QED BY <2>1, <3>1, <3>2 DEF PrintFigures
    <2>2. CASE Len(all) % Window # 0
      BY <2>2 DEF recv_func
    <2>. QED BY <2>1, <2>2
  <1>. HIDE DEF all, x
  <1>4. static_recved_bytes' \in {0, static_recved_bytes + test_str_size}
    BY <1>2, <1>3
  <1>. QED BY <1>2, <1>3, <1>4 DEF all, x

\* How many are on their way.
LEMMA FlightLengths ==
  ASSUME Steady, FlightInv
  PROVE  /\ Len(flight) \in Nat /\ Len(flight) = Len(stamps)
         /\ Len(Append(flight, make_test_str(clock, test_str_size))) = Len(flight) + 1
         /\ flight # <<>> => Len(flight) \in Nat \ {0} /\ Len(Tail(flight)) = Len(flight) - 1
  <1>. DEFINE F == Messages(test_str_size)  V == {F[y] : y \in Clocks}
              e == make_test_str(clock, test_str_size)
  <1>1. stamps \in Seq(Clocks) /\ flight = Mapped(stamps, F) /\ clock \in Clocks
    BY DEF FlightInv, Steady
  <1>2. e \in V /\ \A y \in Clocks : F[y] \in V
    BY <1>1 DEF Messages
  <1>. HIDE DEF F, e
  <1>3. flight \in Seq(V) /\ Len(flight) = Len(stamps)
    <2>. HIDE DEF V
    <2>. QED BY <1>1, <1>2, MappedIs
  <1>. HIDE DEF V
  <1>4. Len(Append(flight, e)) = Len(flight) + 1 /\ Len(flight) \in Nat
    BY <1>2, <1>3, AppendProperties, LenProperties
  <1>5. flight # <<>> => Len(flight) \in Nat \ {0} /\ Len(Tail(flight)) = Len(flight) - 1
    BY <1>3, HeadTailProperties, EmptySeq
  <1>. QED BY <1>3, <1>4, <1>5 DEF e

\* Every step preserves what is known of the intervals,
LEMMA CountKept ==
  ASSUME Steady, FlightInv, CountInv, [Next]_vars
  PROVE  CountInv'
  <1>1. CASE ClockMoves
    BY <1>1 DEF CountInv, ClockMoves
  <1>2. CASE Make
    <2>1. /\ flight' = Append(flight, make_test_str(clock, test_str_size))
          /\ Len(latencies) + Len(flight) < MaxMade
      BY <1>2 DEF Make
    <2>2. Len(flight') = Len(flight) + 1 /\ Len(flight) \in Nat
          /\ Len(latencies) \in Nat /\ MaxMade \in Nat
      <3>1. latencies \in Seq(Int)
        BY DEF CountInv
      <3>. QED BY <2>1, <3>1, FlightLengths, LenProperties, Bits
    <2>3. Len(latencies) + Len(flight') <= MaxMade
      BY <2>1, <2>2
    <2>4. UNCHANGED <<latencies, recv_package_interval_, test_str_size, static_recved_bytes>>
      BY <1>2 DEF Make
    <2>. QED BY <2>3, <2>4 DEF CountInv
  <1>3. CASE recv_func
    <2>. DEFINE A == [n \in Int |-> AsInt(n)]  d == clock - Head(stamps)
    <2>1. PICK x \in Ints :
            /\ x = AsInt(clock - get_time_from_msg(Head(flight)))
            /\ recv_package_interval_' = Append(recv_package_interval_, x)
            /\ static_recved_bytes' \in {0, static_recved_bytes + test_str_size}
      BY <1>3, Received
    <2>2. /\ flight # <<>> /\ flight' = Tail(flight) /\ latencies' = Append(latencies, d)
          /\ test_str_size' = test_str_size
      BY <1>3 DEF recv_func
    <2>3. d \in Int /\ test_str_size > ClockDigits => x = A[d]
      <3>1. test_str_size > ClockDigits => get_time_from_msg(Head(flight)) = Head(stamps)
        BY <2>2, FirstBack
      <3>2. d \in Int
        BY <2>2, FirstBack
      <3>. QED BY <2>1, <3>1, <3>2
    <2>4. d \in Int
      BY <2>2, FirstBack
    <2>. HIDE DEF A, d
    <2>5. /\ latencies \in Seq(Int) /\ recv_package_interval_ \in Seq(Ints)
          /\ Len(latencies) = Len(recv_package_interval_)
          /\ test_str_size > ClockDigits => recv_package_interval_ = Mapped(latencies, A)
          /\ Len(latencies) + Len(flight) <= MaxMade
          /\ static_recved_bytes \in 0 .. Len(latencies) * test_str_size
      BY DEF CountInv, A
    <2>6. /\ latencies' \in Seq(Int) /\ Len(latencies') = Len(latencies) + 1
          /\ recv_package_interval_' \in Seq(Ints)
          /\ Len(recv_package_interval_') = Len(recv_package_interval_) + 1
      BY <2>1, <2>2, <2>4, <2>5, AppendProperties
    <2>7. test_str_size > ClockDigits => recv_package_interval_' = Mapped(latencies', A)
      <3>. SUFFICES ASSUME test_str_size > ClockDigits
                    PROVE  recv_package_interval_' = Mapped(latencies', A)
        OBVIOUS
      <3>1. recv_package_interval_' = Append(Mapped(latencies, A), A[d])
        BY <2>1, <2>3, <2>4, <2>5
      <3>. QED BY <2>2, <2>4, <2>5, <3>1, MapAppend
    <2>8. Len(flight) \in Nat \ {0} /\ Len(flight') = Len(flight) - 1
      BY <2>2, FlightLengths
    <2>9. Len(latencies) \in Nat /\ MaxMade \in Nat /\ test_str_size \in Nat
      BY <2>5, LenProperties, Bits DEF Steady
    <2>10. Len(latencies') + Len(flight') <= MaxMade
      BY <2>5, <2>6, <2>8, <2>9
    <2>11. static_recved_bytes' \in 0 .. Len(latencies') * test_str_size
      <3>. DEFINE l == Len(latencies)  n == test_str_size  b == static_recved_bytes
      <3>1. l \in Nat /\ n \in Nat /\ b \in 0 .. l * n /\ static_recved_bytes' \in {0, b + n}
        BY <2>1, <2>5, <2>9
      <3>. HIDE DEF l, n, b
      <3>2. (l + 1) * n = l * n + n /\ l * n \in Nat
        BY <3>1
      <3>3. static_recved_bytes' \in 0 .. (l + 1) * n
        BY <3>1, <3>2
      <3>. QED BY <2>6, <3>3 DEF l, n
    <2>. QED BY <2>2, <2>5, <2>6, <2>7, <2>10, <2>11 DEF CountInv, A
  <1>4. CASE UNCHANGED vars
    BY <1>4 DEF CountInv, vars
  <1>. QED BY <1>1, <1>2, <1>3, <1>4 DEF Next

\* and of the windows.
LEMMA WindowKept ==
  ASSUME Steady, FlightInv, CountInv, WindowInv, [Next]_vars
  PROVE  WindowInv'
  <1>1. CASE ClockMoves
    BY <1>1 DEF WindowInv, Done, ClockMoves
  <1>2. CASE Make
    BY <1>2 DEF WindowInv, Done, Make
  <1>3. CASE recv_func
    <2>. DEFINE I == recv_package_interval_  n == Len(I)  W == Window  d == Done
                ten == recv_package_interval10_
    <2>1. PICK x \in Ints :
            /\ I' = Append(I, x)
            /\ IF Len(I') % W = 0
               THEN ten' = <<>> /\ printed' = FiguresOf(I', Append(ten, x))
               ELSE ten' = Append(ten, x) /\ printed' = printed
      BY <1>3, Received
    <2>2. /\ I \in Seq(Ints) /\ n \in Nat /\ W \in Nat \ {0} /\ d = (n \div W) * W
          /\ I' \in Seq(Ints) /\ Len(I') = n + 1 /\ Done' = ((n + 1) \div W) * W
      <3>1. I \in Seq(Ints)
        BY DEF CountInv
      <3>2. I' \in Seq(Ints) /\ Len(I') = n + 1 /\ n \in Nat
        BY <2>1, <3>1, AppendProperties, LenProperties
      <3>. QED BY <3>1, <3>2, Bits DEF Done
    <2>3. ten = SubSeq(I, d + 1, n)
      BY DEF WindowInv
    <2>. DEFINE J == I'
    <2>4. J = Append(I, x) /\ J = I'
      BY <2>1
    <2>. HIDE DEF J, n, W, d
    <2>5. /\ d \in 0 .. n /\ n - d < W
          /\ (n + 1) % W = 0 => Done' = n + 1 /\ d = n + 1 - W
          /\ (n + 1) % W # 0 => Done' = d
      BY <2>2, WindowStep
    <2>6. /\ \A a \in Nat \ {0}, b \in 0 .. n : SubSeq(J, a, b) = SubSeq(I, a, b)
          /\ SubSeq(J, d + 1, n + 1) = Append(ten, x)
      <3>1. d + 1 \in 1 .. n + 1
        BY <2>2, <2>5
      <3>2. /\ \A a \in Nat \ {0}, b \in 0 .. Len(I) :
                 SubSeq(Append(I, x), a, b) = SubSeq(I, a, b)
            /\ \A a \in 1 .. Len(I) + 1 :
                 SubSeq(Append(I, x), a, Len(I) + 1) = Append(SubSeq(I, a, Len(I)), x)
        BY <2>2, PartsOfAppend
      <3>3. n = Len(I)
        BY DEF n
      <3>. QED BY <2>3, <2>4, <3>1, <3>2, <3>3
    <2>7. CASE (n + 1) % W = 0
      <3>1. Done' = n + 1 /\ d + 1 = n + 1 - W + 1 /\ Done' # 0
        BY <2>2, <2>5, <2>7
      <3>2. ten' = <<>> /\ printed' = FiguresOf(J, Append(ten, x))
        BY <2>1, <2>2, <2>4, <2>7
      <3>3. SubSeq(J, n + 1 + 1, n + 1) = <<>>
        <4>1. n + 1 + 1 \in Int /\ n + 1 \in Int /\ n + 1 < n + 1 + 1
          BY <2>2
        <4>. QED BY <4>1, SubSeqEmpty
      <3>4. SubSeq(J, 1, n + 1) = J
        BY <2>2, <2>4, SubSeqFull
      <3>5. ten' = SubSeq(J, Done' + 1, n + 1)
        BY <3>1, <3>2, <3>3
      <3>6. printed' = FiguresOf(SubSeq(J, 1, Done'), SubSeq(J, Done' - W + 1, Done'))
        <4>. DEFINE e == Done'
        <4>1. e = n + 1 /\ e - W + 1 = d + 1
          BY <2>2, <2>5, <2>7
        <4>. HIDE DEF e
        <4>2. SubSeq(J, e - W + 1, e) = Append(ten, x) /\ SubSeq(J, 1, e) = J
          BY <2>6, <3>4, <4>1
        <4>. QED BY <3>2, <4>2 DEF e
      <3>. QED BY <2>2, <2>4, <3>1, <3>5, <3>6 DEF WindowInv, W
    <2>8. CASE (n + 1) % W # 0
      <3>1. Done' = d
        BY <2>2, <2>5, <2>8
      <3>2. ten' = SubSeq(J, Done' + 1, n + 1) /\ printed' = printed
        BY <2>1, <2>2, <2>6, <2>8, <3>1
      <3>3. printed = IF d = 0
                      THEN [count |-> 0, max |-> 0, average10 |-> 0, average_total |-> 0]
                      ELSE FiguresOf(SubSeq(J, 1, d), SubSeq(J, d - W + 1, d))
        <4>1. CASE d = 0
          BY <4>1 DEF WindowInv, d
        <4>2. CASE d # 0
          <5>1. d \in Nat /\ d >= W
            <6>1. d = (n \div W) * W /\ n \div W \in Nat
              BY <2>2
            <6>. DEFINE q == n \div W
            <6>2. q \in Nat /\ d = q * W
              BY <6>1
            <6>. HIDE DEF q
            <6>3. q # 0
              BY <2>2, <4>2, <6>2
            <6>4. q * W >= W /\ q * W \in Nat
              BY <2>2, <6>2, <6>3
            <6>. QED BY <6>2, <6>4
          <5>2. 1 \in Nat \ {0} /\ d \in 0 .. n /\ d - W + 1 \in Nat \ {0}
            BY <2>2, <2>5, <5>1
          <5>3. SubSeq(J, 1, d) = SubSeq(I, 1, d)
                /\ SubSeq(J, d - W + 1, d) = SubSeq(I, d - W + 1, d)
            <6>. DEFINE one == 1  from == d - W + 1
            <6>1. one \in Nat \ {0} /\ from \in Nat \ {0}
              BY <5>2
            <6>. HIDE DEF one, from
            <6>2. SubSeq(J, one, d) = SubSeq(I, one, d) /\ SubSeq(J, from, d) = SubSeq(I, from, d)
              BY <2>6, <5>2, <6>1
            <6>. QED BY <6>2 DEF one, from
          <5>4. printed = FiguresOf(SubSeq(I, 1, d), SubSeq(I, d - W + 1, d))
            BY <4>2 DEF WindowInv, d, W
          <5>. QED BY <4>2, <5>3, <5>4
        <4>. QED BY <4>1, <4>2
      <3>. QED BY <2>2, <2>4, <3>1, <3>2, <3>3 DEF WindowInv, W
    <2>. QED BY <2>7, <2>8
  <1>4. CASE UNCHANGED vars
    BY <1>4 DEF WindowInv, Done, vars
  <1>. QED BY <1>1, <1>2, <1>3, <1>4 DEF Next

-----------------------------------------------------------------------------
(* The invariant, and what follows from it.                                *)

\* The invariant holds at the start,
LEMMA InvInit == Init => Inv
  <1>. SUFFICES ASSUME Init PROVE Inv
    OBVIOUS
  <1>1. Steady
    BY DEF Init, Steady
  <1>2. FlightInv
    <2>1. stamps \in Seq(Clocks) /\ Len(stamps) = 0 /\ flight = <<>> /\ Len(flight) = 0
      BY DEF Init
    <2>2. Mapped(stamps, Messages(test_str_size)) = <<>>
      BY <2>1 DEF Mapped
    <2>. QED BY <2>1, <2>2, Bits DEF FlightInv
  <1>3. CountInv
    <2>1. /\ latencies = <<>> /\ recv_package_interval_ = <<>> /\ flight = <<>>
          /\ static_recved_bytes = 0 /\ Len(<<>>) = 0 /\ <<>> \in Seq(Int) /\ <<>> \in Seq(Ints)
      BY DEF Init
    <2>2. Mapped(latencies, [n \in Int |-> AsInt(n)]) = <<>>
      BY <2>1 DEF Mapped
    <2>3. 0 \in 0 .. 0 * test_str_size
      BY <1>1, Bits DEF Steady
    <2>. QED BY <2>1, <2>2, <2>3, Bits DEF CountInv
  <1>4. WindowInv
    <2>1. /\ recv_package_interval_ = <<>> /\ recv_package_interval10_ = <<>> /\ Len(<<>>) = 0
          /\ printed = [count |-> 0, max |-> 0, average10 |-> 0, average_total |-> 0]
      BY DEF Init
    <2>2. Done = 0
      <3>. DEFINE W == Window
      <3>1. W \in Nat \ {0} /\ 0 = W * 0 + 0 /\ 0 \in 0 .. W - 1
        BY Bits
      <3>. HIDE DEF W
      <3>2. 0 \div W = 0
        BY <3>1
      <3>. QED BY <2>1, <3>1, <3>2 DEF Done, W
    <2>3. SubSeq(<<>>, 0 + 1, 0) = <<>>
      BY SubSeqEmpty
    <2>. QED BY <2>1, <2>2, <2>3 DEF WindowInv
  <1>. QED BY <1>1, <1>2, <1>3, <1>4 DEF Inv

\* every step preserves it.
LEMMA InvNext == Inv /\ [Next]_vars => Inv'
  BY SteadyKept, FlightKept, CountKept, WindowKept DEF Inv

\* Hence it always holds.
LEMMA AlwaysInv == Spec => []Inv
  BY InvInit, InvNext, PTL DEF Spec

-----------------------------------------------------------------------------

\* The windows printed and the one that is filling.
LEMMA Windows ==
  ASSUME CountInv
  PROVE  /\ Done \in 0 .. Len(recv_package_interval_)
         /\ Len(recv_package_interval_) - Done < Window
         /\ Done # 0 => Done >= Window
         /\ Len(recv_package_interval_) \in Nat
  <1>. DEFINE n == Len(recv_package_interval_)  W == Window  q == n \div W
  <1>1. n \in Nat /\ W \in Nat \ {0} /\ Done = q * W
    BY LenProperties, Bits DEF CountInv, Done
  <1>. HIDE DEF n, W
  <1>2. q * W \in 0 .. n /\ n - q * W < W
    BY <1>1, WindowStep
  <1>3. q \in Nat
    BY <1>1
  <1>. HIDE DEF q
  <1>4. q # 0 => q * W >= W
    BY <1>1, <1>3
  <1>5. q = 0 => q * W = 0
    BY <1>1
  <1>. QED BY <1>1, <1>2, <1>4, <1>5 DEF n, W

\* A part of a sequence.
LEMMA PartIs ==
  ASSUME NEW S, NEW s \in Seq(S), NEW a \in Nat \ {0}, NEW b \in 0 .. Len(s)
  PROVE  /\ SubSeq(s, a, b) \in Seq(S)
         /\ Len(SubSeq(s, a, b)) = IF a <= b THEN b - a + 1 ELSE 0
         /\ a <= b => SubSeq(s, a, b) # <<>>
         /\ \A i \in 1 .. b - a + 1 : SubSeq(s, a, b)[i] = s[a + i - 1]
  <1>1. Len(s) \in Nat
    BY LenProperties
  <1>2. a \in Int /\ b \in Int /\ \A i \in a .. b : i \in 1 .. Len(s)
    BY <1>1
  <1>3. \A i \in a .. b : s[i] \in S
    BY <1>2, ElementOfSeq
  <1>4. /\ SubSeq(s, a, b) \in Seq(S)
        /\ Len(SubSeq(s, a, b)) = IF a <= b THEN b - a + 1 ELSE 0
        /\ \A i \in 1 .. b - a + 1 : SubSeq(s, a, b)[i] = s[a + i - 1]
    BY <1>2, <1>3, SubSeqProperties
  <1>5. a <= b => SubSeq(s, a, b) # <<>>
    <2>1. Len(<<>>) = 0
      OBVIOUS
    <2>. QED BY <1>2, <1>4, <2>1
  <1>. QED BY <1>4, <1>5

\* The vectors hold ints, the window's never ten of them after recv_func returns, the bytes counted
\* for the KB/s are those of messages made, and a line has int figures (recv_func).
THEOREM Typed == Spec => []TypeOK
  <1>1. Inv => TypeOK
    <2>. SUFFICES ASSUME Inv PROVE TypeOK
      OBVIOUS
    <2>. DEFINE I == recv_package_interval_  n == Len(I)  d == Done
    <2>1. Steady /\ FlightInv /\ CountInv /\ WindowInv
      BY DEF Inv
    <2>2. I \in Seq(Ints) /\ d \in 0 .. n /\ n - d < Window /\ (d # 0 => d >= Window) /\ n \in Nat
      BY <2>1, Windows DEF CountInv
    <2>3. Window \in Nat \ {0}
      BY Bits
    <2>. HIDE DEF d
    <2>4. /\ recv_package_interval10_ \in Seq(Ints)
          /\ Len(recv_package_interval10_) < Window
      <3>1. recv_package_interval10_ = SubSeq(I, d + 1, n)
        BY <2>1 DEF WindowInv, d
      <3>2. d + 1 \in Nat \ {0} /\ n \in 0 .. Len(I)
        BY <2>2
      <3>3. /\ SubSeq(I, d + 1, n) \in Seq(Ints)
            /\ Len(SubSeq(I, d + 1, n)) = IF d + 1 <= n THEN n - (d + 1) + 1 ELSE 0
        <4>. DEFINE a == d + 1
        <4>1. a \in Nat \ {0}
          BY <3>2
        <4>. HIDE DEF a, n
        <4>2. /\ SubSeq(I, a, n) \in Seq(Ints)
              /\ Len(SubSeq(I, a, n)) = IF a <= n THEN n - a + 1 ELSE 0
          BY <2>2, <3>2, <4>1, PartIs
        <4>. QED BY <4>2 DEF a
      <3>. HIDE DEF n
      <3>. QED BY <2>2, <2>3, <3>1, <3>3
    <2>5. static_recved_bytes \in 0 .. MaxMade * test_str_size
      <3>. DEFINE l == Len(latencies)  m == MaxMade  k == test_str_size
      <3>1. l \in Nat /\ m \in Nat /\ k \in Nat /\ static_recved_bytes \in 0 .. l * k
        BY <2>1, LenProperties, Bits DEF CountInv, Steady
      <3>2. l <= m
        <4>1. Len(flight) \in Nat
          BY <2>1, FlightLengths
        <4>2. l + Len(flight) <= m
          BY <2>1 DEF CountInv
        <4>. HIDE DEF l, m
        <4>. QED BY <3>1, <4>1, <4>2
      <3>. HIDE DEF l, m, k
      <3>3. l * k <= m * k /\ l * k \in Nat /\ m * k \in Nat
        BY <3>1, <3>2
      <3>4. static_recved_bytes \in 0 .. m * k
        BY <3>1, <3>3
      <3>. QED BY <3>4 DEF m, k
    <2>6. printed \in [count : Nat, max : Ints, average10 : Ints, average_total : Ints]
      <3>1. CASE d = 0
        <4>1. printed = [count |-> 0, max |-> 0, average10 |-> 0, average_total |-> 0]
          BY <2>1, <3>1 DEF WindowInv, d
        <4>2. 0 \in Nat /\ 0 \in Ints
          BY AsIntIs
        <4>. QED BY <4>1, <4>2
      <3>2. CASE d # 0
        <4>. DEFINE one == 1  a == d - Window + 1
                    all == SubSeq(I, one, d)  ten == SubSeq(I, a, d)
        <4>1. printed = FiguresOf(all, ten)
          BY <2>1, <3>2 DEF WindowInv, d
        <4>2. one \in Nat \ {0} /\ a \in Nat \ {0} /\ one <= d /\ a <= d
          BY <2>2, <2>3, <3>2
        <4>. HIDE DEF one, a
        <4>3. all \in Seq(Ints) /\ all # <<>> /\ ten \in Seq(Ints) /\ ten # <<>>
          BY <2>2, <4>2, PartIs
        <4>. HIDE DEF all, ten
        <4>. QED BY <4>1, <4>3, FiguresAre
      <3>. QED BY <3>1, <3>2
    <2>7. /\ test_str_size \in Sizes /\ clock \in Clocks
          /\ static_last_refresh_time \in Clocks \cup {0} /\ Len(flight) <= MaxFlight
      BY <2>1 DEF Steady, FlightInv
    <2>. QED BY <2>2, <2>4, <2>5, <2>6, <2>7 DEF TypeOK
  <1>. QED BY <1>1, AlwaysInv, PTL

\* A message on its way.
LEMMA OnItsWay ==
  ASSUME Inv, NEW i \in 1 .. Len(flight)
  PROVE  /\ Len(flight[i]) = test_str_size
         /\ Tells(SubSeq(flight[i], ClockDigits + 1, Len(flight[i])))
         /\ test_str_size > ClockDigits => get_time_from_msg(flight[i]) = stamps[i]
  <1>. DEFINE F == Messages(test_str_size)
  <1>1. /\ stamps \in Seq(Clocks) /\ flight = Mapped(stamps, F) /\ test_str_size \in Sizes
        /\ (flight # <<>> => Makes(test_str_size)) /\ Len(flight) \in Nat
        /\ Len(flight) = Len(stamps)
    BY FlightLengths DEF Inv, FlightInv, Steady
  <1>2. i \in 1 .. Len(stamps)
    BY <1>1
  <1>3. Makes(test_str_size)
    <2>1. Len(flight) # 0
      BY <1>1
    <2>2. flight = <<>> => Len(flight) = 0
      OBVIOUS
    <2>. QED BY <1>1, <2>1, <2>2
  <1>4. stamps[i] \in Clocks /\ flight[i] = make_test_str(stamps[i], test_str_size)
    <2>1. stamps[i] \in Clocks
      BY <1>1, <1>2, ElementOfSeq
    <2>2. flight[i] = F[stamps[i]]
      <3>. HIDE DEF F
      <3>. QED BY <1>1, <1>2 DEF Mapped
    <2>. QED BY <2>1, <2>2 DEF Messages
  <1>. QED BY <1>1, <1>3, <1>4, MessageIs

\* Every message on its way has the size asked for and gives back the clock it was made at
\* (make_test_str, get_time_from_msg).
THEOREM ClocksCarried == Spec => []MessageCarriesItsClock
  <1>1. Inv => MessageCarriesItsClock
    BY OnItsWay DEF MessageCarriesItsClock
  <1>. QED BY <1>1, AlwaysInv, PTL

\* A digit of a message's padding is the last digit of its place, and the number in a parenthesis
\* is the place of the one that closes it (test_str).
THEOREM PaddingTells == Spec => []PaddingTellsItsPlace
  <1>1. Inv => PaddingTellsItsPlace
    BY OnItsWay DEF PaddingTellsItsPlace, Tells
  <1>. QED BY <1>1, AlwaysInv, PTL

\* The figures printed are the maximum and the average of the last window and the average of all,
\* while the sums fit an int and the latter is not negative; overflows on the way to a sum do no
\* harm (recv_func).
THEOREM Averages == Spec => []AveragesRight
  <1>1. Inv => AveragesRight
    <2>. SUFFICES ASSUME Inv, test_str_size > ClockDigits, printed.count > 0,
                         ToSet(SubSeq(latencies, 1, printed.count)) \subseteq Ints
                  PROVE  LET all == SubSeq(latencies, 1, printed.count)
                             ten == SubSeq(all, printed.count - Window + 1, printed.count)
                         IN /\ printed.max \in ToSet(ten) /\ \A x \in ToSet(ten) : x <= printed.max
                            /\ TrueSum(ten) \in Ints =>
                                 printed.average10 = Quotient(TrueSum(ten), Window)
                            /\ TrueSum(all) \in 0 .. MaxInt =>
                                 printed.average_total = TrueSum(all) \div printed.count
      BY DEF AveragesRight
    <2>. DEFINE I == recv_package_interval_  n == Len(I)  d == Done  W == Window
                one == 1  a == d - W + 1
                allI == SubSeq(I, one, d)  tenI == SubSeq(I, a, d)
                all == SubSeq(latencies, one, d)  ten == SubSeq(all, a, d)
    <2>1. Steady /\ FlightInv /\ CountInv /\ WindowInv
      BY DEF Inv
    <2>2. I \in Seq(Ints) /\ d \in 0 .. n /\ (d # 0 => d >= W) /\ n \in Nat /\ W \in Nat \ {0}
      BY <2>1, Windows, Bits DEF CountInv
    <2>3. /\ latencies \in Seq(Int) /\ Len(latencies) = n
          /\ I = Mapped(latencies, [k \in Int |-> AsInt(k)])
      BY <2>1 DEF CountInv
    <2>4. d # 0 /\ printed = FiguresOf(allI, tenI)
      BY <2>1 DEF WindowInv
    <2>5. one \in Nat \ {0} /\ a \in Nat \ {0} /\ one <= d /\ a <= d /\ d \in Nat
      BY <2>2, <2>4
    <2>. HIDE DEF d, W, a
    <2>6. /\ allI \in Seq(Ints) /\ allI # <<>> /\ Len(allI) = d
          /\ \A i \in 1 .. d : allI[i] = I[i]
          /\ tenI \in Seq(Ints) /\ tenI # <<>> /\ Len(tenI) = d - a + 1
          /\ \A i \in 1 .. d - a + 1 : tenI[i] = I[a + i - 1]
      <3>1. /\ allI \in Seq(Ints) /\ allI # <<>> /\ Len(allI) = d - one + 1
            /\ \A i \in 1 .. d - one + 1 : allI[i] = I[one + i - 1]
            /\ tenI \in Seq(Ints) /\ tenI # <<>> /\ Len(tenI) = d - a + 1
            /\ \A i \in 1 .. d - a + 1 : tenI[i] = I[a + i - 1]
        <4>. HIDE DEF one, I
        <4>1. d \in 0 .. Len(I)
          BY <2>2 DEF I
        <4>2. /\ allI \in Seq(Ints) /\ allI # <<>> /\ Len(allI) = d - one + 1
              /\ \A i \in 1 .. d - one + 1 : allI[i] = I[one + i - 1]
          BY <2>2, <2>5, <4>1, PartIs
        <4>3. /\ tenI \in Seq(Ints) /\ tenI # <<>> /\ Len(tenI) = d - a + 1
              /\ \A i \in 1 .. d - a + 1 : tenI[i] = I[a + i - 1]
          BY <2>2, <2>5, <4>1, PartIs
        <4>. QED BY <4>2, <4>3
      <3>2. d - one + 1 = d /\ \A i \in 1 .. d : one + i - 1 = i
        BY <2>5
      <3>. QED BY <3>1, <3>2
    <2>7. printed.count = d
      BY <2>4, <2>6, FiguresAre
    <2>8. /\ all \in Seq(Int) /\ Len(all) = d /\ \A i \in 1 .. d : all[i] = latencies[i]
      <3>1. /\ all \in Seq(Int) /\ Len(all) = d - one + 1
            /\ \A i \in 1 .. d - one + 1 : all[i] = latencies[one + i - 1]
        <4>1. d \in 0 .. Len(latencies)
          BY <2>2, <2>3
        <4>. HIDE DEF one
        <4>. QED BY <2>3, <2>5, <4>1, PartIs
      <3>2. d - one + 1 = d /\ \A i \in 1 .. d : one + i - 1 = i
        BY <2>5
      <3>. QED BY <3>1, <3>2
    <2>9. \A i \in 1 .. d : all[i] \in Ints
      <3>1. ToSet(all) \subseteq Ints
        BY <2>7
      <3>2. \A i \in 1 .. d : all[i] \in ToSet(all)
        <4>. HIDE DEF all
        <4>. QED BY <2>8, LenProperties DEF ToSet
      <3>. QED BY <3>1, <3>2
    <2>10. allI = all
      <3>1. \A i \in 1 .. d : allI[i] = all[i]
        <4>. SUFFICES ASSUME NEW i \in 1 .. d PROVE allI[i] = all[i]
          OBVIOUS
        <4>1. i \in 1 .. n
          BY <2>2
        <4>2. I[i] = AsInt(latencies[i])
          <5>1. latencies[i] \in Int
            BY <2>3, <4>1, ElementOfSeq
          <5>. QED BY <2>3, <4>1, <5>1 DEF Mapped
        <4>3. AsInt(all[i]) = all[i]
          BY <2>9, AsIntIs
        <4>. QED BY <2>6, <2>8, <4>2, <4>3
      <3>2. allI \in Seq(Int)
        BY <2>6, AsIntIs, SeqMonotonic
      <3>. HIDE DEF allI, all
      <3>. QED BY <2>6, <2>8, <3>1, <3>2, SeqEqual
    <2>11. tenI = ten
      <3>1. d \in 0 .. Len(allI)
        BY <2>5, <2>6
      <3>2. /\ ten \in Seq(Ints) /\ Len(ten) = d - a + 1
            /\ \A i \in 1 .. d - a + 1 : ten[i] = allI[a + i - 1]
        <4>1. ten = SubSeq(allI, a, d)
          BY <2>10
        <4>. HIDE DEF allI
        <4>2. /\ SubSeq(allI, a, d) \in Seq(Ints) /\ Len(SubSeq(allI, a, d)) = d - a + 1
              /\ \A i \in 1 .. d - a + 1 : SubSeq(allI, a, d)[i] = allI[a + i - 1]
          BY <2>5, <2>6, <3>1, PartIs
        <4>. QED BY <4>1, <4>2
      <3>3. \A i \in 1 .. d - a + 1 : a + i - 1 \in 1 .. d
        BY <2>5
      <3>4. \A i \in 1 .. d - a + 1 : tenI[i] = ten[i]
        BY <2>6, <3>2, <3>3
      <3>. HIDE DEF ten, tenI
      <3>. QED BY <2>6, <3>2, <3>4, SeqEqual
    <2>. HIDE DEF allI, tenI
    <2>12. /\ printed.max \in ToSet(tenI) /\ \A x \in ToSet(tenI) : x <= printed.max
           /\ TrueSum(tenI) \in Ints => printed.average10 = Quotient(TrueSum(tenI), Window)
           /\ TrueSum(allI) \in 0 .. MaxInt =>
                printed.average_total = TrueSum(allI) \div Len(allI)
      BY <2>4, <2>6, FiguresAre
    <2>. QED BY <2>6, <2>7, <2>10, <2>11, <2>12 DEF W, a
  <1>. QED BY <1>1, AlwaysInv, PTL
=============================================================================
