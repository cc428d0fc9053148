--------------------------- MODULE TestStrProofs ---------------------------
(***************************************************************************)
(* What the operators of a message's text do: the digits of a number, the   *)
(* rounds of test_str's loop, and the number get_time_from_msg reads.       *)
(*                                                                         *)
(* The loops are recursive functions. What such a function is follows from *)
(* induction over the numbers, which the first lemmas state for a set (a    *)
(* set that is not all of Nat misses a least number).                       *)
(***************************************************************************)
EXTENDS TestStr, SequenceTheorems, WellFoundedInduction, FiniteSetTheorems, TLAPS

-----------------------------------------------------------------------------
(* Induction, recursive functions, quotients.                              *)

\* Induction: a set that has 0, and with every number the next, has them all.
LEMMA NatSetInduction ==
  ASSUME NEW S, 0 \in S, \A n \in Nat : n \in S => n + 1 \in S
  PROVE  \A n \in Nat : n \in S
  <1>. DEFINE T == {n \in Nat : n \notin S}
              R == OpToRel(<, Nat)
  <1>. SUFFICES ASSUME T # {} PROVE FALSE
    OBVIOUS
  <1>1. PICK x \in T : \A y \in T : ~(<<y, x>> \in R)
    <2>1. IsWellFoundedOn(R, Nat)
      BY NatLessThanWellFounded
    <2>2. T \subseteq Nat
      OBVIOUS
    <2>. HIDE DEF T, R
    <2>. QED BY <2>1, <2>2, WFMin
  <1>2. x - 1 \in Nat /\ x - 1 < x /\ x - 1 + 1 = x
    OBVIOUS
  <1>3. <<x - 1, x>> \in R
    BY <1>2 DEF OpToRel
  <1>. QED BY <1>1, <1>2, <1>3

\* What is true of the first of n numbers and passes on to the next is true of all of them.
LEMMA UpTo ==
  ASSUME NEW n \in Nat, NEW S, 0 \in S, \A i \in 1 .. n : i - 1 \in S => i \in S
  PROVE  \A i \in 0 .. n : i \in S
  <1>. DEFINE T == {i \in Nat : i <= n => i \in S}
  <1>1. 0 \in T
    OBVIOUS
  <1>2. ASSUME NEW i \in Nat, i \in T PROVE i + 1 \in T
    <2>1. CASE i + 1 <= n
      <3>1. i + 1 \in 1 .. n /\ i + 1 - 1 = i /\ i <= n
        BY <2>1
      <3>. QED BY <1>2, <3>1
    <2>2. CASE ~(i + 1 <= n)
      BY <2>2
    <2>. QED BY <2>1, <2>2
  <1>3. \A i \in Nat : i \in T
    <2>. HIDE DEF T
    <2>. QED BY <1>1, <1>2, NatSetInduction
  <1>. QED BY <1>3

\* A function of 0 .. n that starts at base and goes on by step.
Runs(f, n, base, step) ==
  f[0] = base /\ \A i \in 1 .. n : f[i] = step[<<i, f[i - 1]>>]

\* There is one, with its values where those of step are,
LEMMA RunExists ==
  ASSUME NEW S, NEW base \in S, NEW step \in [(Nat \ {0}) \X S -> S]
  PROVE  \A n \in Nat : \E f \in [0 .. n -> S] : Runs(f, n, base, step)
  <1>. DEFINE T == {n \in Nat : \E f \in [0 .. n -> S] : Runs(f, n, base, step)}
  <1>1. 0 \in T
    <2>1. [i \in 0 .. 0 |-> base] \in [0 .. 0 -> S]
      OBVIOUS
    <2>2. Runs([i \in 0 .. 0 |-> base], 0, base, step)
      BY DEF Runs
    <2>. QED BY <2>1, <2>2
  <1>2. ASSUME NEW n \in Nat, n \in T PROVE n + 1 \in T
    <2>1. PICK f \in [0 .. n -> S] : Runs(f, n, base, step)
      BY <1>2
    <2>. DEFINE g == [i \in 0 .. n + 1 |-> IF i <= n THEN f[i] ELSE step[<<n + 1, f[n]>>]]
    <2>2. f[n] \in S /\ step[<<n + 1, f[n]>>] \in S
      OBVIOUS
    <2>3. g \in [0 .. n + 1 -> S]
      BY <2>2
    <2>4. g[0] = base
      BY <2>1 DEF Runs
    <2>5. ASSUME NEW i \in 1 .. n + 1 PROVE g[i] = step[<<i, g[i - 1]>>]
      <3>1. CASE i <= n
        <4>1. i \in 1 .. n /\ i - 1 \in 0 .. n /\ i - 1 \in 0 .. n + 1 /\ i - 1 <= n
          BY <3>1
        <4>2. g[i] = f[i] /\ g[i - 1] = f[i - 1]
          BY <3>1, <4>1
        <4>. QED BY <2>1, <4>1, <4>2 DEF Runs
      <3>2. CASE ~(i <= n)
        <4>1. i = n + 1 /\ i - 1 = n /\ n \in 0 .. n + 1 /\ n <= n
          BY <3>2
        <4>2. g[i] = step[<<n + 1, f[n]>>] /\ g[n] = f[n]
          BY <3>2, <4>1
        <4>. QED BY <4>1, <4>2
      <3>. QED BY <3>1, <3>2
    <2>. HIDE DEF g
    <2>6. Runs(g, n + 1, base, step)
      BY <2>4, <2>5 DEF Runs
    <2>. QED BY <2>3, <2>6
  <1>3. \A n \in Nat : n \in T
    <2>. HIDE DEF T
    <2>. QED BY <1>1, <1>2, NatSetInduction
  <1>. QED BY <1>3

\* and no other.
LEMMA RunUnique ==
  ASSUME NEW n \in Nat, NEW base, NEW step, NEW f, NEW g,
         Runs(f, n, base, step), Runs(g, n, base, step)
  PROVE  \A i \in 0 .. n : f[i] = g[i]
  <1>. DEFINE T == {i \in Nat : f[i] = g[i]}
  <1>1. 0 \in T
    BY DEF Runs
  <1>2. ASSUME NEW i \in 1 .. n, i - 1 \in T PROVE i \in T
    <2>1. f[i - 1] = g[i - 1] /\ i \in Nat
      BY <1>2
    <2>2. f[i] = step[<<i, f[i - 1]>>] /\ g[i] = step[<<i, g[i - 1]>>]
      BY DEF Runs
    <2>. QED BY <2>1, <2>2
  <1>3. \A i \in 0 .. n : i \in T
    <2>. HIDE DEF T
    <2>. QED BY <1>1, <1>2, UpTo
  <1>. QED BY <1>3

\* A function of Nat that does.
RunsOn(f, base, step) ==
  f[0] = base /\ \A i \in Nat \ {0} : f[i] = step[<<i, f[i - 1]>>]

\* On all of Nat as well.
LEMMA RunOfNat ==
  ASSUME NEW S, NEW base \in S, NEW step \in [(Nat \ {0}) \X S -> S]
  PROVE  \E f \in [Nat -> S] : RunsOn(f, base, step)
  <1>. DEFINE Upto(n) == CHOOSE f \in [0 .. n -> S] : Runs(f, n, base, step)
              g == [n \in Nat |-> Upto(n)[n]]
  <1>1. ASSUME NEW n \in Nat PROVE Upto(n) \in [0 .. n -> S] /\ Runs(Upto(n), n, base, step)
    BY RunExists
  <1>. HIDE DEF Upto
  <1>2. g \in [Nat -> S]
    BY <1>1
  <1>3. g[0] = base
    BY <1>1 DEF Runs
  <1>4. ASSUME NEW i \in Nat \ {0} PROVE g[i] = step[<<i, g[i - 1]>>]
    <2>1. i - 1 \in Nat /\ i - 1 \in 0 .. i - 1 /\ i \in 1 .. i
      OBVIOUS
    <2>2. Runs(Upto(i), i - 1, base, step)
      BY <1>1, <2>1 DEF Runs
    <2>3. Upto(i)[i - 1] = Upto(i - 1)[i - 1]
      BY <1>1, <2>1, <2>2, RunUnique
    <2>4. Upto(i)[i] = step[<<i, Upto(i)[i - 1]>>]
      BY <1>1, <2>1 DEF Runs
    <2>. QED BY <2>1, <2>3, <2>4
  <1>5. RunsOn(g, base, step)
    BY <1>3, <1>4 DEF RunsOn
  <1>. HIDE DEF g
  <1>. QED BY <1>2, <1>5

\* A set of numbers has a least.
LEMMA LeastOf ==
  ASSUME NEW T, T \subseteq Nat, T # {}
  PROVE  \E x \in T : \A y \in T : x <= y
  <1>. DEFINE R == OpToRel(<, Nat)
  <1>1. PICK x \in T : \A y \in T : ~(<<y, x>> \in R)
    <2>1. IsWellFoundedOn(R, Nat)
      BY NatLessThanWellFounded
    <2>. HIDE DEF R
    <2>. QED BY <2>1, WFMin
  <1>2. ASSUME NEW y \in T PROVE x <= y
    <2>1. x \in Nat /\ y \in Nat /\ ~(<<y, x>> \in R)
      BY <1>1
    <2>2. ~(y < x)
      BY <2>1 DEF OpToRel
    <2>. HIDE DEF R
    <2>. QED BY <2>1, <2>2
  <1>. QED BY <1>2

\* Quotient and remainder,
LEMMA DivMod ==
  ASSUME NEW a \in Int, NEW m \in Nat \ {0}
  PROVE  /\ a \div m \in Int /\ a % m \in 0 .. m - 1
         /\ a = m * (a \div m) + (a % m)
  OBVIOUS

\* which nothing else is.
LEMMA DivModUnique ==
  ASSUME NEW a \in Int, NEW m \in Nat \ {0}, NEW q \in Int, NEW r \in 0 .. m - 1, a = m * q + r
  PROVE  a \div m = q /\ a % m = r
  OBVIOUS

\* Multiples of m change nothing.
LEMMA ModShift ==
  ASSUME NEW a \in Int, NEW m \in Nat \ {0}, NEW k \in Int
  PROVE  (a + m * k) % m = a % m
  <1>. DEFINE q == a \div m  r == a % m  b == a + m * k
  <1>1. q \in Int /\ r \in 0 .. m - 1 /\ a = m * q + r
    BY DivMod
  <1>. HIDE DEF q, r
  <1>2. q + k \in Int /\ b \in Int /\ b = m * (q + k) + r
    <2>1. m * (q + k) = m * q + m * k
      BY <1>1
    <2>. QED BY <1>1, <2>1
  <1>. HIDE DEF b
  <1>3. b % m = r
    BY <1>1, <1>2, DivModUnique
  <1>. QED BY <1>3 DEF b, r

\* To divide twice is to divide by the product.
LEMMA DivDiv ==
  ASSUME NEW a \in Nat, NEW m \in Nat \ {0}, NEW d \in Nat \ {0}
  PROVE  (a \div m) \div d = a \div (d * m)
  <1>. DEFINE q == a \div m  r == a % m  q2 == q \div d r2 == q % d
  <1>1. q \in Int /\ r \in 0 .. m - 1 /\ a = m * q + r
    BY DivMod
  <1>2. q2 \in Int /\ r2 \in 0 .. d - 1 /\ q = d * q2 + r2
    BY <1>1, DivMod
  <1>. HIDE DEF q, r, q2, r2
  <1>. DEFINE rr == m * r2 + r   dm == d * m
  <1>3. rr \in 0 .. dm - 1 /\ dm \in Nat \ {0}
    <2>1. m * r2 <= m * (d - 1)
      BY <1>2
    <2>2. m * (d - 1) = dm - m
      OBVIOUS
    <2>3. m * r2 \in Nat /\ dm \in Nat \ {0}
      BY <1>2
    <2>. QED BY <1>1, <2>1, <2>2, <2>3
  <1>4. a = dm * q2 + rr
    BY <1>1, <1>2
  <1>. HIDE DEF rr, dm
  <1>5. a \div dm = q2
    BY <1>2, <1>3, <1>4, DivModUnique
  <1>. QED BY <1>5 DEF q2, q, dm

-----------------------------------------------------------------------------
(* Powers of ten and a number's digits.                                    *)

\* The recursive function Power, one factor at a time.
LEMMA PowerFacts ==
  ASSUME NEW b \in Nat \ {0}
  PROVE  /\ Power(b, 0) = 1
         /\ \A n \in Nat : Power(b, n) \in Nat \ {0} /\ Power(b, n + 1) = b * Power(b, n)
  <1>. DEFINE Eq(g) == g = [i \in Nat |-> IF i = 0 THEN 1 ELSE b * g[i - 1]]
              p == CHOOSE g : Eq(g)
              Pos == Nat \ {0}
              step == [x \in (Nat \ {0}) \X Pos |-> b * x[2]]
  <1>1. 1 \in Pos /\ step \in [(Nat \ {0}) \X Pos -> Pos]
    OBVIOUS
  <1>2. \A i \in Nat \ {0}, v \in Pos : step[<<i, v>>] = b * v
    OBVIOUS
  <1>. HIDE DEF step
  <1>3. PICK g \in [Nat -> Pos] : RunsOn(g, 1, step)
    BY <1>1, RunOfNat
  <1>4. Eq(g)
    <2>1. ASSUME NEW i \in Nat \ {0} PROVE g[i] = b * g[i - 1]
      <3>1. i - 1 \in Nat
        OBVIOUS
      <3>. QED BY <1>2, <1>3, <3>1 DEF RunsOn
    <2>2. \A i \in Nat : g[i] = IF i = 0 THEN 1 ELSE b * g[i - 1]
      BY <1>3, <2>1 DEF RunsOn
    <2>. QED BY <2>2
  <1>5. Eq(p)
    BY <1>4
  <1>6. \A n : Power(b, n) = p[n]
    BY DEF Power
  <1>. HIDE DEF p
  <1>7. p[0] = 1 /\ \A n \in Nat : p[n + 1] = b * p[n]
    <2>1. p[0] = 1
      BY <1>5
    <2>2. ASSUME NEW n \in Nat PROVE p[n + 1] = b * p[n]
      <3>1. n + 1 \in Nat /\ n + 1 # 0 /\ n + 1 - 1 = n
        OBVIOUS
      <3>2. p[n + 1] = IF n + 1 = 0 THEN 1 ELSE b * p[n + 1 - 1]
        BY <1>5, <3>1
      <3>. QED BY <3>1, <3>2
    <2>. QED BY <2>1, <2>2
  <1>8. \A n \in Nat : p[n] \in Nat \ {0}
    <2>. DEFINE T == {i \in Nat : p[i] \in Nat \ {0}}
    <2>1. 0 \in T
      BY <1>7
    <2>2. ASSUME NEW n \in Nat, n \in T PROVE n + 1 \in T
      <3>1. p[n] \in Nat \ {0}
        BY <2>2
      <3>2. \A x \in Nat \ {0} : b * x \in Nat \ {0}
        OBVIOUS
      <3>. QED BY <1>7, <3>1, <3>2
    <2>3. \A n \in Nat : n \in T
      <3>. HIDE DEF T
      <3>. QED BY <2>1, <2>2, NatSetInduction
    <2>. QED BY <2>3
  <1>. QED BY <1>6, <1>7, <1>8


\* Powers multiply,
LEMMA PowerSum ==
  ASSUME NEW b \in Nat \ {0}, NEW m \in Nat, NEW k \in Nat
  PROVE  Power(b, m + k) = Power(b, m) * Power(b, k)
  <1>. DEFINE T == {i \in Nat : Power(b, m + i) = Power(b, m) * Power(b, i)}
  <1>1. 0 \in T
    <2>1. m + 0 = m /\ Power(b, m) * 1 = Power(b, m)
      BY PowerFacts
    <2>. QED BY <2>1, PowerFacts
  <1>2. ASSUME NEW i \in Nat, i \in T PROVE i + 1 \in T
    <2>0. Power(b, m) \in Nat /\ Power(b, i) \in Nat /\ Power(b, m + i) \in Nat
      <3>1. m + i \in Nat
        OBVIOUS
      <3>. QED BY <3>1, PowerFacts
    <2>. DEFINE p == Power(b, m) q == Power(b, i) r == Power(b, m + i)
    <2>1. p \in Nat /\ q \in Nat /\ r \in Nat /\ r = p * q
      BY <1>2, <2>0
    <2>2. Power(b, m + (i + 1)) = b * r
      <3>1. m + (i + 1) = m + i + 1 /\ m + i \in Nat
        OBVIOUS
      <3>. QED BY <3>1, PowerFacts
    <2>3. Power(b, i + 1) = b * q
      BY PowerFacts
    <2>. HIDE DEF p, q, r
    <2>4. b * r = p * (b * q)
      BY <2>1
    <2>. QED BY <2>2, <2>3, <2>4 DEF p
  <1>3. \A i \in Nat : i \in T
    <2>. HIDE DEF T
    <2>. QED BY <1>1, <1>2, NatSetInduction
  <1>. QED BY <1>3

\* and grow.
LEMMA PowerGrows ==
  ASSUME NEW b \in Nat \ {0}, b >= 2, NEW m \in Nat, NEW n \in Nat
  PROVE  /\ m <= n => Power(b, m) <= Power(b, n)
         /\ m < n => Power(b, m) < Power(b, n)
  <1>1. ASSUME NEW i \in Nat, m <= i PROVE Power(b, m) <= Power(b, i)
    <2>. DEFINE p == Power(b, m) q == Power(b, i - m)
    <2>1. i - m \in Nat /\ m + (i - m) = i
      BY <1>1
    <2>2. p \in Nat \ {0} /\ q \in Nat \ {0} /\ Power(b, i) = p * q
      BY <2>1, PowerFacts, PowerSum
    <2>. HIDE DEF p, q
    <2>3. p <= p * q
      BY <2>2
    <2>. QED BY <2>2, <2>3 DEF p
  <1>2. ASSUME m < n PROVE Power(b, m) < Power(b, n)
    <2>. DEFINE p == Power(b, n - 1)
    <2>1. n - 1 \in Nat /\ m <= n - 1 /\ n - 1 + 1 = n
      BY <1>2
    <2>2. p \in Nat \ {0} /\ Power(b, n) = b * p /\ Power(b, m) <= p /\ Power(b, m) \in Nat
      BY <1>1, <2>1, PowerFacts
    <2>. HIDE DEF p
    <2>3. p < b * p /\ b * p \in Nat
      BY <2>2
    <2>. QED BY <2>2, <2>3
  <1>. QED BY <1>1, <1>2

\* The powers of ten.
LEMMA Tens ==
  ASSUME NEW n \in Nat
  PROVE  Power(10, n) \in Nat \ {0} /\ Power(10, n + 1) = 10 * Power(10, n)
  <1>. DEFINE b == 10
  <1>1. b \in Nat \ {0}
    OBVIOUS
  <1>. HIDE DEF b
  <1>2. Power(b, n) \in Nat \ {0} /\ Power(b, n + 1) = b * Power(b, n)
    BY <1>1, PowerFacts
  <1>. QED BY <1>2 DEF b

\* The powers of ten grow.
LEMMA TensGrow ==
  ASSUME NEW m \in Nat, NEW n \in Nat
  PROVE  /\ m <= n => Power(10, m) <= Power(10, n)
         /\ m < n => Power(10, m) < Power(10, n)
  <1>. DEFINE b == 10
  <1>1. b \in Nat \ {0} /\ b >= 2
    OBVIOUS
  <1>. HIDE DEF b
  <1>2. /\ m <= n => Power(b, m) <= Power(b, n)
        /\ m < n => Power(b, m) < Power(b, n)
    BY <1>1, PowerGrows
  <1>. QED BY <1>2 DEF b

-----------------------------------------------------------------------------
(* Numbers and their digits.                                               *)

\* A number below the k-th power of ten has a width up to k,
LEMMA WidthExists ==
  ASSUME NEW n \in Nat, NEW k \in Nat \ {0}, n < Power(10, k)
  PROVE  \E w \in 1 .. k : n < Power(10, w) /\ (w = 1 \/ n >= Power(10, w - 1))
  <1>. DEFINE T == {w \in Nat \ {0} : n < Power(10, w)}
  <1>1. T \subseteq Nat /\ k \in T
    OBVIOUS
  <1>2. PICK w \in T : \A v \in T : w <= v
    <2>. HIDE DEF T
    <2>. QED BY <1>1, LeastOf
  <1>3. w \in 1 .. k /\ n < Power(10, w)
    BY <1>1, <1>2
  <1>4. ASSUME w # 1 PROVE n >= Power(10, w - 1)
    <2>1. w - 1 \in Nat \ {0} /\ w - 1 \notin T
      BY <1>2, <1>3, <1>4
    <2>2. Power(10, w - 1) \in Nat
      BY <2>1, Tens
    <2>. QED BY <2>1, <2>2
  <1>. QED BY <1>3, <1>4

\* and no other.
LEMMA WidthUnique ==
  ASSUME NEW n \in Nat, NEW v \in Nat \ {0}, NEW w \in Nat \ {0},
         n < Power(10, v), v = 1 \/ n >= Power(10, v - 1),
         n < Power(10, w), w = 1 \/ n >= Power(10, w - 1)
  PROVE  v = w
  <1>1. ASSUME NEW x \in Nat \ {0}, NEW y \in Nat \ {0}, x < y,
               n < Power(10, x), y = 1 \/ n >= Power(10, y - 1)
        PROVE  FALSE
    <2>1. y # 1 /\ x <= y - 1 /\ y - 1 \in Nat
      BY <1>1
    <2>2. Power(10, x) <= Power(10, y - 1)
      BY <2>1, TensGrow
    <2>3. Power(10, x) \in Nat /\ Power(10, y - 1) \in Nat
      BY <2>1, Tens
    <2>. QED BY <1>1, <2>1, <2>2, <2>3
  <1>. QED BY <1>1

\* The digits of a number of width w.
LEMMA NumeralIs ==
  ASSUME NEW n \in Nat, NEW w \in 1 .. MaxDigits,
         n < Power(10, w), w = 1 \/ n >= Power(10, w - 1)
  PROVE  /\ Numeral(n) = [i \in 1 .. w |-> (n \div Power(10, w - i)) % 10]
         /\ Numeral(n) \in Seq(0 .. 9) /\ Len(Numeral(n)) = w
  <1>. DEFINE IsWidth(v) == n < Power(10, v) /\ (v = 1 \/ n >= Power(10, v - 1))
              width == CHOOSE v \in 1 .. MaxDigits : IsWidth(v)
              digits == [i \in 1 .. w |-> (n \div Power(10, w - i)) % 10]
  <1>1. width \in 1 .. MaxDigits /\ IsWidth(width)
    <2>1. IsWidth(w)
      OBVIOUS
    <2>. HIDE DEF IsWidth
    <2>. QED BY <2>1
  <1>2. Numeral(n) = [i \in 1 .. width |-> (n \div Power(10, width - i)) % 10]
    BY DEF Numeral
  <1>. HIDE DEF width
  <1>3. width = w
    BY <1>1, WidthUnique DEF MaxDigits
  <1>4. ASSUME NEW i \in 1 .. w PROVE (n \div Power(10, w - i)) % 10 \in 0 .. 9
    <2>1. w - i \in Nat
      BY DEF MaxDigits
    <2>. DEFINE p == Power(10, w - i)
                d == n \div p
    <2>2. p \in Nat \ {0}
      BY <2>1, Tens
    <2>. HIDE DEF p
    <2>3. d \in Int
      BY <2>2, DivMod
    <2>. HIDE DEF d
    <2>4. d % 10 \in 0 .. 9
      BY <2>3
    <2>. QED BY <2>4 DEF d, p
  <1>5. digits \in [1 .. w -> 0 .. 9]
    BY <1>4
  <1>. HIDE DEF digits
  <1>6. digits \in Seq(0 .. 9) /\ Len(digits) = w
    BY <1>5 DEF MaxDigits
  <1>. QED BY <1>2, <1>3, <1>6 DEF digits

\* The loop of atoll, which its equation defines.
LEMMA NumberRun ==
  ASSUME NEW s \in Seq(Nat)
  PROVE  \E value \in [0 .. Len(s) -> Nat] :
           /\ value[0] = 0
           /\ \A i \in 1 .. Len(s) : value[i] = 10 * value[i - 1] + s[i]
           /\ Number(s) = value[Len(s)]
  <1>. DEFINE n == Len(s)
              Eq(g) == g = [i \in 0 .. n |-> IF i = 0 THEN 0 ELSE 10 * g[i - 1] + s[i]]
              p == CHOOSE g : Eq(g)
              step == [x \in (Nat \ {0}) \X Nat |->
                         IF x[1] \in 1 .. n THEN 10 * x[2] + s[x[1]] ELSE x[2]]
  <1>1. n \in Nat /\ \A i \in 1 .. n : s[i] \in Nat
    BY LenProperties
  <1>. HIDE DEF n
  <1>2. step \in [(Nat \ {0}) \X Nat -> Nat] /\ 0 \in Nat
    BY <1>1
  <1>3. \A i \in 1 .. n, v \in Nat : step[<<i, v>>] = 10 * v + s[i]
    BY <1>1
  <1>. HIDE DEF step
  <1>4. PICK g \in [0 .. n -> Nat] : Runs(g, n, 0, step)
    BY <1>1, <1>2, RunExists
  <1>5. g[0] = 0 /\ \A i \in 1 .. n : g[i] = 10 * g[i - 1] + s[i]
    <2>1. ASSUME NEW i \in 1 .. n PROVE g[i] = 10 * g[i - 1] + s[i]
      <3>1. i - 1 \in 0 .. n /\ g[i - 1] \in Nat
        BY <1>1
      <3>. QED BY <1>3, <1>4, <3>1 DEF Runs
    <2>. QED BY <1>4, <2>1 DEF Runs
  <1>6. Eq(g)
    <2>1. \A i \in 0 .. n : g[i] = IF i = 0 THEN 0 ELSE 10 * g[i - 1] + s[i]
      BY <1>1, <1>5
    <2>. QED BY <2>1
  <1>7. Eq(p)
    BY <1>6
  <1>8. Number(s) = p[n]
    BY DEF Number, n
  <1>. HIDE DEF p
  <1>9. \A i \in 0 .. n : p[i] = g[i]
    <2>. DEFINE T == {i \in Nat : p[i] = g[i]}
    <2>1. 0 \in T
      BY <1>1, <1>5, <1>7
    <2>2. ASSUME NEW i \in 1 .. n, i - 1 \in T PROVE i \in T
      <3>1. i \in 0 .. n /\ i # 0 /\ i \in Nat
        BY <1>1
      <3>2. p[i] = 10 * p[i - 1] + s[i]
        BY <1>7, <3>1
      <3>. QED BY <1>5, <2>2, <3>1, <3>2
    <2>3. \A i \in 0 .. n : i \in T
      <3>. HIDE DEF T
      <3>. QED BY <1>1, <2>1, <2>2, UpTo
    <2>. QED BY <2>3
  <1>10. Number(s) = g[n]
    BY <1>1, <1>8, <1>9
  <1>. QED BY <1>5, <1>10 DEF n

\* atoll gives back the number whose digits it reads.
LEMMA NumberOfNumeral ==
  ASSUME NEW n \in Nat, NEW w \in 1 .. MaxDigits,
         n < Power(10, w), w = 1 \/ n >= Power(10, w - 1)
  PROVE  Number(Numeral(n)) = n
  <1>. DEFINE s == Numeral(n)
  <1>1. /\ s = [i \in 1 .. w |-> (n \div Power(10, w - i)) % 10]
        /\ s \in Seq(Nat) /\ Len(s) = w /\ w \in Nat
    <2>1. /\ s = [i \in 1 .. w |-> (n \div Power(10, w - i)) % 10]
          /\ s \in Seq(0 .. 9) /\ Len(s) = w
      BY NumeralIs
    <2>2. s \in Seq(Nat)
      <3>. HIDE DEF s
      <3>1. 0 .. 9 \subseteq Nat
        OBVIOUS
      <3>. QED BY <2>1, <3>1, SeqMonotonic
    <2>. QED BY <2>1, <2>2 DEF MaxDigits
  <1>. HIDE DEF s
  <1>2. PICK value \in [0 .. w -> Nat] :
           /\ value[0] = 0
           /\ \A i \in 1 .. w : value[i] = 10 * value[i - 1] + s[i]
           /\ Number(s) = value[w]
    BY <1>1, NumberRun
  <1>. DEFINE T == {i \in Nat : value[i] = n \div Power(10, w - i)}
  <1>3. 0 \in T
    <2>. DEFINE p == Power(10, w)
    <2>1. p \in Nat \ {0} /\ n < p /\ w - 0 = w
      BY <1>1, Tens
    <2>. HIDE DEF p
    <2>2. n = p * 0 + n /\ n \in 0 .. p - 1
      BY <2>1
    <2>3. n \div p = 0
      BY <2>1, <2>2, DivModUnique
    <2>. QED BY <1>2, <2>1, <2>3 DEF p
  <1>4. ASSUME NEW i \in 1 .. w, i - 1 \in T PROVE i \in T
    <2>. DEFINE p == Power(10, w - i)
                d == n \div p
    <2>1. w - i \in Nat /\ w - (i - 1) = w - i + 1 /\ i \in Nat
      BY <1>1
    <2>2. p \in Nat \ {0} /\ Power(10, w - (i - 1)) = 10 * p
      BY <2>1, Tens
    <2>3. value[i - 1] = n \div (10 * p)
      BY <1>4, <2>2
    <2>4. s[i] = d % 10
      BY <1>1
    <2>. HIDE DEF p
    <2>5. value[i - 1] = d \div 10
      <3>. DEFINE ten == 10
      <3>1. ten \in Nat \ {0}
        OBVIOUS
      <3>. HIDE DEF ten
      <3>2. (n \div p) \div ten = n \div (ten * p)
        BY <2>2, <3>1, DivDiv
      <3>. QED BY <2>3, <3>2 DEF ten
    <2>6. d \in Int
      BY <2>2, DivMod
    <2>. HIDE DEF d
    <2>7. value[i] = d
      BY <1>2, <2>4, <2>5, <2>6
    <2>. QED BY <2>1, <2>7 DEF d, p
  <1>5. w \in T
    <2>1. \A i \in 0 .. w : i \in T
      <3>. HIDE DEF T
      <3>. QED BY <1>1, <1>3, <1>4, UpTo
    <2>. QED BY <1>1, <2>1
  <1>6. value[w] = n \div 1
    <2>1. w - w = 0
      BY <1>1
    <2>2. Power(10, 0) = 1
      BY PowerFacts
    <2>. QED BY <1>5, <2>1, <2>2
  <1>. QED BY <1>2, <1>6 DEF s

-----------------------------------------------------------------------------
(* Texts behind one another, and a round of the loop.                      *)

\* A sequence and, behind it, another.
LEMMA Behind ==
  ASSUME NEW S, NEW a \in Seq(S), NEW b \in Seq(S), NEW m, NEW k, m = Len(a), k = Len(b)
  PROVE  /\ m \in Nat /\ k \in Nat
         /\ a \o b \in Seq(S) /\ Len(a \o b) = m + k
         /\ \A i \in 1 .. m : (a \o b)[i] = a[i]
         /\ \A i \in m + 1 .. m + k : (a \o b)[i] = b[i - m]
  <1>1. m \in Nat /\ k \in Nat
    BY LenProperties
  <1>2. /\ a \o b \in Seq(S) /\ Len(a \o b) = m + k
        /\ \A i \in 1 .. m + k : (a \o b)[i] = IF i <= m THEN a[i] ELSE b[i - m]
    BY ConcatProperties
  <1>3. ASSUME NEW i \in 1 .. m PROVE (a \o b)[i] = a[i]
    <2>1. i \in 1 .. m + k /\ i <= m
      BY <1>1
    <2>. QED BY <1>2, <2>1
  <1>4. ASSUME NEW i \in m + 1 .. m + k PROVE (a \o b)[i] = b[i - m]
    <2>1. i \in 1 .. m + k /\ ~(i <= m)
      BY <1>1
    <2>. QED BY <1>2, <2>1
  <1>. QED BY <1>1, <1>2, <1>3, <1>4

\* The text is kept and the digits of the places that were missing are behind it.
LEMMA FilledIs ==
  ASSUME NEW str \in Seq(Nat), NEW n \in Int
  PROVE  /\ Filled(str, n) \in Seq(Nat)
         /\ Len(Filled(str, n)) = IF n > Len(str) THEN n ELSE Len(str)
         /\ \A i \in 1 .. Len(str) : Filled(str, n)[i] = str[i]
         /\ \A i \in Len(str) + 1 .. n : Filled(str, n)[i] = i % 10
  <1>. DEFINE len == Len(str)
              k == IF n > len THEN n - len ELSE 0
              more == [i \in 1 .. k |-> (len + i) % 10]
  <1>1. len \in Nat /\ k \in Nat /\ 1 .. k = 1 .. n - len
    BY LenProperties
  <1>2. Filled(str, n) = str \o more
    BY <1>1 DEF Filled
  <1>3. \A i \in 1 .. k : (len + i) % 10 \in Nat
    BY <1>1
  <1>4. more \in Seq(Nat) /\ Len(more) = k /\ \A i \in 1 .. k : more[i] = (len + i) % 10
    <2>1. more \in [1 .. k -> Nat]
      BY <1>3
    <2>2. \A i \in 1 .. k : more[i] = (len + i) % 10
      OBVIOUS
    <2>. HIDE DEF more, k
    <2>. QED BY <1>1, <2>1, <2>2
  <1>. HIDE DEF more
  <1>. HIDE DEF k, len
  <1>5. /\ str \o more \in Seq(Nat) /\ Len(str \o more) = len + k
        /\ \A i \in 1 .. len : (str \o more)[i] = str[i]
        /\ \A i \in len + 1 .. len + k : (str \o more)[i] = more[i - len]
    BY <1>4, Behind DEF len
  <1>6. ASSUME NEW i \in len + 1 .. n PROVE (str \o more)[i] = i % 10
    <2>1. i \in len + 1 .. len + k /\ i - len \in 1 .. k /\ len + (i - len) = i
      BY <1>1 DEF k
    <2>. QED BY <1>4, <1>5, <2>1
  <1>7. len + k = IF n > len THEN n ELSE len
    BY <1>1 DEF k
  <1>. QED BY <1>2, <1>5, <1>6, <1>7 DEF len

\* What one round of the loop puts behind the text str, with num in parentheses.
IsChunk(new, str, num) ==
  LET len == Len(str)
      w == Len(num)
  IN /\ new \in Seq(Nat)
     /\ Len(new) = IF w <= 7 THEN len + 10 ELSE len + w + 3
     /\ \A i \in 1 .. len : new[i] = str[i]
     /\ new[len + 1] = Open
     /\ \A i \in len + 2 .. len + 1 + w : new[i] = num[i - len - 1]
     /\ new[len + w + 2] = Underscore
     /\ \A i \in len + w + 3 .. len + 9 : new[i] = i % 10
     /\ new[Len(new)] = Close

\* A round of the loop appends the parenthesis, the number, an underscore and digits, and the
\* parenthesis that closes: ten characters while the number has at most seven digits.
LEMMA ChunkIs ==
  ASSUME NEW str \in Seq(Nat), NEW num \in Seq(Nat), num = Numeral(Len(str) + 10)
  PROVE  IsChunk(Chunk(str), str, num)
  <1>. DEFINE len == Len(str)
              w == Len(num)
              o == str \o <<Open>>
              on == o \o num
              opened == on \o <<Underscore>>
              f == Filled(opened, len + 9)
              new == Append(f, Close)
  <1>1. len \in Nat /\ w \in Nat
    BY LenProperties
  <1>2. <<Open>> \in Seq(Nat) /\ Len(<<Open>>) = 1 /\ <<Open>>[1] = Open
    BY DEF Open
  <1>3. <<Underscore>> \in Seq(Nat) /\ Len(<<Underscore>>) = 1 /\ <<Underscore>>[1] = Underscore
    BY DEF Underscore
  <1>4. /\ o \in Seq(Nat) /\ Len(o) = len + 1
        /\ (\A i \in 1 .. len : o[i] = str[i]) /\ o[len + 1] = Open
    <2>1. /\ o \in Seq(Nat) /\ Len(o) = len + 1
          /\ \A i \in 1 .. len : o[i] = str[i]
          /\ \A i \in len + 1 .. len + 1 : o[i] = <<Open>>[i - len]
      BY <1>2, Behind
    <2>2. len + 1 \in len + 1 .. len + 1 /\ len + 1 - len = 1
      BY <1>1
    <2>. QED BY <1>2, <2>1, <2>2
  <1>. HIDE DEF o
  <1>6. /\ on \in Seq(Nat) /\ Len(on) = len + 1 + w
        /\ \A i \in 1 .. len + 1 : on[i] = o[i]
        /\ \A i \in len + 2 .. len + 1 + w : on[i] = num[i - len - 1]
    <2>. DEFINE m == len + 1
    <2>1. m \in Nat /\ m + 1 = len + 2 /\ \A i \in Int : i - m = i - len - 1
      BY <1>1
    <2>. HIDE DEF m
    <2>2. m = Len(o)
      BY <1>4 DEF m
    <2>3. /\ on \in Seq(Nat) /\ Len(on) = m + w
          /\ \A i \in 1 .. m : on[i] = o[i]
          /\ \A i \in m + 1 .. m + w : on[i] = num[i - m]
      <3>1. on = o \o num /\ w = Len(num)
        OBVIOUS
      <3>2. o \in Seq(Nat)
        BY <1>4
      <3>. HIDE DEF on, w, len
      <3>. QED BY <2>2, <3>1, <3>2, Behind
    <2>4. \A i \in len + 2 .. len + 1 + w : i \in m + 1 .. m + w /\ i \in Int
      BY <1>1, <2>1 DEF m
    <2>. QED BY <2>1, <2>3, <2>4 DEF m
  <1>. HIDE DEF on
  <1>7. /\ opened \in Seq(Nat) /\ Len(opened) = len + w + 2
        /\ \A i \in 1 .. len + 1 + w : opened[i] = on[i]
        /\ opened[len + w + 2] = Underscore
    <2>. DEFINE m == len + 1 + w   one == <<Underscore>>
    <2>1. m \in Nat /\ m + 1 = len + w + 2 /\ m + 1 \in m + 1 .. m + 1 /\ m + 1 - m = 1
      BY <1>1
    <2>. HIDE DEF m
    <2>2. m = Len(on)
      BY <1>6 DEF m
    <2>3. /\ opened \in Seq(Nat) /\ Len(opened) = m + 1
          /\ \A i \in 1 .. m : opened[i] = on[i]
          /\ \A i \in m + 1 .. m + 1 : opened[i] = one[i - m]
      <3>1. one \in Seq(Nat) /\ 1 = Len(one)
        BY <1>3
      <3>. HIDE DEF one
      <3>2. opened = on \o one
        BY DEF one
      <3>3. on \in Seq(Nat)
        BY <1>6
      <3>. DEFINE k == Len(one)
      <3>4. k = Len(one)
        OBVIOUS
      <3>. HIDE DEF opened, w, len, k
      <3>5. /\ opened \in Seq(Nat) /\ Len(opened) = m + k
            /\ \A i \in 1 .. m : opened[i] = on[i]
            /\ \A i \in m + 1 .. m + k : opened[i] = one[i - m]
        BY <2>2, <3>1, <3>2, <3>3, <3>4, Behind
      <3>. QED BY <3>1, <3>4, <3>5
    <2>4. opened[m + 1] = Underscore
      BY <1>3, <2>1, <2>3
    <2>. QED BY <2>1, <2>3, <2>4 DEF m
  <1>8. /\ \A i \in 1 .. len : opened[i] = str[i]
        /\ opened[len + 1] = Open
        /\ \A i \in len + 2 .. len + 1 + w : opened[i] = num[i - len - 1]
    <2>. HIDE DEF opened
    <2>1. /\ \A i \in 1 .. len : i \in 1 .. len + 1 + w /\ i \in 1 .. len + 1
          /\ len + 1 \in 1 .. len + 1 + w /\ len + 1 \in 1 .. len + 1
          /\ \A i \in len + 2 .. len + 1 + w : i \in 1 .. len + 1 + w
      BY <1>1
    <2>. QED BY <1>4, <1>6, <1>7, <2>1
  <1>9. Chunk(str) = new
    <2>1. len + 10 - 1 = len + 9
      BY <1>1
    <2>. QED BY <2>1 DEF Chunk, opened, on, o
  <1>. HIDE DEF opened
  <1>10. /\ f \in Seq(Nat)
         /\ Len(f) = IF len + 9 > len + w + 2 THEN len + 9 ELSE len + w + 2
         /\ \A i \in 1 .. len + w + 2 : f[i] = opened[i]
         /\ \A i \in len + w + 3 .. len + 9 : f[i] = i % 10
    <2>. DEFINE n == len + 9   m == len + w + 2
    <2>1. n \in Int /\ m \in Nat /\ m + 1 = len + w + 3
      BY <1>1
    <2>. HIDE DEF n, opened, m
    <2>2. m = Len(opened)
      BY <1>7 DEF m
    <2>3. /\ f \in Seq(Nat)
          /\ Len(f) = IF n > m THEN n ELSE m
          /\ \A i \in 1 .. m : f[i] = opened[i]
          /\ \A i \in m + 1 .. n : f[i] = i % 10
      BY <1>7, <2>1, <2>2, FilledIs DEF n
    <2>. QED BY <2>1, <2>3 DEF n, m
  <1>. HIDE DEF f
  <1>. HIDE DEF new
  <1>11. /\ new \in Seq(Nat) /\ Len(new) = Len(f) + 1
         /\ \A i \in 1 .. Len(f) : new[i] = f[i]
         /\ new[Len(f) + 1] = Close
    <2>. DEFINE e == Close
    <2>1. e \in Nat /\ f \in Seq(Nat) /\ new = Append(f, e)
      BY <1>10 DEF Close, new
    <2>. HIDE DEF e
    <2>2. /\ new \in Seq(Nat) /\ Len(new) = Len(f) + 1
          /\ \A i \in 1 .. Len(f) : new[i] = f[i]
          /\ new[Len(f) + 1] = e
      BY <2>1, AppendProperties
    <2>. QED BY <2>2 DEF e
  <1>12. \A i \in 1 .. len + w + 2 : new[i] = opened[i]
    <2>1. \A i \in 1 .. len + w + 2 : i \in 1 .. Len(f)
      BY <1>1, <1>10
    <2>. QED BY <1>10, <1>11, <2>1
  <1>13. Len(new) = IF w <= 7 THEN len + 10 ELSE len + w + 3
    BY <1>1, <1>10, <1>11
  <1>14. ASSUME NEW i \in len + w + 3 .. len + 9 PROVE new[i] = i % 10
    <2>1. i \in len + w + 3 .. len + 9 /\ i \in 1 .. Len(f)
      BY <1>1, <1>10
    <2>. QED BY <1>10, <1>11, <2>1
  <1>15. /\ \A i \in 1 .. len : i \in 1 .. len + w + 2
         /\ len + 1 \in 1 .. len + w + 2
         /\ \A i \in len + 2 .. len + 1 + w : i \in 1 .. len + w + 2
         /\ len + w + 2 \in 1 .. len + w + 2
    BY <1>1
  <1>16. IsChunk(new, str, num)
    <2>1. /\ \A i \in 1 .. len : new[i] = str[i]
          /\ new[len + 1] = Open
          /\ \A i \in len + 2 .. len + 1 + w : new[i] = num[i - len - 1]
          /\ new[len + w + 2] = Underscore
      BY <1>7, <1>8, <1>12, <1>15
    <2>2. new[Len(new)] = Close
      BY <1>11
    <2>. HIDE DEF len, w
    <2>. QED BY <1>11, <1>13, <1>14, <2>1, <2>2 DEF IsChunk, len, w
  <1>. QED BY <1>9, <1>16

\* How long the text is then, by the width of the number.
LEMMA ChunkLength ==
  ASSUME NEW str \in Seq(Nat), NEW n \in Nat, n = Len(str) + 10, NEW w \in 1 .. MaxDigits,
         n < Power(10, w), w = 1 \/ n >= Power(10, w - 1)
  PROVE  /\ Chunk(str) \in Seq(Nat)
         /\ Len(Chunk(str)) = IF w <= 7 THEN Len(str) + 10 ELSE Len(str) + w + 3
  <1>. DEFINE num == Numeral(n)
  <1>1. num \in Seq(0 .. 9) /\ Len(num) = w
    BY NumeralIs
  <1>. HIDE DEF num
  <1>2. num \in Seq(Nat)
    <2>1. 0 .. 9 \subseteq Nat
      OBVIOUS
    <2>. QED BY <1>1, <2>1, SeqMonotonic
  <1>3. num = Numeral(Len(str) + 10)
    BY DEF num
  <1>4. IsChunk(Chunk(str), str, num)
    BY <1>2, <1>3, ChunkIs
  <1>. QED BY <1>1, <1>4 DEF IsChunk

\* From ten million characters on the number has eight digits and the round appends eleven
\* characters where the loop has counted with ten (test_str).
THEOREM ChunkOverruns ==
  ASSUME NEW str \in Seq(Nat), Len(str) + 10 \in Power(10, 7) .. Power(10, 8) - 1
  PROVE  Chunk(str) \in Seq(Nat) /\ Len(Chunk(str)) = Len(str) + 11
  <1>. DEFINE n == Len(str) + 10  w == 8
  <1>1. n \in Nat /\ n >= Power(10, 7) /\ n < Power(10, 8)
    <2>1. Power(10, 7) \in Nat /\ Power(10, 8) \in Nat
      BY Tens
    <2>. QED BY <2>1
  <1>2. w \in 1 .. MaxDigits /\ n < Power(10, w) /\ n >= Power(10, w - 1)
    BY <1>1 DEF MaxDigits
  <1>3. n = Len(str) + 10
    OBVIOUS
  <1>. HIDE DEF n, w
  <1>4. Chunk(str) \in Seq(Nat) /\ Len(Chunk(str)) = IF w <= 7 THEN Len(str) + 10 ELSE Len(str) + w + 3
    BY <1>1, <1>2, <1>3, ChunkLength
  <1>. QED BY <1>4 DEF w

-----------------------------------------------------------------------------
(* Texts that tell where they stand.                                       *)

\* A number of at most k digits has so many.
LEMMA NumeralFits ==
  ASSUME NEW n \in Nat, NEW k \in 1 .. MaxDigits, n < Power(10, k)
  PROVE  /\ Numeral(n) \in Seq(0 .. 9) /\ Numeral(n) \in Seq(Nat)
         /\ Len(Numeral(n)) \in 1 .. k
  <1>0. k \in Nat \ {0}
    BY DEF MaxDigits
  <1>1. PICK w \in 1 .. k : n < Power(10, w) /\ (w = 1 \/ n >= Power(10, w - 1))
    BY <1>0, WidthExists
  <1>2. w \in 1 .. MaxDigits
    BY DEF MaxDigits
  <1>3. Numeral(n) \in Seq(0 .. 9) /\ Len(Numeral(n)) = w
    BY <1>1, <1>2, NumeralIs
  <1>4. Numeral(n) \in Seq(Nat)
    <2>1. 0 .. 9 \subseteq Nat
      OBVIOUS
    <2>. QED BY <1>3, <2>1, SeqMonotonic
  <1>. QED BY <1>3, <1>4

\* u begins with t.
Begins(t, u) == Len(t) <= Len(u) /\ \A i \in 1 .. Len(t) : u[i] = t[i]

\* Parts of what u begins with.
LEMMA BeginsSubSeq ==
  ASSUME NEW t \in Seq(Nat), NEW u \in Seq(Nat), Begins(t, u),
         NEW a \in Nat \ {0}, NEW b \in Nat, b <= Len(t)
  PROVE  SubSeq(u, a, b) = SubSeq(t, a, b)
  <1>. DEFINE s1 == SubSeq(t, a, b)  s2 == SubSeq(u, a, b)
  <1>1. Len(t) \in Nat /\ Len(u) \in Nat
    BY LenProperties
  <1>2. \A i \in a .. b : i \in 1 .. Len(t) /\ i \in 1 .. Len(u)
    BY <1>1 DEF Begins
  <1>3. \A i \in a .. b : t[i] \in Nat /\ u[i] \in Nat /\ u[i] = t[i]
    BY <1>2, ElementOfSeq DEF Begins
  <1>4. /\ s1 \in Seq(Nat) /\ Len(s1) = IF a <= b THEN b - a + 1 ELSE 0
        /\ \A i \in 1 .. b - a + 1 : s1[i] = t[a + i - 1]
    BY <1>3, SubSeqProperties
  <1>5. /\ s2 \in Seq(Nat) /\ Len(s2) = IF a <= b THEN b - a + 1 ELSE 0
        /\ \A i \in 1 .. b - a + 1 : s2[i] = u[a + i - 1]
    BY <1>3, SubSeqProperties
  <1>. HIDE DEF s1, s2
  <1>6. ASSUME NEW i \in 1 .. Len(s1) PROVE s1[i] = s2[i]
    <2>1. i \in 1 .. b - a + 1 /\ a + i - 1 \in a .. b
      BY <1>4
    <2>. QED BY <1>3, <1>4, <1>5, <2>1
  <1>7. s1 = s2
    BY <1>4, <1>5, <1>6, SeqEqual
  <1>. QED BY <1>7 DEF s1, s2

\* A text short enough that tells where its digits and parentheses stand.
Tells(t) ==
  t \in Seq(Nat) /\ Len(t) < Power(10, 7) /\ DigitsTell(t) /\ NumbersTell(t)

\* What is behind it may tell the rest.
LEMMA TellsOn ==
  ASSUME NEW t, NEW u \in Seq(Nat), Tells(t), Begins(t, u), Len(u) < Power(10, 7),
         \A p \in Len(t) + 1 .. Len(u) : u[p] < 10 => u[p] = p % 10 \/ p \in Numbered(u),
         \A p \in Len(t) + 1 .. Len(u) : u[p] = Close =>
           /\ p > 10 /\ u[p - 9] = Open
           /\ SubSeq(u, p - 8, p - 8 + Len(Numeral(p))) = Append(Numeral(p), Underscore)
  PROVE  Tells(u)
  <1>1. t \in Seq(Nat) /\ Len(t) \in Nat /\ Len(u) \in Nat /\ Len(t) <= Len(u)
    BY LenProperties DEF Tells, Begins
  <1>2. DigitsTell(u)
    <2>. SUFFICES ASSUME NEW p \in 1 .. Len(u), p \notin Numbered(u), u[p] < 10
                  PROVE  u[p] = p % 10
      BY DEF DigitsTell
    <2>1. CASE p \in 1 .. Len(t)
      <3>1. p \notin Numbered(t)
        <4>. SUFFICES ASSUME p \in Numbered(t) PROVE FALSE
          OBVIOUS
        <4>1. PICK q \in 1 .. p : t[q] = Open /\ \A r \in q .. p : t[r] # Underscore
          BY DEF Numbered
        <4>2. \A r \in q .. p : r \in 1 .. Len(t)
          BY <1>1, <2>1
        <4>3. q \in 1 .. Len(t)
          BY <1>1, <2>1
        <4>4. u[q] = Open /\ \A r \in q .. p : u[r] # Underscore
          BY <4>1, <4>2, <4>3 DEF Begins
        <4>. QED BY <4>4 DEF Numbered
      <3>2. u[p] = t[p]
        BY <2>1 DEF Begins
      <3>. QED BY <2>1, <3>1, <3>2 DEF Tells, DigitsTell
    <2>2. CASE p \notin 1 .. Len(t)
      <3>1. p \in Len(t) + 1 .. Len(u)
        BY <1>1, <2>2
      <3>. QED BY <3>1
    <2>. QED BY <2>1, <2>2
  <1>3. NumbersTell(u)
    <2>. SUFFICES ASSUME NEW p \in 1 .. Len(u), u[p] = Close
                  PROVE  /\ p > 10 /\ u[p - 9] = Open
                         /\ SubSeq(u, p - 8, p - 8 + Len(Numeral(p)))
                              = Append(Numeral(p), Underscore)
      BY DEF NumbersTell
    <2>1. CASE p \in 1 .. Len(t)
      <3>. DEFINE w == Len(Numeral(p))
      <3>1. t[p] = Close
        BY <2>1 DEF Begins
      <3>2. /\ p > 10 /\ t[p - 9] = Open
            /\ SubSeq(t, p - 8, p - 8 + w) = Append(Numeral(p), Underscore)
        BY <2>1, <3>1 DEF Tells, NumbersTell
      <3>3. w \in 1 .. 7
        <4>. DEFINE seven == 7
        <4>1. seven \in 1 .. MaxDigits
          BY DEF MaxDigits
        <4>2. p \in Nat /\ p < Power(10, seven)
          <5>1. Power(10, 7) \in Nat
            BY Tens
          <5>. QED BY <1>1, <5>1
        <4>. HIDE DEF seven
        <4>3. w \in 1 .. seven
          BY <4>1, <4>2, NumeralFits
        <4>. QED BY <4>3 DEF seven
      <3>. HIDE DEF w
      <3>4. p - 9 \in 1 .. Len(t)
        BY <1>1, <2>1, <3>2
      <3>5. u[p - 9] = Open
        BY <3>2, <3>4 DEF Begins
      <3>. DEFINE a == p - 8  b == p - 8 + w
      <3>6. a \in Nat \ {0} /\ b \in Nat /\ b <= Len(t)
        <4>1. p > 10
          BY <3>2
        <4>2. p \in Nat /\ Len(t) \in Nat /\ p <= Len(t)
          BY <1>1, <2>1
        <4>3. w \in Nat /\ 1 <= w /\ w <= 7
          BY <3>3
        <4>. QED BY <4>1, <4>2, <4>3
      <3>. HIDE DEF a, b
      <3>7. SubSeq(u, a, b) = SubSeq(t, a, b)
        <4>1. t \in Seq(Nat) /\ u \in Seq(Nat) /\ Begins(t, u)
          BY <1>1
        <4>. QED BY <3>6, <4>1, BeginsSubSeq
      <3>. QED BY <3>2, <3>5, <3>7 DEF a, b, w
    <2>2. CASE p \notin 1 .. Len(t)
      <3>1. p \in Len(t) + 1 .. Len(u)
        BY <1>1, <2>2
      <3>. QED BY <3>1
    <2>. QED BY <2>1, <2>2
  <1>. QED BY <1>2, <1>3 DEF Tells

\* The digits behind a text do.
LEMMA FilledTells ==
  ASSUME NEW t, Tells(t), NEW n \in Nat, n < Power(10, 7)
  PROVE  Tells(Filled(t, n)) /\ Begins(t, Filled(t, n))
  <1>. DEFINE u == Filled(t, n)
  <1>0. t \in Seq(Nat) /\ Len(t) \in Nat /\ n \in Int
    BY LenProperties DEF Tells
  <1>1. /\ u \in Seq(Nat)
        /\ Len(u) = IF n > Len(t) THEN n ELSE Len(t)
        /\ \A i \in 1 .. Len(t) : u[i] = t[i]
        /\ \A i \in Len(t) + 1 .. n : u[i] = i % 10
    BY <1>0, FilledIs
  <1>. HIDE DEF u
  <1>2. Begins(t, u)
    BY <1>0, <1>1 DEF Begins
  <1>3. Len(u) < Power(10, 7)
    BY <1>1 DEF Tells
  <1>4. ASSUME NEW p \in Len(t) + 1 .. Len(u) PROVE u[p] = p % 10 /\ u[p] # Close
    <2>1. p \in Len(t) + 1 .. n /\ p \in Nat
      BY <1>0, <1>1
    <2>2. p % 10 \in 0 .. 9
      BY <2>1
    <2>. QED BY <1>1, <2>1, <2>2 DEF Close
  <1>5. Tells(u)
    BY <1>1, <1>2, <1>3, <1>4, TellsOn
  <1>. QED BY <1>2, <1>5 DEF u

\* A round of the loop does, as long as its number has seven digits.
LEMMA ChunkTells ==
  ASSUME NEW t, Tells(t), Len(t) >= 1, Len(t) + 10 < Power(10, 7)
  PROVE  /\ Tells(Chunk(t)) /\ Begins(t, Chunk(t))
         /\ Len(Chunk(t)) = Len(t) + 10
  <1>. DEFINE u == Chunk(t)  len == Len(t)  num == Numeral(len + 10)  w == Len(num)
  <1>1. t \in Seq(Nat) /\ len \in Nat \ {0}
    BY LenProperties DEF Tells
  <1>2. num \in Seq(0 .. 9) /\ num \in Seq(Nat) /\ w \in 1 .. 7
    <2>. DEFINE seven == 7  m == len + 10
    <2>1. seven \in 1 .. MaxDigits /\ m \in Nat /\ m < Power(10, seven)
      BY <1>1 DEF MaxDigits
    <2>. HIDE DEF seven, m
    <2>2. Numeral(m) \in Seq(0 .. 9) /\ Numeral(m) \in Seq(Nat) /\ Len(Numeral(m)) \in 1 .. seven
      BY <2>1, NumeralFits
    <2>. QED BY <2>2 DEF seven, m
  <1>3. /\ u \in Seq(Nat) /\ Len(u) = IF w <= 7 THEN len + 10 ELSE len + w + 3
        /\ \A i \in 1 .. len : u[i] = t[i]
        /\ u[len + 1] = Open
        /\ \A i \in len + 2 .. len + 1 + w : u[i] = num[i - len - 1]
        /\ u[len + w + 2] = Underscore
        /\ \A i \in len + w + 3 .. len + 9 : u[i] = i % 10
        /\ u[Len(u)] = Close
    <2>1. IsChunk(u, t, num)
      BY <1>1, <1>2, ChunkIs
    <2>. HIDE DEF u, num
    <2>. QED BY <2>1 DEF IsChunk
  <1>. HIDE DEF u, len, num, w
  <1>4. /\ u \in Seq(Nat) /\ Len(u) = len + 10
        /\ \A i \in 1 .. len : u[i] = t[i]
        /\ u[len + 1] = Open
        /\ \A i \in len + 2 .. len + 1 + w : u[i] = num[i - len - 1]
        /\ u[len + w + 2] = Underscore
        /\ \A i \in len + w + 3 .. len + 9 : u[i] = i % 10
        /\ u[len + 10] = Close
    <2>1. Len(u) = len + 10
      BY <1>2, <1>3
    <2>. QED BY <1>3, <2>1
  <1>5. Begins(t, u)
    <2>1. Len(t) = len
      BY DEF len
    <2>. QED BY <1>1, <1>4, <2>1 DEF Begins
  <1>6. ASSUME NEW i \in len + 2 .. len + 1 + w PROVE u[i] \in 0 .. 9 /\ i \in Numbered(u)
    <2>1. ASSUME NEW j \in len + 2 .. len + 1 + w PROVE u[j] \in 0 .. 9
      <3>. DEFINE k == j - len - 1
      <3>1. k \in 1 .. Len(num)
        BY <1>1, <1>2 DEF w
      <3>2. num[k] \in 0 .. 9
        <4>. HIDE DEF k
        <4>. QED BY <1>2, <3>1, ElementOfSeq
      <3>3. u[j] = num[k]
        BY <1>4
      <3>. QED BY <3>2, <3>3
    <2>2. i \in 1 .. Len(u) /\ len + 1 \in 1 .. i
      BY <1>1, <1>2, <1>4
    <2>3. ASSUME NEW r \in len + 1 .. i PROVE u[r] # Underscore
      <3>1. r = len + 1 \/ r \in len + 2 .. len + 1 + w
        BY <1>1, <1>2
      <3>2. CASE r = len + 1
        BY <1>4, <3>2 DEF Open, Underscore
      <3>3. CASE r \in len + 2 .. len + 1 + w
        BY <2>1, <3>3 DEF Underscore
      <3>. QED BY <3>1, <3>2, <3>3
    <2>. QED BY <1>4, <2>1, <2>2, <2>3 DEF Numbered
  <1>7. ASSUME NEW p \in len + 1 .. Len(u)
        PROVE  (u[p] < 10 => u[p] = p % 10 \/ p \in Numbered(u)) /\ (u[p] = Close => p = len + 10)
    <2>1. \/ p = len + 1 \/ p \in len + 2 .. len + 1 + w \/ p = len + w + 2
          \/ p \in len + w + 3 .. len + 9 \/ p = len + 10
      BY <1>1, <1>2, <1>4
    <2>2. CASE p = len + 1
      BY <1>4, <2>2 DEF Open, Close
    <2>3. CASE p \in len + 2 .. len + 1 + w
      BY <1>6, <2>3 DEF Close
    <2>4. CASE p = len + w + 2
      BY <1>4, <2>4 DEF Underscore, Close
    <2>5. CASE p \in len + w + 3 .. len + 9
      <3>1. p % 10 \in 0 .. 9
        BY <1>1, <1>2
      <3>. QED BY <1>4, <2>5, <3>1 DEF Close
    <2>6. CASE p = len + 10
      BY <1>4, <2>6 DEF Close
    <2>. QED BY <2>1, <2>2, <2>3, <2>4, <2>5, <2>6
  <1>8. SubSeq(u, len + 2, len + 2 + w) = Append(num, Underscore)
    <2>. DEFINE a == len + 2  b == len + 2 + w  s1 == SubSeq(u, a, b)
                e == Underscore  s2 == Append(num, e)
    <2>1. a \in Int /\ b \in Int /\ \A i \in a .. b : u[i] \in Nat
      <3>1. \A i \in a .. b : i \in 1 .. Len(u)
        BY <1>1, <1>2, <1>4
      <3>2. \A i \in 1 .. Len(u) : u[i] \in Nat
        <4>. HIDE DEF u
        <4>. QED BY <1>4, ElementOfSeq
      <3>3. a \in Int /\ b \in Int
        BY <1>1, <1>2
      <3>. HIDE DEF u, a, b
      <3>. QED BY <3>1, <3>2, <3>3
    <2>2. e \in Nat
      BY DEF Underscore
    <2>. HIDE DEF a, b, e
    <2>3. /\ s1 \in Seq(Nat) /\ Len(s1) = IF a <= b THEN b - a + 1 ELSE 0
          /\ \A i \in 1 .. b - a + 1 : s1[i] = u[a + i - 1]
      BY <2>1, SubSeqProperties
    <2>4. /\ s2 \in Seq(Nat) /\ Len(s2) = Len(num) + 1
          /\ \A i \in 1 .. Len(num) : s2[i] = num[i]
          /\ s2[Len(num) + 1] = e
      BY <1>2, <2>2, AppendProperties
    <2>. HIDE DEF s1, s2
    <2>5. Len(s1) = w + 1 /\ Len(s2) = w + 1 /\ b - a + 1 = w + 1
      BY <1>1, <1>2, <2>3, <2>4 DEF a, b, w
    <2>8. Len(num) = w /\ w \in Nat /\ len \in Nat
      BY <1>1, <1>2 DEF w
    <2>9. w \in Nat /\ len \in Nat
      BY <2>8
    <2>6. ASSUME NEW i \in 1 .. Len(s1) PROVE s1[i] = s2[i]
      <3>0. i \in 1 .. w + 1
        BY <2>5
      <3>1. s1[i] = u[len + 1 + i]
        <4>1. i \in 1 .. b - a + 1 /\ a + i - 1 = len + 1 + i
          BY <1>1, <2>5 DEF a
        <4>. QED BY <2>3, <4>1
      <3>2. CASE i <= w
        <4>0. i \in 1 .. w
          BY <2>9, <3>0, <3>2
        <4>. DEFINE j == len + 1 + i
        <4>1. j \in len + 2 .. len + 1 + w /\ j - len - 1 = i
          BY <2>9, <4>0
        <4>2. i \in 1 .. Len(num)
          BY <2>8, <4>0
        <4>3. u[j] = num[i]
          <5>. HIDE DEF j
          <5>1. \A k \in len + 2 .. len + 1 + w : u[k] = num[k - len - 1]
            BY <1>4
          <5>. QED BY <4>1, <5>1
        <4>4. s2[i] = num[i]
          BY <2>4, <4>2
        <4>. QED BY <3>1, <4>3, <4>4
      <3>3. CASE ~(i <= w)
        <4>1. i = Len(num) + 1 /\ len + 1 + i = len + w + 2
          BY <2>8, <3>0, <3>3
        <4>. QED BY <1>4, <2>4, <3>1, <4>1 DEF e
      <3>. QED BY <3>2, <3>3
    <2>7. s1 = s2
      BY <2>3, <2>4, <2>5, <2>6, SeqEqual
    <2>. QED BY <2>7 DEF s1, s2, a, b, e
  <1>9. ASSUME NEW p \in len + 1 .. Len(u), u[p] = Close
        PROVE  /\ p > 10 /\ u[p - 9] = Open
               /\ SubSeq(u, p - 8, p - 8 + Len(Numeral(p))) = Append(Numeral(p), Underscore)
    <2>1. p = len + 10
      BY <1>7, <1>9
    <2>2. p > 10 /\ p - 9 = len + 1 /\ p - 8 = len + 2
      BY <1>1, <2>1
    <2>3. Numeral(p) = num /\ Len(Numeral(p)) = w
      BY <2>1 DEF num, w
    <2>. QED BY <1>4, <1>8, <2>2, <2>3
  <1>10. Tells(u)
    <2>1. Len(u) < Power(10, 7)
      BY <1>4 DEF len
    <2>2. \A p \in Len(t) + 1 .. Len(u) : u[p] < 10 => u[p] = p % 10 \/ p \in Numbered(u)
      BY <1>7 DEF len
    <2>3. \A p \in Len(t) + 1 .. Len(u) : u[p] = Close =>
            /\ p > 10 /\ u[p - 9] = Open
            /\ SubSeq(u, p - 8, p - 8 + Len(Numeral(p))) = Append(Numeral(p), Underscore)
      BY <1>9 DEF len
    <2>. QED BY <1>4, <1>5, <2>1, <2>2, <2>3, TellsOn
  <1>. QED BY <1>4, <1>5, <1>10 DEF u, len

-----------------------------------------------------------------------------
(* The loop, and test_str.                                                 *)

\* As many tens as fit in n.
LEMMA Tenth ==
  ASSUME NEW n \in Nat
  PROVE  n \div 10 \in Nat /\ 10 * (n \div 10) + 10 > n
  OBVIOUS

\* The texts p after each round of the loop.
Rounds(p, str, n) ==
  /\ p[0] = str
  /\ \A i \in 1 .. n \div 10 :
       p[i] = IF Len(p[i - 1]) + 10 <= n THEN Chunk(p[i - 1]) ELSE p[i - 1]
  /\ Grown(str, n) = p[n \div 10]

\* A round fits, and leaves the text in T.
Fits(T, n) == \A s \in T : Len(s) + 10 <= n => Chunk(s) \in T

\* The loop's rounds stay in T if a round that fits does.
LEMMA GrownRun ==
  ASSUME NEW T, NEW str \in T, NEW n \in Nat, Fits(T, n)
  PROVE  \E p \in [0 .. n \div 10 -> T] : Rounds(p, str, n)
  <1>. DEFINE More(s) == IF Len(s) + 10 <= n THEN Chunk(s) ELSE s
              m == n \div 10
              Eq(g) == g = [k \in 0 .. m |-> IF k = 0 THEN str ELSE More(g[k - 1])]
              p == CHOOSE g : Eq(g)
              step == [x \in (Nat \ {0}) \X T |-> More(x[2])]
  <1>1. m \in Nat
    BY Tenth, Zenon
  <1>2. step \in [(Nat \ {0}) \X T -> T]
    BY DEF Fits
  <1>3. \A i \in Nat \ {0}, s \in T : step[<<i, s>>] = More(s)
    OBVIOUS
  <1>4. Grown(str, n) = p[m]
    BY DEF Grown
  <1>5. \A s : More(s) = IF Len(s) + 10 <= n THEN Chunk(s) ELSE s
    OBVIOUS
  <1>. HIDE DEF More, m, step
  <1>6. PICK g \in [0 .. m -> T] : Runs(g, m, str, step)
    BY <1>1, <1>2, RunExists
  <1>7. Eq(g)
    <2>1. ASSUME NEW i \in 1 .. m PROVE g[i] = More(g[i - 1])
      <3>1. i - 1 \in 0 .. m /\ i \in Nat \ {0} /\ g[i - 1] \in T
        BY <1>1
      <3>. QED BY <1>3, <1>6, <3>1 DEF Runs
    <2>2. \A i \in 0 .. m : g[i] = IF i = 0 THEN str ELSE More(g[i - 1])
      BY <1>1, <1>6, <2>1 DEF Runs
    <2>. QED BY <2>2
  <1>8. Eq(p)
    BY <1>7
  <1>. HIDE DEF p
  <1>9. \A i \in 0 .. m : p[i] = g[i]
    <2>1. Runs(p, m, str, step)
      <3>. DEFINE C == {i \in Nat : p[i] \in T}
      <3>1. p[0] = str /\ \A i \in 1 .. m : p[i] = More(p[i - 1])
        BY <1>1, <1>8
      <3>2. ASSUME NEW s \in T PROVE More(s) \in T
        BY <1>5 DEF Fits
      <3>3. 0 \in C
        BY <3>1
      <3>4. \A i \in 1 .. m : i - 1 \in C => i \in C
        BY <3>1, <3>2
      <3>5. \A i \in 0 .. m : i \in C
        <4>. HIDE DEF C
        <4>. QED BY <1>1, <3>3, <3>4, UpTo
      <3>6. ASSUME NEW i \in 1 .. m PROVE p[i] = step[<<i, p[i - 1]>>]
        <4>1. i - 1 \in 0 .. m /\ i \in Nat \ {0}
          BY <1>1
        <4>2. p[i - 1] \in T
          BY <3>5, <4>1
        <4>. QED BY <1>3, <3>1, <4>1, <4>2
      <3>. QED BY <3>1, <3>6 DEF Runs
    <2>. QED BY <1>1, <1>6, <2>1, RunUnique
  <1>10. g[0] = str /\ \A i \in 1 .. m : g[i] = More(g[i - 1])
    <2>1. \A i \in 1 .. m : i \in 0 .. m /\ i - 1 \in 0 .. m
      BY <1>1
    <2>. QED BY <1>1, <1>7, <2>1
  <1>11. Grown(str, n) = g[m]
    BY <1>1, <1>4, <1>9
  <1>12. \A i \in 1 .. m : g[i] = IF Len(g[i - 1]) + 10 <= n THEN Chunk(g[i - 1]) ELSE g[i - 1]
    BY <1>5, <1>10
  <1>. QED BY <1>10, <1>11, <1>12 DEF m, Rounds

\* The loop makes a text that tells, and stops when no further round fits.
LEMMA GrownIs ==
  ASSUME NEW str, Tells(str), str[1] = Underscore, Len(str) = 10,
         NEW n \in Nat, n >= 10, n < Power(10, 7)
  PROVE  /\ Tells(Grown(str, n)) /\ Grown(str, n)[1] = Underscore
         /\ Len(Grown(str, n)) \in 10 .. n /\ Len(Grown(str, n)) + 10 > n
  <1>. DEFINE S == {t \in Seq(Nat) : Tells(t) /\ t[1] = Underscore /\ Len(t) \in 10 .. n}
              m == n \div 10
  <1>1. m \in Nat /\ 10 * m + 10 > n
    BY Tenth, Zenon
  <1>2. str \in S
    <2>1. str \in Seq(Nat) /\ Len(str) \in 10 .. n
      BY DEF Tells
    <2>. QED BY <2>1
  <1>3. ASSUME NEW s \in S, Len(s) + 10 <= n
        PROVE  Chunk(s) \in S /\ Len(Chunk(s)) = Len(s) + 10
    <2>1. Power(10, 7) \in Nat
      BY Tens
    <2>2. Tells(s) /\ Len(s) >= 1 /\ Len(s) + 10 < Power(10, 7) /\ Len(s) \in Nat
      BY <1>3, <2>1
    <2>3. Tells(Chunk(s)) /\ Begins(s, Chunk(s)) /\ Len(Chunk(s)) = Len(s) + 10
      BY <2>2, ChunkTells
    <2>4. Chunk(s)[1] = Underscore /\ Chunk(s) \in Seq(Nat)
      <3>1. 1 \in 1 .. Len(s)
        BY <2>2
      <3>. QED BY <2>3, <3>1 DEF Begins, Tells
    <2>. QED BY <1>3, <2>2, <2>3, <2>4
  <1>4. PICK p \in [0 .. m -> S] : Rounds(p, str, n)
    <2>1. Fits(S, n)
      BY <1>3 DEF Fits
    <2>. HIDE DEF S
    <2>. QED BY <1>2, <2>1, GrownRun
  <1>11. /\ p[0] = str /\ Grown(str, n) = p[m]
         /\ \A i \in 1 .. m : p[i] = IF Len(p[i - 1]) + 10 <= n THEN Chunk(p[i - 1]) ELSE p[i - 1]
    BY <1>4 DEF Rounds
  <1>5. \A s \in S : Len(s) \in Nat
    OBVIOUS
  <1>. HIDE DEF m, S
  <1>. DEFINE T == {i \in Nat : Len(p[i]) = 10 * i + 10 \/ Len(p[i]) + 10 > n}
  <1>6. 0 \in T
    BY <1>11
  <1>7. ASSUME NEW i \in 1 .. m, i - 1 \in T PROVE i \in T
    <2>1. i \in Nat /\ i - 1 \in Nat /\ i - 1 \in 0 .. m
      BY <1>1
    <2>. DEFINE s == p[i - 1]
    <2>2. s \in S /\ Len(s) \in Nat /\ p[i] = IF Len(s) + 10 <= n THEN Chunk(s) ELSE s
      BY <1>4, <1>5, <1>11, <2>1
    <2>3. Len(s) = 10 * (i - 1) + 10 \/ Len(s) + 10 > n
      BY <1>7
    <2>. HIDE DEF s
    <2>4. CASE Len(s) + 10 <= n
      <3>1. Len(p[i]) = 10 * i + 10
        BY <1>3, <2>1, <2>2, <2>3, <2>4
      <3>. QED BY <2>1, <3>1
    <2>5. CASE ~(Len(s) + 10 <= n)
      <3>1. p[i] = s
        BY <2>2, <2>5
      <3>. QED BY <2>1, <2>2, <2>5, <3>1
    <2>. QED BY <2>4, <2>5
  <1>8. m \in T
    <2>1. \A i \in 0 .. m : i \in T
      <3>. HIDE DEF T
      <3>. QED BY <1>1, <1>6, <1>7, UpTo
    <2>. QED BY <1>1, <2>1
  <1>9. p[m] \in S /\ (Len(p[m]) = 10 * m + 10 \/ Len(p[m]) + 10 > n)
    BY <1>1, <1>4, <1>8
  <1>. HIDE DEF T
  <1>10. /\ Tells(p[m]) /\ p[m][1] = Underscore /\ Len(p[m]) \in 10 .. n
    BY <1>9 DEF S
  <1>. QED BY <1>1, <1>9, <1>10, <1>11

\* Letters only: there is nothing to tell.
LEMMA PlainTells ==
  ASSUME NEW t \in Seq(Nat), Len(t) < Power(10, 7),
         \A i \in 1 .. Len(t) : t[i] \in {Underscore, Colon, Equal}
  PROVE  Tells(t)
  <1>1. \A i \in 1 .. Len(t) : ~(t[i] < 10) /\ t[i] # Close
    BY DEF Underscore, Colon, Equal, Close
  <1>2. DigitsTell(t) /\ NumbersTell(t)
    BY <1>1 DEF DigitsTell, NumbersTell
  <1>. QED BY <1>2 DEF Tells

\* What test_str has to start with.
LEMMA Prefix ==
  LET str == Append(<<Underscore>>, Colon)
  IN /\ str \in Seq(Nat) /\ Len(str) = 2 /\ Tells(str) /\ str[1] = Underscore
     /\ \A n \in Nat : n < Power(10, 7) =>
          /\ Resized(str, n) \in Seq(Nat) /\ Len(Resized(str, n)) = n
          /\ Tells(Resized(str, n)) /\ (n > 0 => Resized(str, n)[1] = Underscore)
  <1>. DEFINE str == Append(<<Underscore>>, Colon)
  <1>1. /\ str \in Seq(Nat) /\ Len(str) = 2
        /\ str[1] = Underscore /\ str[2] = Colon
    BY DEF Underscore, Colon
  <1>. HIDE DEF str
  <1>2. Tells(str)
    <2>1. 2 < Power(10, 7)
      <3>. DEFINE b == 10
      <3>1. b \in Nat \ {0} /\ Power(10, 0) = 1
        BY PowerFacts
      <3>2. Power(10, 1) = 10 /\ Power(10, 1) <= Power(10, 7) /\ Power(10, 7) \in Nat
        <4>1. Power(10, 0 + 1) = 10 * Power(10, 0)
          BY Tens
        <4>2. Power(10, 0) = 1
          <5>. HIDE DEF b
          <5>1. Power(b, 0) = 1
            BY <3>1, PowerFacts
          <5>. QED BY <5>1 DEF b
        <4>. QED BY <4>1, <4>2, TensGrow, Tens
      <3>. QED BY <3>2
    <2>2. \A i \in 1 .. Len(str) : str[i] \in {Underscore, Colon, Equal}
      BY <1>1
    <2>. QED BY <1>1, <2>1, <2>2, PlainTells
  <1>3. ASSUME NEW n \in Nat, n < Power(10, 7)
        PROVE  /\ Resized(str, n) \in Seq(Nat) /\ Len(Resized(str, n)) = n
               /\ Tells(Resized(str, n)) /\ (n > 0 => Resized(str, n)[1] = Underscore)
    <2>. DEFINE u == Resized(str, n)
    <2>1. u = [i \in 1 .. n |-> IF i <= 2 THEN str[i] ELSE Equal]
      BY <1>1 DEF Resized
    <2>2. \A i \in 1 .. n : u[i] \in {Underscore, Colon, Equal} /\ u[i] = IF i <= 2 THEN str[i] ELSE Equal
      <3>1. \A i \in 1 .. n : i <= 2 => i = 1 \/ i = 2
        OBVIOUS
      <3>. QED BY <1>1, <2>1, <3>1
    <2>3. u \in [1 .. n -> Nat]
      BY <2>1, <2>2 DEF Underscore, Colon, Equal
    <2>. HIDE DEF u
    <2>4. u \in Seq(Nat) /\ Len(u) = n
      BY <2>3
    <2>5. n > 0 => u[1] = Underscore
      BY <1>1, <2>2
    <2>6. Tells(u)
      BY <1>3, <2>2, <2>4, PlainTells
    <2>. QED BY <2>4, <2>5, <2>6 DEF u
  <1>. QED BY <1>1, <1>2, <1>3 DEF str

\* test_str has the length asked for, begins with its prefix and tells.
LEMMA TestStrIs ==
  ASSUME NEW n \in Nat, n < Power(10, 7)
  PROVE  LET t == test_str(<<Underscore>>, n)
         IN Tells(t) /\ Len(t) = n /\ (n > 0 => t[1] = Underscore)
  <1>. DEFINE pre == Append(<<Underscore>>, Colon)
              t == test_str(<<Underscore>>, n)
  <1>1. /\ pre \in Seq(Nat) /\ Len(pre) = 2 /\ Tells(pre) /\ pre[1] = Underscore
        /\ \A k \in Nat : k < Power(10, 7) =>
             /\ Resized(pre, k) \in Seq(Nat) /\ Len(Resized(pre, k)) = k
             /\ Tells(Resized(pre, k)) /\ (k > 0 => Resized(pre, k)[1] = Underscore)
    BY Prefix
  <1>2. t = IF Len(pre) >= n THEN Resized(pre, n)
            ELSE IF n < 20 THEN Filled(pre, n)
            ELSE Filled(Grown(Resized(pre, 10), n), n)
    BY DEF test_str
  <1>. SUFFICES Tells(t) /\ Len(t) = n /\ (n > 0 => t[1] = Underscore)
    OBVIOUS
  <1>. HIDE DEF pre, t
  <1>3. CASE 2 >= n
    BY <1>1, <1>2, <1>3
  <1>4. ASSUME NEW s, Tells(s), Len(s) \in 1 .. n, s[1] = Underscore
        PROVE  Tells(Filled(s, n)) /\ Len(Filled(s, n)) = n /\ Filled(s, n)[1] = Underscore
    <2>1. Tells(Filled(s, n)) /\ Begins(s, Filled(s, n))
      BY <1>4, FilledTells
    <2>2. s \in Seq(Nat) /\ n \in Int
      BY <1>4 DEF Tells
    <2>3. Len(Filled(s, n)) = IF n > Len(s) THEN n ELSE Len(s)
      BY <2>2, FilledIs
    <2>4. 1 \in 1 .. Len(s)
      BY <1>4
    <2>. QED BY <1>4, <2>1, <2>3, <2>4 DEF Begins
  <1>5. CASE ~(2 >= n) /\ n < 20
    <2>1. t = Filled(pre, n)
      BY <1>1, <1>2, <1>5
    <2>2. Len(pre) \in 1 .. n /\ Tells(pre) /\ pre[1] = Underscore
      BY <1>1, <1>5
    <2>3. n > 0
      BY <1>5
    <2>. QED BY <1>4, <2>1, <2>2, <2>3
  <1>6. CASE ~(2 >= n) /\ ~(n < 20)
    <2>. DEFINE r == Resized(pre, 10)  g == Grown(r, n)
    <2>1. t = Filled(g, n)
      BY <1>1, <1>2, <1>6
    <2>2. 10 < Power(10, 7)
      <3>1. Power(10, 7) \in Nat
        BY Tens
      <3>. QED BY <1>6, <3>1
    <2>3. Tells(r) /\ r[1] = Underscore /\ Len(r) = 10
      <3>. DEFINE ten == 10
      <3>1. ten \in Nat /\ ten < Power(10, 7) /\ ten > 0
        BY <2>2
      <3>2. r = Resized(pre, ten)
        OBVIOUS
      <3>. HIDE DEF ten, r
      <3>3. Tells(r) /\ r[1] = Underscore /\ Len(r) = ten
        BY <1>1, <3>1, <3>2
      <3>. QED BY <3>3 DEF ten
    <2>. HIDE DEF r
    <2>4. n >= 10
      BY <1>6
    <2>5. Tells(g) /\ g[1] = Underscore /\ Len(g) \in 10 .. n
      BY <2>3, <2>4, GrownIs
    <2>6. Len(g) \in 1 .. n
      BY <2>5
    <2>. HIDE DEF g
    <2>. QED BY <1>4, <2>1, <2>5, <2>6
  <1>. QED BY <1>3, <1>5, <1>6

\* Asked for ten million characters test_str makes one more: the last round counts with ten and
\* appends eleven, and what fills the rest up takes nothing away. No smaller size does that.
THEOREM TestStrOverruns ==
  Len(test_str(<<Underscore>>, Power(10, 7))) = Power(10, 7) + 1
  <1>. DEFINE n == Power(10, 7)  m == Power(10, 6)
              pre == Append(<<Underscore>>, Colon)
              str == Resized(pre, 10)
              S == {s \in Seq(Nat) : Len(s) <= n + 1}
  <1>1. m \in Nat /\ m >= 10 /\ n = 10 * m /\ n < Power(10, 8) /\ n \in Nat
    <2>1. Power(10, 5 + 1) = 10 * Power(10, 5) /\ Power(10, 5) \in Nat \ {0}
      BY Tens
    <2>2. Power(10, 6 + 1) = 10 * Power(10, 6)
      BY Tens
    <2>3. Power(10, 7 + 1) = 10 * Power(10, 7) /\ Power(10, 7) \in Nat \ {0}
      BY Tens
    <2>. QED BY <2>1, <2>2, <2>3
  <1>2. n \div 10 = m
    <2>. HIDE DEF n, m
    <2>. QED BY <1>1
  <1>. HIDE DEF n, m
  <1>3. str \in Seq(Nat) /\ Len(str) = 10 /\ Len(pre) = 2
    <2>. DEFINE ten == 10
    <2>1. ten < n
      BY <1>1
    <2>. HIDE DEF ten
    <2>2. Len(pre) = 2 /\ Resized(pre, ten) \in Seq(Nat) /\ Len(Resized(pre, ten)) = ten
      <3>1. ten \in Nat /\ ten < Power(10, 7)
        BY <2>1 DEF n, ten
      <3>. HIDE DEF pre
      <3>. QED BY <3>1, Prefix DEF pre
    <2>. QED BY <2>2 DEF ten
  <1>4. test_str(<<Underscore>>, n) = Filled(Grown(str, n), n)
    <2>1. ~(Len(pre) >= n) /\ ~(n < 20)
      BY <1>1, <1>3
    <2>. QED BY <2>1 DEF test_str
  <1>. HIDE DEF str, pre
  <1>5. ASSUME NEW s \in Seq(Nat), Len(s) + 10 <= n
        PROVE  /\ Chunk(s) \in Seq(Nat)
               /\ Len(Chunk(s)) = IF Len(s) + 10 = n THEN n + 1 ELSE Len(s) + 10
    <2>1. Len(s) \in Nat
      BY LenProperties
    <2>2. CASE Len(s) + 10 = n
      <3>1. Len(s) + 10 \in Power(10, 7) .. Power(10, 8) - 1
        <4>1. Power(10, 8) \in Nat
          BY Tens
        <4>. QED BY <1>1, <2>1, <2>2, <4>1 DEF n
      <3>2. Chunk(s) \in Seq(Nat) /\ Len(Chunk(s)) = Len(s) + 11
        BY <3>1, ChunkOverruns
      <3>. QED BY <2>1, <2>2, <3>2
    <2>3. CASE Len(s) + 10 < n
      <3>. DEFINE k == Len(s) + 10  seven == 7
      <3>1. k \in Nat /\ k = Len(s) + 10 /\ k < Power(10, seven) /\ seven \in Nat \ {0}
        BY <2>1, <2>3 DEF n
      <3>. HIDE DEF k, seven
      <3>2. PICK w \in 1 .. seven : k < Power(10, w) /\ (w = 1 \/ k >= Power(10, w - 1))
        BY <3>1, WidthExists
      <3>3. w \in 1 .. MaxDigits /\ w <= 7
        BY DEF MaxDigits, seven
      <3>4. /\ Chunk(s) \in Seq(Nat)
            /\ Len(Chunk(s)) = IF w <= 7 THEN Len(s) + 10 ELSE Len(s) + w + 3
        BY <3>1, <3>2, <3>3, ChunkLength
      <3>. QED BY <1>1, <2>1, <2>3, <3>3, <3>4
    <2>. QED BY <1>1, <1>5, <2>1, <2>2, <2>3
  <1>6. PICK p \in [0 .. m -> S] : Rounds(p, str, n)
    <2>1. Fits(S, n)
      <3>1. ASSUME NEW s \in S, Len(s) + 10 <= n PROVE Chunk(s) \in S
        BY <1>1, <1>5, <3>1
      <3>. QED BY <3>1 DEF Fits
    <2>2. str \in S
      <3>1. 10 <= n + 1
        BY <1>1
      <3>. QED BY <1>3, <3>1
    <2>. HIDE DEF S
    <2>3. \E p \in [0 .. n \div 10 -> S] : Rounds(p, str, n)
      BY <1>1, <2>1, <2>2, GrownRun
    <2>. QED BY <1>2, <2>3
  <1>7. /\ p[0] = str /\ Grown(str, n) = p[m]
        /\ \A i \in 1 .. m : p[i] = IF Len(p[i - 1]) + 10 <= n THEN Chunk(p[i - 1]) ELSE p[i - 1]
    BY <1>2, <1>6 DEF Rounds
  <1>8. \A i \in 0 .. m : p[i] \in Seq(Nat) /\ Len(p[i]) \in Nat
    BY <1>6, LenProperties
  <1>. HIDE DEF S
  <1>. DEFINE T == {i \in Nat : Len(p[i]) = 10 * i + 10}
              last == m - 2
  <1>9. \A i \in 0 .. last : i \in T
    <2>1. last \in Nat
      BY <1>1
    <2>2. 0 \in T
      BY <1>3, <1>7
    <2>3. ASSUME NEW i \in 1 .. last, i - 1 \in T PROVE i \in T
      <3>1. i \in 1 .. m /\ i - 1 \in 0 .. m /\ i \in Nat
        BY <1>1
      <3>. DEFINE s == p[i - 1]
      <3>2. s \in Seq(Nat) /\ Len(s) = 10 * (i - 1) + 10
        BY <1>8, <2>3, <3>1
      <3>3. p[i] = IF Len(s) + 10 <= n THEN Chunk(s) ELSE s
        BY <1>7, <3>1
      <3>4. Len(s) + 10 < n /\ Len(s) + 10 = 10 * i + 10
        BY <1>1, <3>1, <3>2
      <3>. HIDE DEF s
      <3>5. Len(Chunk(s)) = 10 * i + 10
        BY <1>1, <1>5, <3>2, <3>4
      <3>. QED BY <1>1, <3>1, <3>3, <3>4, <3>5
    <2>. HIDE DEF T, last
    <2>. QED BY <2>1, <2>2, <2>3, UpTo
  <1>10. Len(p[m]) = n + 1 /\ p[m] \in Seq(Nat)
    <2>. DEFINE s == p[m - 2]  t == p[m - 1]
    <2>1. Len(s) = n - 10
      <3>1. last \in 0 .. last
        BY <1>1
      <3>2. Len(p[last]) = 10 * last + 10
        BY <1>9, <3>1
      <3>. QED BY <1>1, <3>2
    <2>2. m - 2 \in 0 .. m /\ m - 1 \in 1 .. m /\ m \in 1 .. m /\ m - 1 - 1 = m - 2 /\ m \in 0 .. m
      BY <1>1
    <2>3. s \in Seq(Nat) /\ p[m] \in Seq(Nat)
      BY <1>8, <2>2
    <2>4. t = IF Len(s) + 10 <= n THEN Chunk(s) ELSE s
      BY <1>7, <2>2
    <2>5. p[m] = IF Len(t) + 10 <= n THEN Chunk(t) ELSE t
      BY <1>7, <2>2
    <2>. HIDE DEF s, t
    <2>6. Len(t) = n + 1
      BY <1>1, <1>5, <2>1, <2>3, <2>4
    <2>7. ~(Len(t) + 10 <= n)
      BY <1>1, <2>6
    <2>. QED BY <2>3, <2>5, <2>6, <2>7
  <1>11. Len(Filled(p[m], n)) = n + 1
    <2>. DEFINE g == p[m]
    <2>1. g \in Seq(Nat) /\ n \in Int /\ Len(g) = n + 1
      BY <1>1, <1>10
    <2>. HIDE DEF g
    <2>2. Len(Filled(g, n)) = IF n > Len(g) THEN n ELSE Len(g)
      BY <2>1, FilledIs
    <2>. QED BY <1>1, <2>1, <2>2 DEF g
  <1>. QED BY <1>4, <1>7, <1>11 DEF n

-----------------------------------------------------------------------------
(* The clock in a message.                                                 *)

\* The clock's digits.
LEMMA ClockNumeral ==
  ASSUME NEW c \in Power(10, ClockDigits - 1) .. Power(10, ClockDigits) - 1
  PROVE  /\ Numeral(c) \in Seq(0 .. 9) /\ Numeral(c) \in Seq(Nat)
         /\ Len(Numeral(c)) = ClockDigits /\ Number(Numeral(c)) = c
         /\ ClockDigits \in Nat \ {0} /\ c \in Nat
  <1>. DEFINE w == ClockDigits  low == Power(10, w - 1)  high == Power(10, w)
  <1>1. w \in 1 .. MaxDigits /\ w \in Nat \ {0} /\ w - 1 \in Nat
    BY DigitsAssumption DEF MaxDigits
  <1>2. low \in Nat /\ high \in Nat
    <2>1. \A k \in Nat : Power(10, k) \in Nat
      BY Tens
    <2>. QED BY <1>1, <2>1
  <1>3. c \in Nat /\ c < high /\ c >= low
    <2>. HIDE DEF low, high
    <2>1. c \in low .. high - 1
      BY DEF low, high
    <2>. QED BY <1>2, <2>1
  <1>4. Numeral(c) \in Seq(0 .. 9) /\ Len(Numeral(c)) = w /\ Number(Numeral(c)) = c
    BY <1>1, <1>3, NumeralIs, NumberOfNumeral
  <1>5. Numeral(c) \in Seq(Nat)
    <2>1. 0 .. 9 \subseteq Nat
      OBVIOUS
    <2>. QED BY <1>4, <2>1, SeqMonotonic
  <1>. QED BY <1>1, <1>3, <1>4, <1>5

\* Texts and digits.
Text(s) == s \in Seq(Nat)

\* The characters of a number.
Digits(s) == s \in Seq(0 .. 9)

\* What stands in front of the first underscore is read.
LEMMA TimeIs ==
  ASSUME NEW num, Text(num), Digits(num), NEW t, Text(t), Len(t) > 0, t[1] = Underscore
  PROVE  get_time_from_msg(num \o t) = Number(num)
  <1>. DEFINE msg == num \o t
              w == Len(num)
              k == Len(t)
              marks == {i \in 1 .. Len(msg) : msg[i] = Underscore}
              pos == CHOOSE i \in marks : \A j \in marks : i <= j
              digits == {i \in 1 .. pos - 1 : \A j \in 1 .. i : msg[j] < 10}
  <1>1. w \in Nat /\ k \in Nat \ {0}
    BY LenProperties DEF Text
  <1>2. \A i \in 1 .. w : num[i] \in 0 .. 9
    BY ElementOfSeq DEF Digits
  <1>3. /\ Text(msg) /\ Len(msg) = w + k
        /\ \A i \in 1 .. w : msg[i] = num[i]
        /\ \A i \in w + 1 .. w + k : msg[i] = t[i - w]
    <2>1. w = Len(num) /\ k = Len(t) /\ t \in Seq(Nat) /\ num \in Seq(Nat)
      BY DEF Text
    <2>. HIDE DEF w, k
    <2>. QED BY <2>1, Behind DEF Text
  <1>4. get_time_from_msg(msg)
          = IF marks = {} THEN 0 ELSE Number(SubSeq(msg, 1, Cardinality(digits)))
    BY DEF get_time_from_msg
  <1>. HIDE DEF msg, w, k
  <1>13. \A i \in 1 .. w : msg[i] \in 0 .. 9
    BY <1>2, <1>3
  <1>5. w + 1 \in marks /\ \A j \in marks : w + 1 <= j
    <2>1. msg[w + 1] = Underscore
      <3>. DEFINE i == w + 1
      <3>1. i \in w + 1 .. w + k /\ i - w = 1
        BY <1>1
      <3>. HIDE DEF i
      <3>2. msg[i] = t[i - w]
        BY <1>3, <3>1
      <3>. QED BY <3>1, <3>2 DEF i
    <2>2. w + 1 \in 1 .. Len(msg)
      BY <1>1, <1>3
    <2>3. ASSUME NEW j \in marks PROVE w + 1 <= j
      <3>1. j \in 1 .. Len(msg) /\ msg[j] = 10
        BY <2>3 DEF Underscore, marks
      <3>2. j \notin 1 .. w
        <4>. SUFFICES ASSUME j \in 1 .. w PROVE FALSE
          OBVIOUS
        <4>1. msg[j] \in 0 .. 9
          BY <1>13
        <4>. QED BY <3>1, <4>1
      <3>. QED BY <1>1, <1>3, <3>1, <3>2
    <2>. QED BY <2>1, <2>2, <2>3
  <1>6. marks \subseteq Int
    OBVIOUS
  <1>. HIDE DEF marks
  <1>7. pos \in marks /\ \A j \in marks : pos <= j
    BY <1>5
  <1>. HIDE DEF pos
  <1>8. pos = w + 1
    BY <1>1, <1>5, <1>6, <1>7
  <1>9. digits = 1 .. w
    <2>1. pos - 1 = w
      BY <1>1, <1>8
    <2>2. \A i \in 1 .. w : msg[i] < 10
      BY <1>13
    <2>3. \A i \in 1 .. w : \A j \in 1 .. i : j \in 1 .. w
      BY <1>1
    <2>. QED BY <2>1, <2>2, <2>3
  <1>10. Cardinality(digits) = w
    <2>. DEFINE one == 1
    <2>1. one \in Int /\ w \in Int
      BY <1>1
    <2>2. digits = one .. w
      BY <1>9
    <2>. HIDE DEF one, digits
    <2>3. Cardinality(one .. w) = IF one > w THEN 0 ELSE w - one + 1
      BY <2>1, FS_Interval
    <2>. QED BY <1>1, <2>2, <2>3 DEF one
  <1>11. SubSeq(msg, 1, w) = num
    <2>. DEFINE s == SubSeq(msg, 1, w)
    <2>1. \A i \in 1 .. w : msg[i] \in Nat
      BY <1>13
    <2>2. /\ s \in Seq(Nat) /\ Len(s) = IF 1 <= w THEN w - 1 + 1 ELSE 0
          /\ \A i \in 1 .. w - 1 + 1 : s[i] = msg[1 + i - 1]
      <3>1. 1 \in Int /\ w \in Int
        BY <1>1
      <3>. QED BY <2>1, <3>1, SubSeqProperties
    <2>. HIDE DEF s
    <2>3. Len(s) = w
      BY <1>1, <2>2
    <2>4. \A i \in 1 .. w : s[i] = num[i]
      <3>. SUFFICES ASSUME NEW i \in 1 .. w PROVE s[i] = num[i]
        OBVIOUS
      <3>1. i \in 1 .. w - 1 + 1 /\ 1 + i - 1 = i
        BY <1>1
      <3>. QED BY <1>3, <2>2, <3>1
    <2>5. Len(num) = w
      BY DEF w
    <2>6. s = num
      BY <2>2, <2>3, <2>4, <2>5, SeqEqual DEF Text
    <2>. QED BY <2>6 DEF s
  <1>12. get_time_from_msg(msg) = Number(num)
    BY <1>4, <1>5, <1>10, <1>11
  <1>. QED BY <1>12 DEF msg

\* Nothing is read of digits alone.
LEMMA NoTime ==
  ASSUME NEW num \in Seq(0 .. 9)
  PROVE  get_time_from_msg(num) = 0
  <1>1. \A i \in 1 .. Len(num) : num[i] \in 0 .. 9
    BY ElementOfSeq
  <1>2. {i \in 1 .. Len(num) : num[i] = Underscore} = {}
    BY <1>1 DEF Underscore
  <1>. QED BY <1>2 DEF get_time_from_msg
=============================================================================
