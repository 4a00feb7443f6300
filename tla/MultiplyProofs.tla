--------------------------- MODULE MultiplyProofs ---------------------------
(***************************************************************************)
(* For any curve, widths, scalars and points: what Multiply returns is the *)
(* product, and no digit leads outside its table.  First the recodings of  *)
(* a scalar, which keep it; then what a call computes with their digits.   *)
(* A point stands for its multiple of G, so every algorithm is one on      *)
(* integers: what the accumulator stands for, doubled for every position   *)
(* still to come, and the digits below add up to the sum the call is for.  *)
(***************************************************************************)
EXTENDS Multiply, PointProofs

---------------------------------------------------------------------------
(* Powers of two.                                                          *)

\* The powers the widths of the recodings lead to.
LEMMA Power == ASSUME NEW n \in 0 .. 2 * Bits + 1 PROVE 2^n \in Nat /\ 2^n >= 1
<1> DEFINE S == {i \in Nat : i \in 0 .. 2 * Bits + 1 => 2^i \in Nat /\ 2^i >= 1}
<1>1. Bits \in Nat
  BY BitsAssumption
<1>2. 0 \in S
  BY PowersAssumption
<1>3. ASSUME NEW i \in Nat, i \in S PROVE i + 1 \in S
  <2>1. SUFFICES ASSUME i + 1 \in 0 .. 2 * Bits + 1
                 PROVE  2^(i + 1) \in Nat /\ 2^(i + 1) >= 1
    BY <1>3
  <2>2. i \in 0 .. 2 * Bits
    BY <1>1, <2>1
  <2>3. 2^(i + 1) = 2 * 2^i /\ 2^i \in Nat /\ 2^i >= 1
    BY <1>1, <1>3, <2>2, PowersAssumption
  <2>4. QED
    BY <2>3
<1> HIDE DEF S
<1>4. \A i \in Nat : i \in S
  BY <1>2, <1>3, Induction
<1>5. QED
  BY <1>1, <1>4 DEF S

LEMMA PowerSum ==
    ASSUME NEW m \in Nat, NEW n \in Nat, m + n <= 2 * Bits + 1
    PROVE  2^(m + n) = 2^m * 2^n
<1> DEFINE S == {i \in Nat : m + i <= 2 * Bits + 1 => 2^(m + i) = 2^m * 2^i}
<1>1. Bits \in Nat
  BY BitsAssumption
<1>2. 0 \in S
  <2>1. ASSUME m + 0 <= 2 * Bits + 1 PROVE 2^(m + 0) = 2^m * 2^0
    <3>1. m + 0 = m /\ 2^m \in Nat /\ 2^0 = 1
      BY <1>1, <2>1, Power, PowersAssumption
    <3>2. QED
      BY <3>1
  <2>2. QED
    BY <2>1
<1>3. ASSUME NEW i \in Nat, i \in S PROVE i + 1 \in S
  <2>1. SUFFICES ASSUME m + (i + 1) <= 2 * Bits + 1
                 PROVE  2^(m + (i + 1)) = 2^m * 2^(i + 1)
    BY <1>3
  <2>2. i \in 0 .. 2 * Bits /\ m + i \in 0 .. 2 * Bits /\ m \in 0 .. 2 * Bits + 1
        /\ i \in 0 .. 2 * Bits + 1 /\ m + (i + 1) = (m + i) + 1
    BY <1>1, <2>1
  <2>3. 2^((m + i) + 1) = 2 * 2^(m + i) /\ 2^(i + 1) = 2 * 2^i
    BY <2>2, PowersAssumption
  <2>4. 2^(m + i) = 2^m * 2^i
    BY <1>1, <1>3, <2>2
  <2>5. PICK a \in Nat, b \in Nat : a = 2^m /\ b = 2^i
    BY <2>2, Power
  <2>6. 2 * (a * b) = a * (2 * b)
    BY SMT
  <2>7. QED
    BY <2>2, <2>3, <2>4, <2>5, <2>6
<1> HIDE DEF S
<1>4. \A i \in Nat : i \in S
  BY <1>2, <1>3, Induction
<1>5. QED
  BY <1>4 DEF S

---------------------------------------------------------------------------
(* Doublings.                                                              *)

\* k doublings multiply by 2^k.
LEMMA RepDoubleTimes ==
    ASSUME NEW Z \in Field, NEW a, NEW x \in Int, Rep(Z, a, x),
           NEW k \in Nat, k <= 2 * Bits + 1
    PROVE  2^k * x \in Int /\ Rep(Z, DoubleTimes(a, k), 2^k * x)
<1> DEFINE A == {g \in Gejs : \E y \in Int : Rep(Z, g, y)}
           f == [i \in Nat |-> [g \in A |-> GejDouble(g)]]
<1>1. a \in A
  BY DEF Rep
<1>2. ASSUME NEW g \in A PROVE GejDouble(g) \in A
  <2>1. PICK y \in Int : Rep(Z, g, y)
    OBVIOUS
  <2>2. Rep(Z, GejDouble(g), 2 * y) /\ 2 * y \in Int
    BY <2>1, RepDouble
  <2>3. GejDouble(g) \in Gejs
    BY <2>2 DEF Rep
  <2>4. QED
    BY <2>2, <2>3
<1>3. f \in [Nat -> [A -> A]]
  BY <1>2
<1> HIDE DEF A
<1>4. PICK g : Iterates(g, k, A, a, f)
  <2> HIDE DEF f
  <2>1. QED
    BY <1>1, <1>3, Recursion
<1>5. g \in [0 .. k -> A] /\ g[0] = a /\ \A i \in 0 .. k - 1 : g[i + 1] = f[i][g[i]]
  BY <1>4 DEF Iterates
<1>6. g = [i \in 0 .. k |-> IF i = 0 THEN a ELSE GejDouble(g[i - 1])]
  <2>1. ASSUME NEW i \in 0 .. k, i # 0 PROVE g[i] = GejDouble(g[i - 1])
    <3>1. i - 1 \in 0 .. k - 1 /\ i - 1 \in Nat /\ (i - 1) + 1 = i
      BY <2>1
    <3>2. g[i - 1] \in A
      BY <1>5, <3>1
    <3>3. g[(i - 1) + 1] = f[i - 1][g[i - 1]]
      BY <1>5, <3>1
    <3>4. QED
      BY <3>1, <3>2, <3>3
  <2>2. QED
    BY <1>5, <2>1
<1> DEFINE D == CHOOSE d : d = [i \in 0 .. k |-> IF i = 0 THEN a ELSE GejDouble(d[i - 1])]
<1>7. D = [i \in 0 .. k |-> IF i = 0 THEN a ELSE GejDouble(D[i - 1])]
  BY <1>6
<1>8. DoubleTimes(a, k) = D[k]
  BY DEF DoubleTimes
<1> HIDE DEF D
<1> DEFINE S == {i \in Nat : i <= k => 2^i * x \in Int /\ Rep(Z, D[i], 2^i * x)}
<1>9. Bits \in Nat
  BY BitsAssumption
<1>10. 0 \in S
  <2>1. 2^0 * x = x /\ D[0] = a
    BY <1>7, PowersAssumption
  <2>2. QED
    BY <2>1
<1>11. ASSUME NEW i \in Nat, i \in S PROVE i + 1 \in S
  <2>1. SUFFICES ASSUME i + 1 <= k
                 PROVE  2^(i + 1) * x \in Int /\ Rep(Z, D[i + 1], 2^(i + 1) * x)
    BY <1>11
  <2>2. i \in 0 .. 2 * Bits /\ i \in 0 .. 2 * Bits + 1 /\ i + 1 \in 0 .. k /\ i <= k
    BY <1>9, <2>1
  <2>3. D[i + 1] = GejDouble(D[i])
    <3>1. D[i + 1] = IF i + 1 = 0 THEN a ELSE GejDouble(D[(i + 1) - 1])
      BY <1>7, <2>2
    <3>2. (i + 1) - 1 = i /\ i + 1 # 0
      OBVIOUS
    <3>3. QED
      BY <3>1, <3>2
  <2>4. PICK m \in Nat : m = 2^i /\ 2^(i + 1) = 2 * m
    BY <2>2, Power, PowersAssumption
  <2>5. m * x \in Int /\ Rep(Z, D[i], m * x)
    BY <1>11, <2>2, <2>4
  <2>6. Rep(Z, GejDouble(D[i]), 2 * (m * x))
    BY <2>5, RepDouble
  <2>7. 2 * (m * x) = (2 * m) * x /\ (2 * m) * x \in Int
    BY SMT
  <2>8. QED
    BY <2>3, <2>4, <2>6, <2>7
<1> HIDE DEF S
<1>12. \A i \in Nat : i \in S
  BY <1>10, <1>11, Induction
<1>13. QED
  BY <1>8, <1>12 DEF S

---------------------------------------------------------------------------
(* ecmult_wnaf: which bits a digit takes, and that the loop ends.          *)

LEMMA Two == 2^1 = 2 /\ Bits \in Nat /\ Bits > 1
<1>1. Bits \in Nat /\ N < 2^Bits
  BY BitsAssumption
<1>2. 2^(0 + 1) = 2 * 2^0 /\ 2^0 = 1
  BY <1>1, PowersAssumption, 0 \in 0 .. 2 * Bits
<1>3. 2^1 = 2
  BY <1>2, 0 + 1 = 1
<1>4. Bits # 0 /\ Bits # 1
  <2>1. N < 2^Bits /\ N > 3
    BY <1>1, Order
  <2>2. Bits = 0 => 2^Bits = 1
    BY <1>2
  <2>3. Bits = 1 => 2^Bits = 2
    BY <1>3
  <2>4. QED
    BY <2>1, <2>2, <2>3, Order
<1>5. QED
  BY <1>1, <1>3, <1>4

\* A power of two is even but for the first.
LEMMA PowerEven ==
    ASSUME NEW n \in 1 .. 2 * Bits + 1
    PROVE  2^n = 2 * 2^(n - 1) /\ 2^(n - 1) \in Nat /\ 2^(n - 1) >= 1 /\ 2^n \in Nat
<1>1. n - 1 \in 0 .. 2 * Bits /\ (n - 1) + 1 = n /\ n - 1 \in 0 .. 2 * Bits + 1
  BY Two
<1>2. 2^((n - 1) + 1) = 2 * 2^(n - 1)
  BY <1>1, PowersAssumption
<1>3. QED
  BY <1>1, <1>2, Power

LEMMA PowerMonotone ==
    ASSUME NEW m \in Nat, NEW n \in Nat, m <= n, n <= 2 * Bits + 1
    PROVE  2^m <= 2^n /\ 2^m \in Nat /\ 2^n \in Nat
<1>1. n - m \in Nat /\ n = m + (n - m) /\ n - m \in 0 .. 2 * Bits + 1
      /\ m \in 0 .. 2 * Bits + 1 /\ n \in 0 .. 2 * Bits + 1
  BY Two
<1>2. PICK a \in Nat, b \in Nat : a = 2^m /\ b = 2^(n - m) /\ b >= 1
  BY <1>1, Power
<1>3. 2^n = a * b
  BY <1>1, <1>2, PowerSum
<1>4. a * b >= a
  BY <1>2, SMT
<1>5. QED
  BY <1>1, <1>2, <1>3, <1>4, Power

\* scalar_get_bits at the lower and at the higher end of a window.
LEMMA GetBitsSplit ==
    ASSUME NEW s \in Nat, NEW bit \in Nat, NEW now \in Nat, bit + now <= 2 * Bits + 1
    PROVE  /\ s \div 2^bit \in Nat /\ s \div 2^(bit + now) \in Nat
           /\ GetBits(s, bit, now) \in 0 .. 2^now - 1
           /\ s \div 2^bit = 2^now * (s \div 2^(bit + now)) + GetBits(s, bit, now)
<1>1. bit \in 0 .. 2 * Bits + 1 /\ now \in 0 .. 2 * Bits + 1
  BY Two
<1>2. PICK m \in Nat, n \in Nat : m = 2^bit /\ n = 2^now /\ m >= 1 /\ n >= 1
  BY <1>1, Power
<1>3. 2^(bit + now) = m * n
  BY <1>2, PowerSum
<1>4. PICK q \in Nat : q = s \div m
  BY <1>2, Division
<1>5. PICK h \in Nat, g \in 0 .. n - 1 : h = q \div n /\ g = q % n /\ q = h * n + g
  BY <1>2, Division
<1>6. h = s \div 2^(bit + now)
  <2>1. m > 0 /\ n > 0
    BY <1>2
  <2>2. (s \div m) \div n = s \div (m * n)
    BY <2>1, DivisionTwice
  <2>3. QED
    BY <1>2, <1>3, <1>4, <1>5, <2>2, Zenon
<1>7. g = GetBits(s, bit, now)
  BY <1>2, <1>4, <1>5 DEF GetBits
<1>8. h * n = n * h
  BY SMT
<1>9. QED
  BY <1>2, <1>4, <1>5, <1>6, <1>7, <1>8

\* A single bit.
LEMMA OneBit ==
    ASSUME NEW s \in Nat, NEW bit \in Nat, bit <= 2 * Bits
    PROVE  GetBits(s, bit, 1) = (s \div 2^bit) % 2 /\ GetBits(s, bit, 1) \in {0, 1}
<1>1. GetBits(s, bit, 1) \in 0 .. 2 - 1
  <2>1. bit + 1 <= 2 * Bits + 1 /\ 1 \in Nat
    BY Two
  <2>2. GetBits(s, bit, 1) \in 0 .. 2^1 - 1
    BY <2>1, GetBitsSplit
  <2>3. QED
    BY <2>2, Two
<1>2. QED
  BY <1>1, Two DEF GetBits

\* A quotient of something small.
LEMMA SmallQuotient ==
    ASSUME NEW s \in Nat, NEW m \in Nat, NEW n \in Nat, m + n <= 2 * Bits + 1, s < 2^(m + n)
    PROVE  s \div 2^m < 2^n
<1>1. m \in 0 .. 2 * Bits + 1 /\ n \in 0 .. 2 * Bits + 1
  BY Two
<1>2. PICK a \in Nat, b \in Nat : a = 2^m /\ b = 2^n /\ a >= 1
  BY <1>1, Power
<1>3. 2^(m + n) = b * a
  <2>1. a * b = b * a
    BY SMT
  <2>2. QED
    BY <1>2, <2>1, PowerSum
<1>4. QED
  BY <1>2, <1>3, DivisionBelow

\* The digits from a bit on, for both carries.
WnafRule(f, s, w, bit) == [carry \in {0, 1} |->
    IF bit = Bits THEN << >>
    ELSE IF GetBits(s, bit, 1) = carry
    THEN << 0 >> \o f[bit + 1][carry]
    ELSE LET now  == IF w > Bits - bit THEN Bits - bit ELSE w
             word == GetBits(s, bit, now) + carry
             c    == GetBits(word, w - 1, 1)
         IN  <<word - c * 2^w>> \o [i \in 1 .. now - 1 |-> 0] \o f[bit + now][c]]

\* How far the digit at a bit reaches.
LEMMA WnafReach ==
    ASSUME NEW s \in Nat, NEW w \in 1 .. Bits, NEW bit \in 0 .. Bits - 1, NEW carry \in {0, 1}
    PROVE  LET now  == IF w > Bits - bit THEN Bits - bit ELSE w
               word == GetBits(s, bit, now) + carry
               c    == GetBits(word, w - 1, 1)
           IN  now \in 1 .. Bits - bit /\ word \in Nat /\ c \in {0, 1}
<1> DEFINE now == IF w > Bits - bit THEN Bits - bit ELSE w
           word == GetBits(s, bit, now) + carry
           c == GetBits(word, w - 1, 1)
<1>1. now \in 1 .. Bits - bit
  BY Two
<1> HIDE DEF now
<1>2. bit \in Nat /\ now \in Nat /\ bit + now <= 2 * Bits + 1 /\ w - 1 \in Nat /\ w - 1 <= 2 * Bits
      /\ now \in 0 .. 2 * Bits + 1
  BY <1>1, Two
<1>3. GetBits(s, bit, now) \in 0 .. 2^now - 1 /\ 2^now \in Nat
  BY <1>2, GetBitsSplit, Power
<1>4. word \in Nat
  BY <1>3
<1> HIDE DEF word
<1>5. c \in {0, 1}
  BY <1>2, <1>4, OneBit
<1> HIDE DEF c
<1>6. QED
  BY <1>1, <1>4, <1>5 DEF now, word, c

\* The recursion of ecmult_wnaf is one on the bit, which grows.
LEMMA WnafExists ==
    ASSUME NEW s \in Nat, NEW w \in 1 .. Bits, NEW n \in Nat, n <= Bits
    PROVE  \E f : f = [bit \in Bits - n .. Bits |-> WnafRule(f, s, w, bit)]
<1> DEFINE S == {i \in Nat : i <= Bits =>
                    \E f : f = [bit \in Bits - i .. Bits |-> WnafRule(f, s, w, bit)]}
<1>1. 0 \in S
  <2> DEFINE f == [bit \in Bits - 0 .. Bits |-> [carry \in {0, 1} |-> << >>]]
  <2>1. \A bit \in Bits - 0 .. Bits : [carry \in {0, 1} |-> << >>] = WnafRule(f, s, w, bit)
    BY Two DEF WnafRule
  <2>2. f = [bit \in Bits - 0 .. Bits |-> WnafRule(f, s, w, bit)]
    BY <2>1
  <2>3. QED
    BY <2>2
<1>2. ASSUME NEW i \in Nat, i \in S PROVE i + 1 \in S
  <2>1. SUFFICES ASSUME i + 1 <= Bits
                 PROVE  \E f : f = [bit \in Bits - (i + 1) .. Bits |-> WnafRule(f, s, w, bit)]
    BY <1>2
  <2>9. i <= Bits
    BY <2>1, Two
  <2>2. PICK f : f = [bit \in Bits - i .. Bits |-> WnafRule(f, s, w, bit)]
    BY <1>2, <2>9
  <2> DEFINE g == [bit \in Bits - (i + 1) .. Bits |->
                      IF bit = Bits - (i + 1) THEN WnafRule(f, s, w, bit) ELSE f[bit]]
  <2>3. ASSUME NEW b \in Bits - i .. Bits PROVE g[b] = f[b]
    <3>1. b \in Bits - (i + 1) .. Bits /\ b # Bits - (i + 1)
      BY Two
    <3>2. QED
      BY <3>1
  <2>4. ASSUME NEW bit \in Bits - (i + 1) .. Bits
        PROVE  WnafRule(g, s, w, bit) = WnafRule(f, s, w, bit)
    <3>1. CASE bit = Bits
      BY <3>1 DEF WnafRule
    <3>2. CASE bit # Bits
      <4>1. bit + 1 \in Bits - i .. Bits /\ bit \in 0 .. Bits - 1
        BY <2>1, <3>2, Two
      <4>2. ASSUME NEW carry \in {0, 1}
            PROVE  WnafRule(g, s, w, bit)[carry] = WnafRule(f, s, w, bit)[carry]
        <5> DEFINE now == IF w > Bits - bit THEN Bits - bit ELSE w
                   word == GetBits(s, bit, now) + carry
                   c == GetBits(word, w - 1, 1)
        <5>1. now \in 1 .. Bits - bit /\ word \in Nat /\ c \in {0, 1}
          BY <4>1, WnafReach
        <5>2. /\ WnafRule(g, s, w, bit)[carry] =
                     IF GetBits(s, bit, 1) = carry THEN << 0 >> \o g[bit + 1][carry]
                     ELSE <<word - c * 2^w>> \o [j \in 1 .. now - 1 |-> 0] \o g[bit + now][c]
              /\ WnafRule(f, s, w, bit)[carry] =
                     IF GetBits(s, bit, 1) = carry THEN << 0 >> \o f[bit + 1][carry]
                     ELSE <<word - c * 2^w>> \o [j \in 1 .. now - 1 |-> 0] \o f[bit + now][c]
          BY <3>2 DEF WnafRule
        <5> HIDE DEF now, word, c, g
        <5>3. bit + now \in Bits - i .. Bits
          BY <4>1, <5>1, Two
        <5>4. g[bit + 1] = f[bit + 1] /\ g[bit + now] = f[bit + now]
          BY <2>3, <4>1, <5>3
        <5>5. QED
          BY <5>2, <5>4, Zenon
      <4>3. /\ WnafRule(g, s, w, bit) = [carry \in {0, 1} |-> WnafRule(g, s, w, bit)[carry]]
            /\ WnafRule(f, s, w, bit) = [carry \in {0, 1} |-> WnafRule(f, s, w, bit)[carry]]
        <5> HIDE DEF g
        <5>1. QED
          BY DEF WnafRule
      <4> HIDE DEF g
      <4>4. QED
        BY <4>2, <4>3
    <3>3. QED
      BY <3>1, <3>2
  <2>5. ASSUME NEW bit \in Bits - (i + 1) .. Bits PROVE g[bit] = WnafRule(f, s, w, bit)
    <3>1. CASE bit = Bits - (i + 1)
      BY <3>1
    <3>2. CASE bit # Bits - (i + 1)
      <4>1. bit \in Bits - i .. Bits
        BY <3>2, Two
      <4>2. g[bit] = f[bit]
        BY <2>3, <4>1
      <4> HIDE DEF g
      <4>3. f[bit] = WnafRule(f, s, w, bit)
        BY <2>2, <4>1
      <4>4. QED
        BY <4>2, <4>3
    <3>3. QED
      BY <3>1, <3>2
  <2>6. g = [bit \in Bits - (i + 1) .. Bits |-> g[bit]]
    OBVIOUS
  <2> HIDE DEF g
  <2>7. g = [bit \in Bits - (i + 1) .. Bits |-> WnafRule(g, s, w, bit)]
    BY <2>4, <2>5, <2>6
  <2>8. QED
    BY <2>7
<1>3. \A i \in Nat : i \in S
  <2> HIDE DEF S
  <2>1. QED
    BY <1>1, <1>2, Induction
<1>4. QED
  BY <1>3

\* The word of an odd digit and the carry it leaves.
LEMMA WnafWord ==
    ASSUME NEW s \in Nat, s < 2^(Bits - 1), NEW w \in 2 .. Bits,
           NEW bit \in 0 .. Bits - 1, NEW carry \in {0, 1}, GetBits(s, bit, 1) # carry
    PROVE  LET now  == IF w > Bits - bit THEN Bits - bit ELSE w
               word == GetBits(s, bit, now) + carry
               c    == GetBits(word, w - 1, 1)
               d    == word - c * 2^w
           IN  /\ d \in Int /\ d % 2 = 1 /\ d < 2^(w - 1) /\ -d < 2^(w - 1)
               /\ (s \div 2^bit) + carry = d + 2^now * ((s \div 2^(bit + now)) + c)
               /\ bit + now = Bits => c = 0
<1> DEFINE now == IF w > Bits - bit THEN Bits - bit ELSE w
           word == GetBits(s, bit, now) + carry
           c == GetBits(word, w - 1, 1)
<1>0. now \in 1 .. Bits - bit /\ now <= w /\ (now = w \/ bit + now = Bits)
  BY Two
<1>1. word \in Nat /\ c \in {0, 1} /\ bit \in Nat
  BY WnafReach
<1> HIDE DEF now
<1>2. /\ now \in Nat /\ bit + now <= 2 * Bits + 1 /\ bit <= 2 * Bits
      /\ w \in 1 .. 2 * Bits + 1 /\ w - 1 \in 1 .. 2 * Bits + 1 /\ now \in 1 .. 2 * Bits + 1
      /\ w - 1 \in Nat /\ w - 1 <= 2 * Bits
  BY <1>0, Two
<1>3. PICK q \in Nat, h \in Nat, g \in Nat :
          /\ q = s \div 2^bit /\ h = s \div 2^(bit + now) /\ g = GetBits(s, bit, now)
          /\ g < 2^now /\ q = 2^now * h + g
  <2>1. /\ s \div 2^bit \in Nat /\ s \div 2^(bit + now) \in Nat
        /\ GetBits(s, bit, now) \in 0 .. 2^now - 1
        /\ s \div 2^bit = 2^now * (s \div 2^(bit + now)) + GetBits(s, bit, now)
    BY <1>1, <1>2, GetBitsSplit
  <2>2. 2^now \in Nat
    BY <1>2, PowerEven
  <2>3. QED
    BY <2>1, <2>2
<1>4. PICK half \in Nat, u \in Nat : half = 2^(now - 1) /\ 2^now = 2 * half
                                     /\ u = 2^(w - 1) /\ 2^w = 2 * u /\ u >= 1
  BY <1>2, PowerEven
<1>5. PICK v \in Nat : u = 2 * v /\ v >= 1
  BY <1>2, <1>4, PowerEven
<1>6. word = g + carry
  BY <1>3
<1>7. q % 2 # carry /\ q % 2 \in {0, 1}
  <2>1. GetBits(s, bit, 1) = q % 2 /\ GetBits(s, bit, 1) \in {0, 1}
    BY <1>1, <1>2, <1>3, OneBit
  <2>2. QED
    BY <2>1
<1>8. word % 2 = 1
  <2>1. q = 2 * (half * h) + g
    <3>1. (2 * half) * h = 2 * (half * h)
      BY SMT
    <3>2. QED
      BY <1>3, <1>4, <3>1
  <2>2. PICK k \in Int : k = half * h
    BY SMT
  <2>3. q % 2 = g % 2
    BY <2>1, <2>2, SMT
  <2>4. QED
    BY <1>6, <1>7, <2>3, SMT
<1> HIDE DEF word
<1>9. word < 2^now /\ word >= 1
  BY <1>3, <1>4, <1>6, <1>8, SMT
<1>10. 2^now <= 2^w
  BY <1>0, <1>2, PowerMonotone, Two
<1>11. word < 2 * u
  BY <1>1, <1>4, <1>9, <1>10
<1>12. c = (word \div u) % 2
  BY <1>1, <1>2, <1>4, OneBit
<1> HIDE DEF c
<1>13. IF word < u THEN c = 0 ELSE c = 1
  <2>1. CASE word < u
    <3>1. word \div u = 0
      BY <1>1, <1>4, <2>1, DivUnique, 0 \in Int, 0 * u + word = word
    <3>2. QED
      BY <1>12, <2>1, <3>1, 0 % 2 = 0
  <2>2. CASE word >= u
    <3>1. word - u \in 0 .. u - 1 /\ 1 * u + (word - u) = word
      BY <1>1, <1>4, <1>11, <2>2
    <3>2. word \div u = 1
      BY <1>4, <3>1, DivUnique, 1 \in Int
    <3>3. c = 1 % 2
      BY <1>12, <3>2
    <3>4. QED
      BY <1>1, <1>4, <2>2, <3>3
  <2>3. QED
    BY <1>1, <2>1, <2>2
<1>14. PICK d \in Int : d = word - c * 2^w /\ d = word - c * (2 * u)
  BY <1>1, <1>4, <1>13
<1>15. d % 2 = 1 /\ d < u /\ -d < u
  <2>1. CASE word < u
    BY <1>1, <1>8, <1>9, <1>13, <1>14, <2>1
  <2>2. CASE word >= u
    <3>1. d = word - 2 * u
      <4>1. c = 1
        BY <1>1, <1>13, <2>2
      <4>2. QED
        BY <1>1, <1>14, <4>1
    <3>2. d % 2 = 1
      BY <1>1, <1>8, <3>1, SMT
    <3>3. word # u
      BY <1>5, <1>8, SMT
    <3>4. QED
      BY <1>1, <1>4, <1>11, <2>2, <3>1, <3>2, <3>3
  <2>3. QED
    BY <1>1, <2>1, <2>2
<1>16. bit + now = Bits => c = 0
  <2> SUFFICES ASSUME bit + now = Bits PROVE word < u
    BY <1>13
  <2>1. CASE now = w
    <3>1. bit + (w - 1) = Bits - 1 /\ bit + (w - 1) <= 2 * Bits + 1
      BY <2>1, Two
    <3>2. s < 2^(bit + (w - 1))
      BY <3>1
    <3>3. q < u
      BY <1>1, <1>2, <1>3, <1>4, <3>1, <3>2, SmallQuotient
    <3>4. g <= q
      <4>1. (2 * half) * h >= 0
        BY SMT
      <4>2. QED
        BY <1>3, <1>4, <4>1
    <3>5. QED
      BY <1>5, <1>6, <1>8, <3>3, <3>4, SMT
  <2>2. CASE now < w
    <3>1. now <= w - 1 /\ w - 1 <= 2 * Bits + 1
      BY <1>2, <2>2
    <3>2. 2^now <= u
      BY <1>2, <1>4, <3>1, PowerMonotone
    <3>3. QED
      BY <1>1, <1>3, <1>4, <1>9, <3>2
  <2>3. QED
    BY <1>0, <2>1, <2>2
<1>17. q + carry = d + 2^now * (h + c)
  <2>1. PICK n \in Nat : n = 2^now
    BY <1>4
  <2>2. q = n * h + g
    BY <1>3, <2>1
  <2>3. n * (h + c) = n * h + n * c
    BY <1>1, SMT
  <2>4. n * c = c * 2^w
    <3>1. CASE c = 0
      BY <1>4, <2>1, <3>1
    <3>2. CASE c = 1
      <4>1. now = w
        BY <1>0, <1>16, <3>2
      <4>2. QED
        BY <1>4, <2>1, <3>2, <4>1
    <3>3. QED
      BY <1>1, <3>1, <3>2
  <2>5. n * h \in Int /\ n * c \in Int
    BY <1>1, SMT
  <2>6. QED
    BY <1>1, <1>6, <1>14, <2>1, <2>2, <2>3, <2>4, <2>5
<1>18. /\ d \in Int /\ d % 2 = 1 /\ d < 2^(w - 1) /\ -d < 2^(w - 1)
       /\ (s \div 2^bit) + carry = d + 2^now * ((s \div 2^(bit + now)) + c)
       /\ bit + now = Bits => c = 0
  BY <1>3, <1>4, <1>15, <1>16, <1>17
<1>19. QED
  BY <1>14, <1>18 DEF now, word, c

---------------------------------------------------------------------------
(* The number digits stand for, one bit to a digit.                        *)

\* The number digits of one bit stand for, the lowest first.
Weighed(q) == [i \in Nat |-> IF i < Len(q) THEN q[i + 1] * 2^i ELSE 0]

BitsValue(q) == SumTo(Weighed(q), Len(q))

LEMMA WeighedInt ==
    ASSUME NEW q \in Seq(Int), Len(q) <= Bits
    PROVE  Weighed(q) \in [Nat -> Int] /\ Len(q) \in Nat /\ BitsValue(q) \in Int
<1>1. Len(q) \in Nat /\ Bits \in Nat
  BY Two
<1>2. ASSUME NEW i \in Nat PROVE (IF i < Len(q) THEN q[i + 1] * 2^i ELSE 0) \in Int
  <2>1. CASE i < Len(q)
    <3>1. i + 1 \in 1 .. Len(q) /\ i \in 0 .. 2 * Bits + 1
      BY <1>1, <2>1
    <3>2. q[i + 1] \in Int /\ 2^i \in Int
      BY <3>1, Power
    <3>3. q[i + 1] * 2^i \in Int
      BY <3>2, SMT
    <3>4. QED
      BY <2>1, <3>3
  <2>2. QED
    BY <1>1, <2>1
<1>3. Weighed(q) \in [Nat -> Int]
  BY <1>2 DEF Weighed
<1>4. QED
  BY <1>1, <1>3, SumInt DEF BitsValue

LEMMA ValuePrepend ==
    ASSUME NEW q \in Seq(Int), NEW t \in Seq(Int), NEW now \in Nat, now >= 1,
           Len(t) = now + Len(q), Len(t) <= Bits, NEW d \in Int, t[1] = d,
           \A i \in 2 .. now : t[i] = 0,
           \A j \in 1 .. Len(q) : t[now + j] = q[j]
    PROVE  BitsValue(t) = d + 2^now * BitsValue(q)
<1>1. Len(q) \in Nat /\ Len(q) <= Bits /\ Bits \in Nat /\ Len(t) \in Nat
  BY Two
<1>2. Weighed(q) \in [Nat -> Int] /\ Weighed(t) \in [Nat -> Int]
  BY <1>1, WeighedInt
<1> DEFINE h == [i \in Nat |-> Weighed(t)[now + i]]
           z == [i \in Nat |-> Weighed(t)[1 + i]]
<1>3. h \in [Nat -> Int] /\ z \in [Nat -> Int]
  BY <1>2
<1>4. SumTo(Weighed(t), now + Len(q)) = SumTo(Weighed(t), now) + SumTo(h, Len(q))
  BY <1>1, <1>2, SumSplit
<1>5. PICK m \in Nat : m = 2^now
  <2>1. now \in 0 .. 2 * Bits + 1
    BY <1>1
  <2>2. QED
    BY <2>1, Power
<1>6. SumTo(h, Len(q)) = m * SumTo(Weighed(q), Len(q))
  <2>1. ASSUME NEW i \in 0 .. Len(q) - 1 PROVE h[i] = m * Weighed(q)[i]
    <3>1. i \in Nat /\ now + i < Len(t) /\ i < Len(q) /\ i + 1 \in 1 .. Len(q)
          /\ now + (i + 1) = (now + i) + 1 /\ now + i \in Nat
          /\ now + i <= 2 * Bits + 1 /\ i \in 0 .. 2 * Bits + 1
      BY <1>1
    <3>2. h[i] = t[(now + i) + 1] * 2^(now + i)
      BY <3>1 DEF Weighed
    <3>3. Weighed(q)[i] = q[i + 1] * 2^i
      BY <3>1 DEF Weighed
    <3>4. PICK k \in Nat : k = 2^i /\ 2^(now + i) = m * k
      BY <1>5, <3>1, Power, PowerSum
    <3>5. PICK c \in Int : c = q[i + 1] /\ c = t[(now + i) + 1]
      <4>1. q[i + 1] \in Int
        BY <3>1
      <4>2. t[now + (i + 1)] = q[i + 1]
        BY <3>1
      <4>3. QED
        BY <3>1, <4>1, <4>2
    <3>6. c * (m * k) = m * (c * k) /\ m * (c * k) \in Int
      BY SMT
    <3> HIDE DEF h
    <3>7. h[i] = c * (m * k) /\ Weighed(q)[i] = c * k /\ m * Weighed(q)[i] = m * (c * k)
      BY <3>2, <3>3, <3>4, <3>5
    <3>8. QED
      BY <3>6, <3>7, <3>7
  <2> HIDE DEF h, z
  <2>2. \A i \in 0 .. Len(q) - 1 : h[i] = m * Weighed(q)[i]
    BY <2>1
  <2>3. m \in Int
    OBVIOUS
  <2>4. QED
    BY <1>1, <1>2, <1>3, <2>2, <2>3, SumScale
<1>7. SumTo(Weighed(t), now) = d
  <2>1. SumTo(Weighed(t), 1 + (now - 1)) = SumTo(Weighed(t), 1) + SumTo(z, now - 1)
    <3>1. 1 \in Nat /\ now - 1 \in Nat
      OBVIOUS
    <3>2. QED
      BY <1>2, <3>1, SumSplit
  <2>2. \A i \in 0 .. (now - 1) - 1 : z[i] = 0
    <3> SUFFICES ASSUME NEW i \in 0 .. (now - 1) - 1 PROVE z[i] = 0
      OBVIOUS
    <3>1. i \in Nat /\ 1 + i < Len(t) /\ 1 + i \in Nat /\ (1 + i) + 1 \in 2 .. now
      BY <1>1
    <3>2. z[i] = t[(1 + i) + 1] * 2^(1 + i)
      BY <3>1 DEF Weighed
    <3>3. 2^(1 + i) \in Nat
      BY <1>1, <3>1, Power
    <3> HIDE DEF z
    <3>4. QED
      BY <3>1, <3>2, <3>3
  <2> HIDE DEF z
  <2>3. SumTo(z, now - 1) = 0
    BY <1>3, <2>2, SumOfZeros, now - 1 \in Nat
  <2>4. SumTo(Weighed(t), 0 + 1) = SumTo(Weighed(t), 0) + Weighed(t)[0]
    BY <1>2, SumStep
  <2>5. SumTo(Weighed(t), 0) = 0
    BY <1>2, SumZero
  <2>6. Weighed(t)[0] = t[0 + 1] * 2^0
    BY <1>1 DEF Weighed
  <2>7. SumTo(Weighed(t), 1) = d
    BY <2>4, <2>5, <2>6, PowersAssumption
  <2>8. 1 + (now - 1) = now
    OBVIOUS
  <2>9. QED
    BY <2>1, <2>3, <2>7, <2>8
<1>8. BitsValue(q) \in Int
  BY <1>1, WeighedInt
<1> HIDE DEF h, z
<1>9. QED
  BY <1>1, <1>4, <1>5, <1>6, <1>7, <1>8 DEF BitsValue

Fit(d, w) == d \in Int /\ (d = 0 \/ (d % 2 = 1 /\ d < 2^(w - 1) /\ -d < 2^(w - 1)))

\* What the digits from a bit on say.
WnafRight(q, s, w, bit, carry) ==
    /\ q \in Seq(Int) /\ Len(q) = Bits - bit
    /\ \A i \in 1 .. Len(q) : Fit(q[i], w)
    /\ bit < Bits \/ carry = 0 => BitsValue(q) = (s \div 2^bit) + carry

LEMMA Concat ==
    ASSUME NEW d \in Int, NEW now \in Nat, now >= 1, NEW q \in Seq(Int), NEW z,
           z = <<d>> \o [i \in 1 .. now - 1 |-> 0] \o q
    PROVE  /\ z \in Seq(Int) /\ Len(z) = now + Len(q) /\ z[1] = d
           /\ \A i \in 2 .. now : z[i] = 0
           /\ \A j \in 1 .. Len(q) : z[now + j] = q[j]
<1> DEFINE o == [i \in 1 .. now - 1 |-> 0]
<1>1. o \in Seq(Int) /\ Len(o) = now - 1 /\ \A i \in 1 .. now - 1 : o[i] = 0
  BY now - 1 \in Nat
<1> HIDE DEF o
<1>2. <<d>> \in Seq(Int) /\ Len(<<d>>) = 1 /\ <<d>>[1] = d
  OBVIOUS
<1> DEFINE y == <<d>> \o o
<1>3. /\ y \in Seq(Int) /\ Len(y) = now /\ y[1] = d
      /\ \A i \in 2 .. now : y[i] = 0
  BY <1>1, <1>2
<1> HIDE DEF y
<1>4. z = y \o q
  BY DEF y, o
<1>5. QED
  BY <1>3, <1>4

LEMMA ConcatOne ==
    ASSUME NEW q \in Seq(Int), NEW z, z = << 0 >> \o q
    PROVE  /\ z \in Seq(Int) /\ Len(z) = 1 + Len(q) /\ z[1] = 0
           /\ \A j \in 1 .. Len(q) : z[1 + j] = q[j]
OBVIOUS

LEMMA NothingAbove ==
    ASSUME NEW s \in Nat, NEW n \in 0 .. 2 * Bits + 1, s < 2^n
    PROVE  s \div 2^n = 0
<1>1. PICK m \in Nat : m = 2^n /\ m >= 1
  BY Power
<1>2. s = 0 * m + s /\ s \in 0 .. m - 1
  BY <1>1
<1>3. s \div m = 0
  BY <1>1, <1>2, DivUnique
<1>4. QED
  BY <1>1, <1>3

LEMMA WnafRightEnd ==
    ASSUME NEW s \in Nat, s < 2^(Bits - 1), NEW w, NEW carry \in {0, 1}
    PROVE  WnafRight(<< >>, s, w, Bits, carry)
<1>1. << >> \in Seq(Int) /\ Len(<< >>) = 0 /\ Bits - Bits = 0 /\ 0 <= Bits
  BY Two
<1>2. BitsValue(<< >>) = 0
  <2>1. Weighed(<< >>) \in [Nat -> Int]
    BY <1>1, WeighedInt
  <2>2. QED
    BY <1>1, <2>1, SumZero DEF BitsValue
<1>3. s \div 2^Bits = 0
  <2>1. 2^(Bits - 1) <= 2^Bits /\ 2^Bits \in Nat /\ 2^(Bits - 1) \in Nat
    BY Two, PowerMonotone, Bits - 1 \in Nat
  <2>2. s < 2^Bits
    BY <2>1
  <2>3. QED
    BY <2>2, NothingAbove, Two
<1>4. QED
  BY <1>1, <1>2, <1>3, Two DEF WnafRight

LEMMA WnafRightZero ==
    ASSUME NEW s \in Nat, s < 2^(Bits - 1), NEW w, NEW bit \in 0 .. Bits - 1,
           NEW carry \in {0, 1}, GetBits(s, bit, 1) = carry,
           NEW q, WnafRight(q, s, w, bit + 1, carry)
    PROVE  WnafRight(<< 0 >> \o q, s, w, bit, carry)
<1>0. Bits \in Nat /\ Bits > 1 /\ bit \in Nat /\ bit + 1 \in Nat
  BY Two
<1> DEFINE t == << 0 >> \o q
<1>1. q \in Seq(Int) /\ Len(q) = Bits - (bit + 1) /\ \A i \in 1 .. Len(q) : Fit(q[i], w)
  BY DEF WnafRight
<1>2. /\ t \in Seq(Int) /\ Len(t) = 1 + Len(q) /\ t[1] = 0
      /\ \A j \in 1 .. Len(q) : t[1 + j] = q[j]
  BY <1>1, ConcatOne
<1> HIDE DEF t
<1>3. Len(t) = Bits - bit
  BY <1>0, <1>1, <1>2
<1>4. ASSUME NEW i \in 1 .. Len(t) PROVE Fit(t[i], w)
  <2>1. CASE i = 1
    BY <1>2, <2>1 DEF Fit
  <2>2. CASE i # 1
    <3>1. i - 1 \in 1 .. Len(q) /\ 1 + (i - 1) = i
      BY <1>0, <1>1, <1>3, <2>2
    <3>2. t[1 + (i - 1)] = q[i - 1]
      BY <1>2, <3>1
    <3>3. QED
      BY <1>1, <3>1, <3>2
  <2>3. QED
    BY <2>1, <2>2
<1>5. bit + 1 = Bits => carry = 0
  <2>1. SUFFICES ASSUME bit + 1 = Bits PROVE carry = 0
    OBVIOUS
  <2>2. s \div 2^bit = 0
    <3>1. bit = Bits - 1 /\ bit \in 0 .. 2 * Bits + 1
      BY <1>0, <2>1
    <3>2. QED
      BY <3>1, NothingAbove
  <2>3. GetBits(s, bit, 1) = 0
    <3>1. bit <= 2 * Bits /\ 0 % 2 = 0
      BY <1>0
    <3>2. GetBits(s, bit, 1) = (s \div 2^bit) % 2
      BY <1>0, <3>1, OneBit
    <3>3. QED
      BY <2>2, <3>1, <3>2
  <2>4. QED
    BY <2>3
<1>6. BitsValue(q) = (s \div 2^(bit + 1)) + carry
  <2>1. bit + 1 < Bits \/ carry = 0
    BY <1>0, <1>5
  <2>2. QED
    BY <2>1 DEF WnafRight
<1>7. BitsValue(t) = 0 + 2^1 * BitsValue(q)
  <2>1. \A i \in 2 .. 1 : t[i] = 0
    OBVIOUS
  <2>2. Len(t) <= Bits /\ 1 \in Nat /\ 1 >= 1 /\ 0 \in Int
    BY <1>0, <1>3
  <2>3. QED
    BY <1>1, <1>2, <2>1, <2>2, ValuePrepend
<1>8. /\ s \div 2^(bit + 1) \in Nat /\ s \div 2^bit \in Nat
      /\ s \div 2^bit = 2^1 * (s \div 2^(bit + 1)) + GetBits(s, bit, 1)
  <2>1. bit + 1 <= 2 * Bits + 1 /\ 1 \in Nat
    BY <1>0
  <2>2. QED
    BY <1>0, <2>1, GetBitsSplit
<1>9. BitsValue(t) = (s \div 2^bit) + carry
  <2>1. PICK x \in Nat, y \in Nat : x = s \div 2^bit /\ y = s \div 2^(bit + 1)
    BY <1>8
  <2>2. x = 2 * y + carry /\ BitsValue(q) = y + carry /\ BitsValue(t) = 0 + 2 * BitsValue(q)
    BY <1>6, <1>7, <1>8, <2>1, Two
  <2>3. QED
    BY <2>1, <2>2
<1>10. QED
  BY <1>2, <1>3, <1>4, <1>9 DEF WnafRight, t

\* An odd word is a digit and its carry.
LEMMA WnafRightDigit ==
    ASSUME NEW s \in Nat, s < 2^(Bits - 1), NEW w \in 2 .. Bits, NEW bit \in 0 .. Bits - 1,
           NEW carry \in {0, 1}, NEW now \in 1 .. Bits - bit, NEW c \in {0, 1},
           NEW d, d \in Int, Fit(d, w),
           (s \div 2^bit) + carry = d + 2^now * ((s \div 2^(bit + now)) + c),
           bit + now = Bits => c = 0,
           NEW q, WnafRight(q, s, w, bit + now, c)
    PROVE  WnafRight(<<d>> \o [i \in 1 .. now - 1 |-> 0] \o q, s, w, bit, carry)
<1>0. Bits \in Nat /\ Bits > 1 /\ bit \in Nat /\ now \in Nat /\ now >= 1
  BY Two
<1> DEFINE t == <<d>> \o [i \in 1 .. now - 1 |-> 0] \o q
<1>1. q \in Seq(Int) /\ Len(q) = Bits - (bit + now) /\ \A i \in 1 .. Len(q) : Fit(q[i], w)
  BY DEF WnafRight
<1>2. /\ t \in Seq(Int) /\ Len(t) = now + Len(q) /\ t[1] = d
      /\ \A i \in 2 .. now : t[i] = 0
      /\ \A j \in 1 .. Len(q) : t[now + j] = q[j]
  BY <1>0, <1>1, Concat
<1> HIDE DEF t
<1>3. Len(t) = Bits - bit
  BY <1>0, <1>1, <1>2
<1>4. ASSUME NEW i \in 1 .. Len(t) PROVE Fit(t[i], w)
  <2>1. CASE i = 1
    BY <1>2, <2>1
  <2>2. CASE i # 1 /\ i <= now
    <3>1. i \in 2 .. now
      BY <1>3, <2>2
    <3>2. QED
      BY <1>2, <3>1 DEF Fit
  <2>3. CASE i > now
    <3>1. i - now \in 1 .. Len(q) /\ now + (i - now) = i
      BY <1>0, <1>1, <1>3, <2>3
    <3>2. t[now + (i - now)] = q[i - now]
      BY <1>2, <3>1
    <3>3. QED
      BY <1>1, <3>1, <3>2
  <2>4. QED
    BY <1>0, <1>3, <2>1, <2>2, <2>3
<1>6. BitsValue(q) = (s \div 2^(bit + now)) + c
  <2>1. bit + now < Bits \/ c = 0
    BY <1>0
  <2>2. QED
    BY <2>1 DEF WnafRight
<1>7. BitsValue(t) = d + 2^now * BitsValue(q)
  <2>2. Len(t) <= Bits
    BY <1>0, <1>3
  <2>3. QED
    BY <1>0, <1>1, <1>2, <2>2, ValuePrepend
<1>10. QED
  BY <1>2, <1>3, <1>4, <1>6, <1>7 DEF WnafRight, t

\* From every bit on, for either carry, the digits are what is left.
LEMMA WnafAllRight ==
    ASSUME NEW s \in Nat, s < 2^(Bits - 1), NEW w \in 2 .. Bits, NEW f,
           f = [bit \in 0 .. Bits |-> WnafRule(f, s, w, bit)],
           NEW n \in Nat
    PROVE  \A m \in 0 .. n, carry \in {0, 1} :
              m <= Bits => WnafRight(f[Bits - m][carry], s, w, Bits - m, carry)
<1>0. Bits \in Nat /\ Bits > 1
  BY Two
<1>4. ASSUME NEW bit \in 0 .. Bits PROVE f[bit] = WnafRule(f, s, w, bit)
  OBVIOUS
<1> DEFINE S == {i \in Nat : \A m \in 0 .. i, carry \in {0, 1} :
              m <= Bits => WnafRight(f[Bits - m][carry], s, w, Bits - m, carry)}
<1>1. 0 \in S
  <2>1. SUFFICES ASSUME NEW m \in 0 .. 0, NEW carry \in {0, 1}
                 PROVE  WnafRight(f[Bits - m][carry], s, w, Bits - m, carry)
    BY 0 \in Nat
  <2>2. Bits - m = Bits /\ Bits \in 0 .. Bits
    BY <1>0
  <2>3. f[Bits][carry] = << >>
    <3>1. f[Bits] = WnafRule(f, s, w, Bits)
      BY <1>4, <2>2
    <3>2. QED
      BY <3>1 DEF WnafRule
  <2>4. QED
    BY <2>2, <2>3, WnafRightEnd
<1>2. ASSUME NEW i \in Nat, i \in S PROVE i + 1 \in S
  <2>1. SUFFICES ASSUME NEW m \in 0 .. i + 1, NEW carry \in {0, 1}, m <= Bits
                 PROVE  WnafRight(f[Bits - m][carry], s, w, Bits - m, carry)
    BY i + 1 \in Nat
  <2>2. CASE m \in 0 .. i
    BY <1>2, <2>1, <2>2
  <2>3. CASE m = i + 1
    <3> DEFINE bit == Bits - (i + 1)
               now == IF w > Bits - bit THEN Bits - bit ELSE w
               word == GetBits(s, bit, now) + carry
               c == GetBits(word, w - 1, 1)
               d == word - c * 2^w
    <3>1. bit \in 0 .. Bits - 1 /\ bit \in 0 .. Bits /\ bit # Bits
      BY <1>0, <2>1, <2>3
    <3>2. f[bit][carry] = IF GetBits(s, bit, 1) = carry THEN << 0 >> \o f[bit + 1][carry]
                     ELSE <<d>> \o [j \in 1 .. now - 1 |-> 0] \o f[bit + now][c]
      <4>1. f[bit] = WnafRule(f, s, w, bit)
        BY <1>4, <3>1
      <4>2. QED
        BY <3>1, <4>1 DEF WnafRule
    <3>3. CASE GetBits(s, bit, 1) = carry
      <4>1. bit + 1 = Bits - i /\ i <= Bits
        BY <1>0, <2>1, <2>3
      <4>2. WnafRight(f[bit + 1][carry], s, w, bit + 1, carry)
        <5>1. i \in 0 .. i
          OBVIOUS
        <5>2. WnafRight(f[Bits - i][carry], s, w, Bits - i, carry)
          BY <1>2, <4>1, <5>1
        <5>3. QED
          BY <4>1, <5>2
      <4> HIDE DEF bit, now, word, c, d
      <4>3. WnafRight(<< 0 >> \o f[bit + 1][carry], s, w, bit, carry)
        BY <3>1, <3>3, <4>2, WnafRightZero
      <4>4. f[bit][carry] = << 0 >> \o f[bit + 1][carry]
        BY <3>2, <3>3
      <4>5. QED
        BY <2>3, <4>3, <4>4 DEF bit
    <3>4. CASE GetBits(s, bit, 1) # carry
      <4>1. now \in 1 .. Bits - bit /\ word \in Nat /\ c \in {0, 1}
        <5>1. w \in 1 .. Bits
          OBVIOUS
        <5>2. QED
          BY <3>1, <5>1, WnafReach
      <4>2. /\ d \in Int /\ d % 2 = 1 /\ d < 2^(w - 1) /\ -d < 2^(w - 1)
            /\ (s \div 2^bit) + carry = d + 2^now * ((s \div 2^(bit + now)) + c)
            /\ bit + now = Bits => c = 0
        <5> HIDE DEF bit
        <5>1. QED
          BY <3>1, <3>4, WnafWord
      <4> HIDE DEF now, word, c, d
      <4>3. WnafRight(f[bit + now][c], s, w, bit + now, c)
        <5>1. /\ (i + 1) - now \in 0 .. i /\ (i + 1) - now <= Bits
              /\ Bits - ((i + 1) - now) = bit + now
          BY <1>0, <2>1, <2>3, <4>1
        <5>2. WnafRight(f[Bits - ((i + 1) - now)][c], s, w, Bits - ((i + 1) - now), c)
          BY <1>2, <4>1, <5>1
        <5>3. QED
          BY <5>1, <5>2
      <4> HIDE DEF bit
      <4>4. Fit(d, w)
        BY <4>2 DEF Fit
      <4>5. WnafRight(<<d>> \o [j \in 1 .. now - 1 |-> 0] \o f[bit + now][c], s, w, bit, carry)
        BY <3>1, <4>1, <4>2, <4>3, <4>4, WnafRightDigit
      <4>6. f[bit][carry] = <<d>> \o [j \in 1 .. now - 1 |-> 0] \o f[bit + now][c]
        BY <3>2, <3>4
      <4>7. QED
        BY <2>3, <4>5, <4>6 DEF bit
    <3>5. QED
      BY <3>3, <3>4
  <2>4. QED
    BY <2>1, <2>2, <2>3
<1>3. \A i \in Nat : i \in S
  <2> HIDE DEF S
  <2>1. QED
    BY <1>1, <1>2, Induction
<1>5. QED
  BY <1>3

\* The number the digits below position n stand for, w bits to a digit.
Weighing(g, w, n) == [i \in Nat |-> IF i < n THEN g[i] * 2^(i * w) ELSE 0]

Low(g, w, n) == SumTo(Weighing(g, w, n), n)

\* The weights are powers of two the provers know.
Short(w, n) == n = 0 \/ (n - 1) * w <= 2 * Bits + 1

LEMMA WeighingInt ==
    ASSUME NEW w \in Nat, NEW n \in Nat, Short(w, n),
           NEW g, \A i \in 0 .. n - 1 : g[i] \in Int
    PROVE  /\ Weighing(g, w, n) \in [Nat -> Int] /\ Low(g, w, n) \in Int
           /\ \A i \in 0 .. n - 1 : i * w \in 0 .. 2 * Bits + 1 /\ 2^(i * w) \in Nat
<1>1. ASSUME NEW i \in 0 .. n - 1 PROVE i * w \in 0 .. 2 * Bits + 1 /\ 2^(i * w) \in Nat
  <2>1. n - 1 \in Nat /\ i \in Nat /\ i <= n - 1 /\ n # 0
    OBVIOUS
  <2>2. PICK m \in Nat : m = n - 1
    BY <2>1
  <2>3. i * w \in Nat /\ i * w <= m * w
    <3>1. i \in Nat /\ i <= m
      BY <2>1, <2>2
    <3>2. m - i \in Nat /\ m = i + (m - i)
      BY <3>1
    <3>3. PICK d \in Nat : d = m - i
      BY <3>2
    <3>4. m * w = i * w + d * w /\ d * w \in Nat /\ i * w \in Nat
      BY <3>1, <3>2, <3>3, SMT
    <3>5. QED
      BY <3>4
  <2>4. m * w <= 2 * Bits + 1 /\ m * w \in Nat
    BY <2>1, <2>2, SMT DEF Short
  <2>5. i * w \in 0 .. 2 * Bits + 1
    BY <2>3, <2>4, Two
  <2>6. QED
    BY <2>5, Power
<1>2. ASSUME NEW i \in Nat PROVE (IF i < n THEN g[i] * 2^(i * w) ELSE 0) \in Int
  <2>1. CASE i < n
    <3>1. i \in 0 .. n - 1
      BY <2>1
    <3>2. g[i] \in Int /\ 2^(i * w) \in Int
      BY <1>1, <3>1
    <3>3. g[i] * 2^(i * w) \in Int
      BY <3>2, SMT
    <3>4. QED
      BY <2>1, <3>3
  <2>2. QED
    BY <2>1
<1>3. Weighing(g, w, n) \in [Nat -> Int]
  BY <1>2 DEF Weighing
<1>4. QED
  BY <1>1, <1>3, SumInt DEF Low

LEMMA LowZero == ASSUME NEW w \in Nat, NEW g PROVE Low(g, w, 0) = 0
<1>1. Weighing(g, w, 0) \in [Nat -> Int]
  BY WeighingInt, 0 \in Nat DEF Short
<1>2. QED
  BY <1>1, SumZero DEF Low

LEMMA LowStep ==
    ASSUME NEW w \in Nat, NEW n \in Nat, n * w <= 2 * Bits + 1,
           NEW g, \A i \in 0 .. n : g[i] \in Int
    PROVE  /\ Low(g, w, n) \in Int /\ 2^(n * w) \in Nat
           /\ Low(g, w, n + 1) = Low(g, w, n) + g[n] * 2^(n * w)
<1>1. Short(w, n)
  <2>1. CASE n # 0
    <3>1. (n - 1) * w = n * w - w /\ n * w \in Nat
      BY SMT
    <3>2. QED
      BY <3>1, Two DEF Short
  <2>2. QED
    BY <2>1 DEF Short
<1>2. (n + 1) - 1 = n /\ n + 1 \in Nat /\ n \in 0 .. n /\ \A i \in 0 .. n - 1 : i \in 0 .. n
  OBVIOUS
<1>3. Short(w, n + 1)
  BY <1>2 DEF Short
<1>4. Weighing(g, w, n) \in [Nat -> Int] /\ Low(g, w, n) \in Int
  BY <1>1, <1>2, WeighingInt
<1>5. Weighing(g, w, n + 1) \in [Nat -> Int] /\ 2^(n * w) \in Nat
  <2>1. \A i \in 0 .. (n + 1) - 1 : g[i] \in Int
    BY <1>2
  <2>2. QED
    BY <1>2, <1>3, <2>1, WeighingInt
<1>6. SumTo(Weighing(g, w, n + 1), n + 1)
        = SumTo(Weighing(g, w, n + 1), n) + Weighing(g, w, n + 1)[n]
  BY <1>5, SumStep
<1>7. \A i \in 0 .. n - 1 : Weighing(g, w, n + 1)[i] = Weighing(g, w, n)[i]
  <2>1. ASSUME NEW i \in 0 .. n - 1 PROVE Weighing(g, w, n + 1)[i] = Weighing(g, w, n)[i]
    <3>1. i \in Nat /\ i < n /\ i < n + 1
      OBVIOUS
    <3>2. QED
      BY <3>1 DEF Weighing
  <2>2. QED
    BY <2>1
<1>8. SumTo(Weighing(g, w, n + 1), n) = SumTo(Weighing(g, w, n), n)
  BY <1>4, <1>5, <1>7, SumEqual
<1>9. Weighing(g, w, n + 1)[n] = g[n] * 2^(n * w)
  <2>1. n < n + 1
    OBVIOUS
  <2>2. QED
    BY <2>1 DEF Weighing
<1>10. QED
  BY <1>4, <1>5, <1>6, <1>8, <1>9 DEF Low

\* A recoding keeps the scalar and its digits fit their table.
THEOREM EcmultWnafRight ==
    ASSUME NEW a \in Scalars, NEW w \in 2 .. Bits
    PROVE  /\ EcmultWnaf(a, w) \in [0 .. Bits - 1 -> Int]
           /\ \A i \in 0 .. Bits - 1 : Fit(EcmultWnaf(a, w)[i], w)
           /\ Low(EcmultWnaf(a, w), 1, Bits) \in Int
           /\ Cong(N, Low(EcmultWnaf(a, w), 1, Bits), a)
<1>0. Bits \in Nat /\ Bits > 1 /\ a \in Nat /\ a < N /\ N \in Nat /\ N < 2^Bits
  BY Two, Order, BitsAssumption
<1> DEFINE flip == GetBits(a, Bits - 1, 1) = 1
           s == IF flip THEN ScalarNeg(a) ELSE a
           f[bit \in 0 .. Bits] == [carry \in {0, 1} |->
            IF bit = Bits THEN << >>
            ELSE IF GetBits(s, bit, 1) = carry
            THEN << 0 >> \o f[bit + 1][carry]
            ELSE LET now  == IF w > Bits - bit THEN Bits - bit ELSE w
                     word == GetBits(s, bit, now) + carry
                     c    == GetBits(word, w - 1, 1)
                 IN  <<word - c * 2^w>> \o [i \in 1 .. now - 1 |-> 0]
                        \o f[bit + now][c]]
           q == f[0][0]
           W == [i \in 0 .. Bits - 1 |-> IF flip THEN -q[i + 1] ELSE q[i + 1]]
<1>1. EcmultWnaf(a, w) = W
  BY DEF EcmultWnaf
<1>2. PICK m \in Nat : m = 2^(Bits - 1) /\ m >= 1 /\ 2^Bits = 2 * m
  <2>1. Bits \in 1 .. 2 * Bits + 1
    BY <1>0
  <2>2. QED
    BY <2>1, PowerEven
<1>3. /\ s \in Nat /\ s < m
      /\ (flip /\ s = N - a) \/ (~flip /\ s = a)
  <2>1. GetBits(a, Bits - 1, 1) = (a \div m) % 2 /\ GetBits(a, Bits - 1, 1) \in {0, 1}
    <3>1. Bits - 1 \in Nat /\ Bits - 1 <= 2 * Bits
      BY <1>0
    <3>2. QED
      BY <1>0, <1>2, <3>1, OneBit
  <2>2. /\ a \div m \in Nat /\ a % m \in 0 .. m - 1
        /\ a = (a \div m) * m + (a % m)
    <3>1. m > 0 /\ a \in Int
      BY <1>0, <1>2
    <3>2. QED
      BY <1>0, <3>1, Division
  <2>3. a \div m < 2
    BY <1>0, <1>2, DivisionBelow, 2 \in Nat
  <2>4. PICK d \in {0, 1}, g \in 0 .. m - 1 : d = a \div m /\ a = d * m + g /\ g = a % m
    BY <2>2, <2>3
  <2>5. CASE flip
    <3>1. d = 1
      BY <2>1, <2>4, <2>5
    <3>2. a >= m /\ a > 0
      <4>1. d * m = m
        BY <3>1
      <4>2. a = m + g
        BY <2>4, <4>1
      <4>3. m >= 1
        BY <1>2
      <4>4. QED
        BY <4>2, <4>3
    <3>3. ScalarNeg(a) = N - a
      <4>1. -a = (-1) * N + (N - a) /\ N - a \in 0 .. N - 1 /\ -1 \in Int /\ N > 0
        BY <1>0, <3>2
      <4>2. ((-1) * N + (N - a)) % N = N - a
        BY <1>0, <4>1, DivUnique
      <4>3. QED
        BY <4>1, <4>2 DEF ScalarNeg
    <3>4. QED
      BY <1>0, <1>2, <2>5, <3>2, <3>3
  <2>6. CASE ~flip
    <3>1. d = 0
      BY <2>1, <2>4, <2>6
    <3>2. QED
      BY <1>0, <2>4, <2>6, <3>1
  <2>7. QED
    BY <2>5, <2>6
<1> HIDE DEF flip, s
<1>4. f = [bit \in 0 .. Bits |-> WnafRule(f, s, w, bit)]
  <2> HIDE DEF f
  <2>0. Bits - Bits = 0 /\ Bits <= Bits /\ w \in 1 .. Bits
    BY <1>0
  <2>1. \E h : h = [bit \in 0 .. Bits |-> WnafRule(h, s, w, bit)]
    <3>1. \E h : h = [bit \in Bits - Bits .. Bits |-> WnafRule(h, s, w, bit)]
      BY <1>0, <1>3, <2>0, WnafExists
    <3>2. QED
      BY <2>0, <3>1
  <2>2. f = CHOOSE h : h = [bit \in 0 .. Bits |-> WnafRule(h, s, w, bit)]
    BY DEF f, WnafRule
  <2>3. QED
    BY <2>1, <2>2, Zenon
<1> HIDE DEF f
<1>5. WnafRight(f[0][0], s, w, 0, 0)
  <2>1. s < 2^(Bits - 1)
    BY <1>2, <1>3
  <2>2. \A h \in 0 .. Bits, carry \in {0, 1} :
              h <= Bits => WnafRight(f[Bits - h][carry], s, w, Bits - h, carry)
    BY <1>0, <1>3, <1>4, <2>1, WnafAllRight
  <2>3. Bits \in 0 .. Bits /\ Bits <= Bits /\ Bits - Bits = 0 /\ 0 \in {0, 1}
    BY <1>0
  <2>4. QED
    BY <2>2, <2>3
<1>6. q \in Seq(Int) /\ Len(q) = Bits /\ (\A i \in 1 .. Bits : Fit(q[i], w)) /\ BitsValue(q) = s
  <2>1. Bits - 0 = Bits /\ 0 < Bits
    BY <1>0
  <2>2. s \div 2^0 = s
    <3>1. s = s * 1 + 0 /\ 0 \in 0 .. 1 - 1
      BY <1>3
    <3>2. s \div 1 = s
      BY <1>3, <3>1, DivUnique
    <3>3. QED
      BY <3>2, PowersAssumption
  <2>3. QED
    BY <1>3, <1>5, <2>1, <2>2 DEF WnafRight
<1> HIDE DEF q
<1>7. PICK e \in {1, -1} : (flip /\ e = -1) \/ (~flip /\ e = 1)
  BY 1 \in {1, -1}, -1 \in {1, -1}
<1>8. ASSUME NEW i \in 0 .. Bits - 1
      PROVE  q[i + 1] \in Int /\ W[i] = e * q[i + 1] /\ W[i] \in Int /\ Fit(W[i], w)
  <2>1. i + 1 \in 1 .. Bits
    BY <1>0
  <2>2. q[i + 1] \in Int /\ Fit(q[i + 1], w)
    BY <1>6, <2>1
  <2>3. PICK d \in Int : d = q[i + 1]
    BY <2>2
  <2>4. W[i] = IF flip THEN -d ELSE d
    BY <2>3
  <2>5. Fit(W[i], w)
    <3>1. (-d) % 2 = 1 <=> d % 2 = 1
      BY SMT
    <3>2. 2^(w - 1) \in Nat
      <4>1. w - 1 \in 0 .. 2 * Bits + 1
        BY <1>0
      <4>2. QED
        BY <4>1, Power
    <3>3. Fit(d, w)
      BY <2>2, <2>3
    <3> HIDE DEF W
    <3>4. QED
      BY <2>4, <3>1, <3>2, <3>3 DEF Fit
  <2>6. W[i] = e * d /\ W[i] \in Int
    BY <1>7, <2>4
  <2>7. QED
    BY <2>2, <2>3, <2>5, <2>6
<1>9. W \in [0 .. Bits - 1 -> Int]
  BY <1>8
<1> HIDE DEF W
<1>10. Low(W, 1, Bits) \in Int /\ Weighing(W, 1, Bits) \in [Nat -> Int]
  <2>1. Short(1, Bits) /\ 1 \in Nat
    <3>1. (Bits - 1) * 1 <= 2 * Bits + 1
      BY <1>0
    <3>2. QED
      BY <3>1 DEF Short
  <2>2. QED
    BY <1>0, <1>8, <2>1, WeighingInt
<1>11. Low(W, 1, Bits) = e * s
  <2>1. Weighed(q) \in [Nat -> Int] /\ BitsValue(q) = SumTo(Weighed(q), Bits)
    <3>1. Len(q) <= Bits
      BY <1>0, <1>6
    <3>2. QED
      BY <1>6, <3>1, WeighedInt DEF BitsValue
  <2>2. ASSUME NEW i \in 0 .. Bits - 1 PROVE Weighing(W, 1, Bits)[i] = e * Weighed(q)[i]
    <3>1. i \in Nat /\ i < Bits /\ i * 1 = i /\ i \in 0 .. 2 * Bits + 1
      BY <1>0
    <3>2. Weighing(W, 1, Bits)[i] = W[i] * 2^i
      BY <3>1 DEF Weighing
    <3>3. Weighed(q)[i] = q[i + 1] * 2^i
      BY <1>6, <3>1 DEF Weighed
    <3>4. PICK d \in Int, k \in Int : d = q[i + 1] /\ k = 2^i
      BY <1>8, <3>1, Power
    <3>5. (e * d) * k = e * (d * k)
      BY SMT
    <3>6. QED
      BY <1>8, <3>2, <3>3, <3>4, <3>5
  <2>3. e \in Int
    OBVIOUS
  <2>4. SumTo(Weighing(W, 1, Bits), Bits) = e * SumTo(Weighed(q), Bits)
    BY <1>0, <1>10, <2>1, <2>2, <2>3, SumScale
  <2>5. QED
    BY <1>6, <2>1, <2>4 DEF Low
<1>12. Cong(N, e * s, a)
  <2>1. CASE flip
    <3>1. e * s = a - N /\ a - (a - N) = 1 * N /\ (a - N) - a = (-1) * N
      BY <1>0, <1>3, <1>7, <2>1
    <3>2. QED
      BY <1>0, <3>1, 1 \in Int, -1 \in Int DEF Cong
  <2>2. CASE ~flip
    <3>1. e * s = a /\ a - a = 0 * N
      BY <1>0, <1>3, <1>7, <2>2
    <3>2. QED
      BY <1>0, <3>1, 0 \in Int DEF Cong
  <2>3. QED
    BY <2>1, <2>2
<1>13. QED
  BY <1>1, <1>8, <1>9, <1>10, <1>11, <1>12

---------------------------------------------------------------------------
(* The last bit ecmult_wnaf returns, and windows of equal width.           *)

\* Leading zeros.
LEMMA LowSame ==
    ASSUME NEW w \in Nat, NEW b \in Nat, NEW n \in Nat, b <= n,
           Short(w, n), NEW g, \A i \in 0 .. n - 1 : g[i] \in Int,
           \A i \in b .. n - 1 : g[i] = 0
    PROVE  Low(g, w, n) = Low(g, w, b)
<1> DEFINE S == {m \in Nat : b <= m /\ m <= n => Low(g, w, m) = Low(g, w, b)}
<1>1. 0 \in S
  <2>1. b <= 0 => b = 0
    OBVIOUS
  <2>2. QED
    BY <2>1
<1>2. ASSUME NEW m \in Nat, m \in S PROVE m + 1 \in S
  <2>1. SUFFICES ASSUME b <= m + 1, m + 1 <= n PROVE Low(g, w, m + 1) = Low(g, w, b)
    BY m + 1 \in Nat
  <2>2. CASE b = m + 1
    BY <2>2
  <2>3. CASE b # m + 1
    <3>1. b <= m /\ m <= n /\ m \in b .. n - 1 /\ (\A i \in 0 .. m : i \in 0 .. n - 1)
          /\ m \in 0 .. m /\ n # 0 /\ m <= n - 1 /\ n - 1 \in Nat
      BY <2>1, <2>3
    <3>2. Low(g, w, m) = Low(g, w, b)
      BY <1>2, <3>1
    <3>3. m * w <= 2 * Bits + 1
      <4>1. n * w \in Nat
        BY SMT
      <4>2. m * w \in 0 .. 2 * Bits + 1
        BY <3>1, WeighingInt
      <4>3. QED
        BY <4>2, Two
    <3>4. /\ Low(g, w, m) \in Int /\ 2^(m * w) \in Nat
          /\ Low(g, w, m + 1) = Low(g, w, m) + g[m] * 2^(m * w)
      BY <3>1, <3>3, LowStep
    <3>5. g[m] = 0 /\ \A k \in Nat : 0 * k = 0
      BY <3>1
    <3>6. QED
      BY <3>2, <3>4, <3>5
  <2>4. QED
    BY <2>2, <2>3
<1>3. \A m \in Nat : m \in S
  <2> HIDE DEF S
  <2>1. QED
    BY <1>1, <1>2, Induction
<1>4. QED
  BY <1>3

\* The digits a scalar has above the last bit are zero.
LEMMA LastBitRight ==
    ASSUME NEW W, \A i \in 0 .. Bits - 1 : W[i] \in Int
    PROVE  /\ LastBit(W) \in 0 .. Bits
           /\ \A i \in LastBit(W) .. Bits - 1 : W[i] = 0
           /\ LastBit(W) > 0 => W[LastBit(W) - 1] # 0
<1>0. Bits \in Nat /\ Bits > 1
  BY Two
<1> DEFINE S == {b \in Nat : b <= Bits /\ \A i \in b .. Bits - 1 : W[i] = 0}
<1>1. Bits \in S
  BY <1>0
<1>2. PICK b \in S : \A m \in S : b <= m
  <2> HIDE DEF S
  <2>1. S \subseteq Nat
    BY DEF S
  <2>2. QED
    BY <1>1, <2>1, LeastNumber
<1>3. b \in 0 .. Bits /\ \A i \in b .. Bits - 1 : W[i] = 0
  BY <1>0
<1>4. b > 0 => W[b - 1] # 0
  <2>1. SUFFICES ASSUME b > 0, W[b - 1] = 0 PROVE FALSE
    OBVIOUS
  <2>2. b - 1 \in Nat /\ b - 1 <= Bits /\ \A i \in b - 1 .. Bits - 1 : i = b - 1 \/ i \in b .. Bits - 1
    BY <1>0, <1>3, <2>1
  <2>3. b - 1 \in S
    BY <1>3, <2>1, <2>2
  <2>4. QED
    BY <1>2, <1>3, <2>3
<1>5. QED
  BY <1>3, <1>4 DEF LastBit

\* The windows of a number, the lowest first.
WindowsOf(g, v, w, n) == n * w <= 2 * Bits + 1 /\ \A i \in 0 .. n - 1 : g[i] = GetBits(v, i * w, w)

\* The windows of a number add up to it.
LEMMA WindowsSum ==
    ASSUME NEW v \in Nat, NEW w \in Nat, NEW n \in Nat, NEW g, WindowsOf(g, v, w, n)
    PROVE  /\ v \div 2^(n * w) \in Nat /\ 2^(n * w) \in Nat
           /\ v = Low(g, w, n) + (v \div 2^(n * w)) * 2^(n * w)
           /\ Low(g, w, n) \in Int
<1>w. n * w <= 2 * Bits + 1 /\ \A i \in 0 .. n - 1 : g[i] = GetBits(v, i * w, w)
  BY DEF WindowsOf
<1>0. ASSUME NEW m \in Nat, m <= n
      PROVE  m * w \in Nat /\ m * w <= n * w /\ n * w \in Nat
  <2>1. PICK d \in Nat : d = n - m
    BY <1>0
  <2>2. n * w = m * w + d * w /\ d * w \in Nat /\ m * w \in Nat
    <3>1. n = m + d
      BY <2>1
    <3>2. QED
      BY <3>1, SMT
  <2>3. QED
    BY <2>2
<1>a. ASSUME NEW m \in Nat, m + 1 <= n
      PROVE  /\ m * w \in Nat /\ (m + 1) * w = m * w + w /\ m * w + w <= 2 * Bits + 1
             /\ m * w <= 2 * Bits + 1
             /\ GetBits(v, m * w, w) \in Nat
             /\ v \div 2^(m * w) \in Nat /\ v \div 2^(m * w + w) \in Nat
             /\ v \div 2^(m * w) = 2^w * (v \div 2^(m * w + w)) + GetBits(v, m * w, w)
  <2>1. (m + 1) * w = m * w + w
    BY SMT
  <2>2. m + 1 \in Nat /\ Bits \in Nat
    BY Two
  <2>3. m * w \in Nat /\ (m + 1) * w <= n * w /\ n * w \in Nat /\ (m + 1) * w \in Nat
    BY <1>0, <1>a, <2>2
  <2>4. m * w + w <= 2 * Bits + 1 /\ m * w <= 2 * Bits + 1
    BY <1>w, <2>1, <2>2, <2>3
  <2>5. /\ GetBits(v, m * w, w) \in 0 .. 2^w - 1
        /\ v \div 2^(m * w) \in Nat /\ v \div 2^(m * w + w) \in Nat
        /\ v \div 2^(m * w) = 2^w * (v \div 2^(m * w + w)) + GetBits(v, m * w, w)
    BY <2>3, <2>4, GetBitsSplit
  <2>6. QED
    BY <2>1, <2>3, <2>4, <2>5
<1> DEFINE S == {m \in Nat : m <= n =>
                    v = Low(g, w, m) + (v \div 2^(m * w)) * 2^(m * w)}
<1>1. 0 \in S
  <2>1. 0 * w = 0 /\ 2^0 = 1 /\ 0 \in Nat
    BY PowersAssumption
  <2>2. v \div 1 = v
    <3>1. v = v * 1 + 0 /\ 0 \in 0 .. 1 - 1
      OBVIOUS
    <3>2. QED
      BY <3>1, DivUnique
  <2>3. Low(g, w, 0) = 0
    BY LowZero
  <2>4. v = 0 + v * 1
    OBVIOUS
  <2>5. QED
    BY <2>1, <2>2, <2>3, <2>4
<1>2. ASSUME NEW m \in Nat, m \in S PROVE m + 1 \in S
  <2>1. SUFFICES ASSUME m + 1 <= n
                 PROVE  v = Low(g, w, m + 1) + (v \div 2^((m + 1) * w)) * 2^((m + 1) * w)
    BY m + 1 \in Nat
  <2>2. m <= n
    BY <2>1
  <2>3. v = Low(g, w, m) + (v \div 2^(m * w)) * 2^(m * w)
    BY <1>2, <2>2
  <2>4. ASSUME NEW i \in 0 .. m PROVE g[i] = GetBits(v, i * w, w) /\ g[i] \in Int
    <3>1. i \in Nat /\ i + 1 <= n /\ i \in 0 .. n - 1
      BY <2>1
    <3>2. QED
      BY <1>a, <1>w, <3>1
  <2>5. /\ Low(g, w, m) \in Int /\ 2^(m * w) \in Nat
        /\ Low(g, w, m + 1) = Low(g, w, m) + g[m] * 2^(m * w)
    BY <1>a, <2>1, <2>4, LowStep
  <2>6. 2^(m * w + w) = 2^(m * w) * 2^w /\ 2^w \in Nat
    <3>1. m * w \in Nat /\ m * w + w <= 2 * Bits + 1
      BY <1>a, <2>1
    <3>2. w \in 0 .. 2 * Bits + 1
      BY <3>1, Two
    <3>3. QED
      BY <3>1, <3>2, Power, PowerSum
  <2>7. PICK L \in Int, M \in Nat, W \in Nat, y \in Nat, x \in Nat, e \in Nat :
           /\ L = Low(g, w, m) /\ M = 2^(m * w) /\ W = 2^w
           /\ y = v \div 2^(m * w + w) /\ x = v \div 2^(m * w) /\ e = g[m]
    <3>1. m \in 0 .. m
      OBVIOUS
    <3>2. QED
      BY <1>a, <2>1, <2>4, <2>5, <2>6, <3>1
  <2>8. v = L + x * M /\ x = W * y + e
    <3>1. m \in 0 .. m
      OBVIOUS
    <3>2. QED
      BY <1>a, <2>1, <2>3, <2>4, <2>7, <3>1
  <2>9. v = (L + e * M) + y * (M * W)
    <3>1. (W * y + e) * M = e * M + y * (M * W)
      BY SMT
    <3>2. e * M \in Int /\ y * (M * W) \in Int
      BY SMT
    <3>3. x * M = e * M + y * (M * W)
      BY <2>8, <3>1
    <3>4. QED
      BY <2>8, <3>2, <3>3
  <2>10. (m + 1) * w = m * w + w
    BY <1>a, <2>1
  <2>11. QED
    BY <2>5, <2>6, <2>7, <2>9, <2>10
<1>3. \A m \in Nat : m \in S
  <2> HIDE DEF S
  <2>1. QED
    BY <1>1, <1>2, Induction
<1>4. n * w \in Nat /\ n * w \in 0 .. 2 * Bits + 1
  <2>1. n * w \in Nat
    BY SMT
  <2>2. QED
    BY <1>w, <2>1, Two
<1>5. v \div 2^(n * w) \in Nat /\ 2^(n * w) \in Nat
  <2>1. PICK m \in Nat : m = 2^(n * w) /\ m >= 1
    BY <1>4, Power
  <2>2. m > 0
    BY <2>1
  <2>3. QED
    BY <2>1, <2>2, Division
<1>6. Low(g, w, n) \in Int
  <2>1. ASSUME NEW i \in 0 .. n - 1 PROVE g[i] \in Int
    <3>1. i \in Nat /\ i + 1 <= n
      OBVIOUS
    <3>2. QED
      BY <1>a, <1>w, <3>1
  <2>2. Short(w, n)
    <3>1. (n - 1) * w = n * w - w
      BY SMT
    <3>2. QED
      BY <1>4, <1>w, <3>1, Two DEF Short
  <2>3. QED
    BY <2>1, <2>2, WeighingInt
<1>7. n <= n
  OBVIOUS
<1>8. QED
  BY <1>3, <1>5, <1>6, <1>7

---------------------------------------------------------------------------
(* Recursive functions that stay in given sets, and digits that change.    *)

LEMMA WeightIn ==
    ASSUME NEW w \in Nat, NEW last \in Nat, Short(w, last + 1), NEW i \in 0 .. last
    PROVE  i * w \in Nat /\ i * w <= 2 * Bits + 1 /\ i * w \in 0 .. 2 * Bits + 1
           /\ 2^(i * w) \in Nat /\ Short(w, i + 1)
<1> DEFINE g == [j \in Nat |-> 0]
<1>1. last + 1 \in Nat /\ i \in 0 .. (last + 1) - 1 /\ \A j \in 0 .. (last + 1) - 1 : g[j] \in Int
  OBVIOUS
<1> HIDE DEF g
<1>2. i * w \in 0 .. 2 * Bits + 1 /\ 2^(i * w) \in Nat
  BY <1>1, WeighingInt
<1>3. (i + 1) - 1 = i
  OBVIOUS
<1>4. QED
  BY <1>2, <1>3, Two DEF Short

\* Every step leads from a set to the next; g takes the steps from b.
Closed(step, A, n) == \A i \in 0 .. n - 1 : \A a \in A[i] : step[i][a] \in A[i + 1]

Walks(g, step, A, b, n) ==
    /\ g = [i \in 0 .. n |-> g[i]] /\ g[0] = b
    /\ \A i \in 0 .. n : g[i] \in A[i]
    /\ \A i \in 0 .. n - 1 : g[i + 1] = step[i][g[i]]

\* A recursive function whose steps stay in given sets exists.
LEMMA Iterated ==
    ASSUME NEW n \in Nat, NEW A, NEW b, b \in A[0], NEW step, Closed(step, A, n)
    PROVE  \E g : Walks(g, step, A, b, n)
<1>c. \A i \in 0 .. n - 1 : \A a \in A[i] : step[i][a] \in A[i + 1]
  BY DEF Closed
<1> DEFINE Good(g, m) == /\ g = [i \in 0 .. m |-> g[i]] /\ g[0] = b
                         /\ \A i \in 0 .. m : g[i] \in A[i]
                         /\ \A i \in 0 .. m - 1 : g[i + 1] = step[i][g[i]]
           S == {m \in Nat : m <= n => \E g : Good(g, m)}
<1>1. 0 \in S
  <2> DEFINE g == [i \in 0 .. 0 |-> b]
  <2>1. g = [i \in 0 .. 0 |-> g[i]] /\ g[0] = b
    OBVIOUS
  <2> HIDE DEF g
  <2>2. Good(g, 0)
    BY <2>1
  <2>3. QED
    BY <2>2
<1>2. ASSUME NEW m \in Nat, m \in S PROVE m + 1 \in S
  <2>1. SUFFICES ASSUME m + 1 <= n PROVE \E g : Good(g, m + 1)
    BY m + 1 \in Nat
  <2>2. PICK g : Good(g, m)
    BY <1>2, <2>1
  <2> DEFINE h == [i \in 0 .. m + 1 |-> IF i = m + 1 THEN step[m][g[m]] ELSE g[i]]
  <2>3. \A i \in 0 .. m : h[i] = g[i]
    OBVIOUS
  <2>4. h[m + 1] = step[m][g[m]] /\ h = [i \in 0 .. m + 1 |-> h[i]]
    OBVIOUS
  <2> HIDE DEF h
  <2>5. h[0] = b /\ 0 \in 0 .. m /\ m \in 0 .. m /\ m \in 0 .. n - 1
    BY <2>1, <2>2, <2>3
  <2>6. ASSUME NEW i \in 0 .. m + 1 PROVE h[i] \in A[i]
    <3>1. CASE i = m + 1
      <4>1. g[m] \in A[m]
        BY <2>2, <2>5
      <4>2. step[m][g[m]] \in A[m + 1]
        BY <1>c, <2>5, <4>1
      <4>3. QED
        BY <2>4, <3>1, <4>2
    <3>2. CASE i # m + 1
      <4>1. i \in 0 .. m
        BY <3>2
      <4>2. QED
        BY <2>2, <2>3, <4>1
    <3>3. QED
      BY <3>1, <3>2
  <2>7. ASSUME NEW i \in 0 .. (m + 1) - 1 PROVE h[i + 1] = step[i][h[i]]
    <3>1. CASE i = m
      BY <2>3, <2>4, <2>5, <3>1
    <3>2. CASE i # m
      <4>1. i \in 0 .. m - 1 /\ i + 1 \in 0 .. m /\ i \in 0 .. m
        BY <3>2
      <4>2. g[i + 1] = step[i][g[i]] /\ h[i + 1] = g[i + 1] /\ h[i] = g[i]
        BY <2>2, <2>3, <4>1
      <4>3. QED
        BY <4>2
    <3>3. QED
      BY <3>1, <3>2
  <2>8. QED
    BY <2>4, <2>5, <2>6, <2>7
<1>3. \A m \in Nat : m \in S
  <2> HIDE DEF S
  <2>1. QED
    BY <1>1, <1>2, Induction
<1>4. n \in S /\ n <= n
  BY <1>3
<1>5. QED
  BY <1>4 DEF Walks

LEMMA Kept ==
    ASSUME NEW n \in Nat, NEW A, NEW D, D[0] \in A[0],
           \A i \in 0 .. n - 1 : D[i] \in A[i] => D[i + 1] \in A[i + 1]
    PROVE  \A i \in 0 .. n : D[i] \in A[i]
<1> DEFINE S == {i \in Nat : i <= n => D[i] \in A[i]}
<1>1. 0 \in S
  OBVIOUS
<1>2. ASSUME NEW i \in Nat, i \in S PROVE i + 1 \in S
  <2>1. SUFFICES ASSUME i + 1 <= n PROVE D[i + 1] \in A[i + 1]
    BY i + 1 \in Nat
  <2>2. i \in 0 .. n - 1 /\ i <= n
    BY <2>1
  <2>3. QED
    BY <1>2, <2>2
<1>3. \A i \in Nat : i \in S
  <2> HIDE DEF S
  <2>1. QED
    BY <1>1, <1>2, Induction
<1>4. QED
  BY <1>3

\* A sum with one term, and what one digit changes.
LEMMA SumSingle ==
    ASSUME NEW f \in [Nat -> Int], NEW n \in Nat, NEW j \in 0 .. n - 1,
           \A i \in 0 .. n - 1 : i # j => f[i] = 0
    PROVE  SumTo(f, n) = f[j]
<1> DEFINE S == {m \in Nat : m <= n => SumTo(f, m) = IF m <= j THEN 0 ELSE f[j]}
<1>1. 0 \in S
  BY SumZero
<1>2. ASSUME NEW m \in Nat, m \in S PROVE m + 1 \in S
  <2>1. SUFFICES ASSUME m + 1 <= n PROVE SumTo(f, m + 1) = IF m + 1 <= j THEN 0 ELSE f[j]
    BY m + 1 \in Nat
  <2>2. SumTo(f, m + 1) = SumTo(f, m) + f[m] /\ f[j] \in Int /\ f[m] \in Int
    BY SumStep
  <2>3. SumTo(f, m) = IF m <= j THEN 0 ELSE f[j]
    BY <1>2, <2>1
  <2>4. m # j => f[m] = 0
    BY <2>1
  <2>5. QED
    BY <2>2, <2>3, <2>4
<1>3. \A m \in Nat : m \in S
  <2> HIDE DEF S
  <2>1. QED
    BY <1>1, <1>2, Induction
<1>4. n \in S /\ n <= n /\ ~(n <= j)
  BY <1>3
<1>5. QED
  BY <1>4

LEMMA SumAdd ==
    ASSUME NEW f \in [Nat -> Int], NEW g \in [Nat -> Int], NEW h \in [Nat -> Int],
           NEW n \in Nat, \A i \in 0 .. n - 1 : h[i] = f[i] + g[i]
    PROVE  SumTo(h, n) = SumTo(f, n) + SumTo(g, n)
<1>1. PICK c \in Int : c = 1
  BY 1 \in Int
<1>2. \A i \in 0 .. n - 1 : h[i] = f[i] + c * g[i]
  BY <1>1
<1>3. SumTo(h, n) = SumTo(f, n) + c * SumTo(g, n)
  BY <1>2, SumLinear
<1>4. SumTo(g, n) \in Int
  BY SumInt
<1>5. QED
  BY <1>1, <1>3, <1>4

LEMMA SumChange ==
    ASSUME NEW u \in [Nat -> Int], NEW v \in [Nat -> Int], NEW n \in Nat,
           NEW j \in 0 .. n - 1, \A i \in 0 .. n - 1 : i # j => v[i] = u[i]
    PROVE  SumTo(v, n) = SumTo(u, n) + (v[j] - u[j])
<1>1. PICK c \in Int : c = v[j] - u[j]
  OBVIOUS
<1> DEFINE o == [i \in Nat |-> IF i = j THEN c ELSE 0]
<1>2. o \in [Nat -> Int] /\ o[j] = c /\ \A i \in 0 .. n - 1 : i # j => o[i] = 0
  OBVIOUS
<1>3. \A i \in 0 .. n - 1 : v[i] = u[i] + o[i]
  BY <1>1
<1> HIDE DEF o
<1>4. SumTo(v, n) = SumTo(u, n) + SumTo(o, n)
  BY <1>2, <1>3, SumAdd
<1>5. SumTo(o, n) = c
  BY <1>2, SumSingle
<1>6. QED
  BY <1>1, <1>4, <1>5

\* What a change of the digit j makes.
Change(g, h, w, j) == (h[j] - g[j]) * 2^(j * w)

LEMMA LowChange ==
    ASSUME NEW w \in Nat, NEW n \in Nat, Short(w, n),
           NEW g, \A i \in 0 .. n - 1 : g[i] \in Int,
           NEW h, NEW j \in 0 .. n - 1, \A i \in 0 .. n - 1 : i # j => h[i] = g[i],
           h[j] \in Int
    PROVE  /\ Low(g, w, n) \in Int /\ Low(h, w, n) \in Int /\ 2^(j * w) \in Nat
           /\ Low(h, w, n) = Low(g, w, n) + Change(g, h, w, j)
<1>1. \A i \in 0 .. n - 1 : h[i] \in Int
  OBVIOUS
<1>2. /\ Weighing(g, w, n) \in [Nat -> Int] /\ Low(g, w, n) \in Int
      /\ \A i \in 0 .. n - 1 : i * w \in 0 .. 2 * Bits + 1 /\ 2^(i * w) \in Nat
  BY WeighingInt
<1>3. Weighing(h, w, n) \in [Nat -> Int] /\ Low(h, w, n) \in Int
  BY <1>1, WeighingInt
<1>4. PICK m \in Nat : m = 2^(j * w)
  BY <1>2
<1>5. ASSUME NEW i \in 0 .. n - 1
      PROVE  Weighing(h, w, n)[i] = h[i] * 2^(i * w) /\ Weighing(g, w, n)[i] = g[i] * 2^(i * w)
  BY DEF Weighing
<1>6. ASSUME NEW i \in 0 .. n - 1, i # j
      PROVE  Weighing(h, w, n)[i] = Weighing(g, w, n)[i]
  <2>1. h[i] = g[i]
    BY <1>6
  <2>2. QED
    BY <1>5, <2>1
<1>7. PICK u \in [Nat -> Int], v \in [Nat -> Int] :
         u = Weighing(g, w, n) /\ v = Weighing(h, w, n)
  BY <1>2, <1>3
<1>8. SumTo(v, n) = SumTo(u, n) + (v[j] - u[j])
  BY <1>6, <1>7, SumChange
<1>9. PICK p \in Int, q \in Int : p = h[j] /\ q = g[j]
  OBVIOUS
<1>10. p * m - q * m = (p - q) * m
  BY SMT
<1>11. v[j] = p * m /\ u[j] = q * m
  BY <1>4, <1>5, <1>7, <1>9
<1>12. QED
  BY <1>2, <1>3, <1>4, <1>7, <1>8, <1>9, <1>10, <1>11 DEF Low, Change

---------------------------------------------------------------------------
(* wnaf_fixed: one window after the other.                                 *)

LEMMA WnafSizeRange ==
    ASSUME NEW w \in 1 .. Bits
    PROVE  /\ WnafSize(w) \in 1 .. Bits /\ WnafSize(w) * w >= Bits
           /\ WnafSize(w) * w <= Bits + w - 1 /\ (WnafSize(w) - 1) * w \in 0 .. Bits - 1
           /\ Bits - (WnafSize(w) - 1) * w \in 1 .. w
<1>0. Bits \in Nat /\ Bits > 1
  BY Two
<1>1. PICK n \in Nat : n = WnafSize(w) /\ n * w <= Bits + w - 1 /\ Bits + w - 1 < n * w + w
  <2>1. PICK b \in Nat : b = Bits + w - 1
    BY <1>0
  <2>2. /\ b \div w \in Nat /\ b % w \in 0 .. w - 1
        /\ b = (b \div w) * w + (b % w)
    <3>1. w \in Nat /\ w > 0
      OBVIOUS
    <3>2. QED
      BY <3>1, Division
  <2>3. PICK n \in Nat, r0 \in 0 .. w - 1 : n = b \div w /\ b = n * w + r0
    BY <2>2
  <2>4. n * w \in Nat
    BY SMT
  <2>5. QED
    BY <2>1, <2>3, <2>4 DEF WnafSize
<1>2. n * w \in Nat /\ (n - 1) * w = n * w - w
  BY SMT
<1>3. n >= 1
  <2>1. n = 0 => n * w = 0
    BY SMT
  <2>2. QED
    BY <1>0, <1>1, <2>1
<1>4. n <= Bits
  <2>1. SUFFICES ASSUME n >= Bits + 1 PROVE FALSE
    BY <1>0
  <2>2. PICK d \in Nat : n = Bits + 1 + d
    BY <1>0, <2>1
  <2>3. n * w = Bits * w + w + d * w /\ d * w \in Nat
    BY <1>0, <2>2, SMT
  <2>4. Bits * w >= Bits
    <3>1. PICK e \in Nat : w = 1 + e
      <4>1. w - 1 \in Nat /\ w = 1 + (w - 1)
        OBVIOUS
      <4>2. QED
        BY <4>1
    <3>2. Bits * w = Bits + Bits * e /\ Bits * e \in Nat
      BY <1>0, <3>1, SMT
    <3>3. QED
      BY <1>0, <3>2
  <2>5. QED
    BY <1>0, <1>1, <2>3, <2>4
<1>5. QED
  BY <1>0, <1>1, <1>2, <1>3, <1>4

LEMMA OddEven ==
    ASSUME NEW w \in 1 .. 2 * Bits + 1
    PROVE  /\ 2^w \in Nat /\ 2^w >= 2
           /\ \A x \in Int : /\ (x - 2^w) % 2 = x % 2 /\ (x + 2^w) % 2 = x % 2
                             /\ x % 2 \in {0, 1}
<1>1. PICK k \in Nat : 2^w = 2 * k /\ k >= 1
  BY PowerEven
<1>2. ASSUME NEW x \in Int
      PROVE  (x - 2 * k) % 2 = x % 2 /\ (x + 2 * k) % 2 = x % 2 /\ x % 2 \in {0, 1}
  OBVIOUS
<1>3. QED
  BY <1>1, <1>2

\* Whole numbers up to last; g and h differ at j only.
Whole(g, last) == \A i \in 0 .. last : g[i] \in Int

SameBut(g, h, last, j) == h[j] \in Int /\ \A i \in 0 .. last : i # j => h[i] = g[i]

LEMMA DigitChange ==
    ASSUME NEW w \in Nat, NEW last \in Nat, Short(w, last + 1),
           NEW g, Whole(g, last), NEW h, NEW j \in 0 .. last, SameBut(g, h, last, j)
    PROVE  /\ Low(g, w, last + 1) \in Int /\ Low(h, w, last + 1) \in Int
           /\ 2^(j * w) \in Nat
           /\ Low(h, w, last + 1) = Low(g, w, last + 1) + Change(g, h, w, j)
<1>1. PICK n \in Nat : n = last + 1
  OBVIOUS
<1>2. n - 1 = last /\ 0 .. n - 1 = 0 .. last
  BY <1>1
<1>3. Short(w, n)
  BY <1>1
<1>4. /\ \A i \in 0 .. n - 1 : g[i] \in Int
      /\ \A i \in 0 .. n - 1 : i # j => h[i] = g[i]
      /\ h[j] \in Int /\ j \in 0 .. n - 1
  BY <1>2 DEF Whole, SameBut
<1>5. /\ Low(g, w, n) \in Int /\ Low(h, w, n) \in Int /\ 2^(j * w) \in Nat
      /\ Low(h, w, n) = Low(g, w, n) + Change(g, h, w, j)
  BY <1>3, <1>4, LowChange
<1>6. QED
  BY <1>1, <1>5

\* The digits after window number at has been taken into them.
FixedNext(d, at, window, w) ==
    LET even == window % 2 = 0
        low  == IF even THEN d[at - 1] - 2^w ELSE d[at - 1]
        new  == [d EXCEPT ![at - 1] = low, ![at] = window + (IF even THEN 1 ELSE 0)]
    IN  IF \/ at >= 2 /\ low = 1 /\ d[at - 2] < 0
           \/ at >= 2 /\ low = -1 /\ d[at - 2] > 0
        THEN [new EXCEPT ![at - 1] = 0, ![at - 2] = @ + low * 2^w]
        ELSE new

\* What the digits up to position at are: they say the same as value.
FixedRight(d, last, at, w, value) ==
    /\ d \in [0 .. last -> Int]
    /\ \A i \in at + 1 .. last : d[i] = 0
    /\ d[at] % 2 = 1 /\ d[at] > 0 /\ d[at] < 2^w
    /\ \A i \in 0 .. at - 1 : Fit(d[i], w + 1)
    /\ Low(d, w, last + 1) = value

\* An even window borrows from the one below, which stays in range.
LEMMA FixedNextRight ==
    ASSUME NEW w \in 1 .. Bits, NEW last \in Nat, Short(w, last + 1),
           NEW at \in 1 .. last, NEW d, NEW value \in Int,
           FixedRight(d, last, at - 1, w, value), NEW window \in Nat, window < 2^w
    PROVE  /\ 2^(at * w) \in Nat
           /\ FixedRight(FixedNext(d, at, window, w), last, at, w,
                         value + window * 2^(at * w))
<1>0. /\ Bits \in Nat /\ w \in 1 .. 2 * Bits + 1 /\ at \in 0 .. last /\ at - 1 \in 0 .. last
      /\ (last + 1) - 1 = last /\ last + 1 \in Nat /\ w \in Nat /\ (w + 1) - 1 = w
      /\ Short(w, last + 1)
  BY Two
<1>s. last * w <= 2 * Bits + 1
  BY <1>0 DEF Short
<1>1. PICK m \in Nat : /\ m = 2^w /\ m >= 2
                       /\ \A x \in Int : /\ (x - m) % 2 = x % 2 /\ (x + m) % 2 = x % 2
                                         /\ x % 2 \in {0, 1}
  BY <1>0, OddEven
<1>2. /\ d \in [0 .. last -> Int]
      /\ \A i \in (at - 1) + 1 .. last : d[i] = 0
      /\ d[at - 1] % 2 = 1 /\ d[at - 1] > 0 /\ d[at - 1] < m
      /\ \A i \in 0 .. (at - 1) - 1 : Fit(d[i], w + 1)
      /\ Low(d, w, last + 1) = value
  BY <1>1 DEF FixedRight
<1>f. ASSUME NEW x \in Int, x = 0 \/ (x % 2 = 1 /\ x < m /\ -x < m) PROVE Fit(x, w + 1)
  BY <1>0, <1>1, <1>f DEF Fit
<1>g. ASSUME NEW i \in 0 .. (at - 1) - 1
      PROVE  d[i] \in Int /\ (d[i] = 0 \/ (d[i] % 2 = 1 /\ d[i] < m /\ -d[i] < m))
  BY <1>0, <1>1, <1>2 DEF Fit
<1>h. \A i \in 0 .. last : i \in 0 .. (last + 1) - 1
  BY <1>0
<1>3. PICK e \in {0, 1} : /\ window % 2 = 0 => e = 1
                          /\ window % 2 # 0 => e = 0
  BY 0 \in {0, 1}, 1 \in {0, 1}
<1>4. PICK low \in Int : low = d[at - 1] - e * m
  <2>1. d[at - 1] \in Int
    BY <1>0, <1>2
  <2>2. QED
    BY <1>3, <2>1
<1>5. PICK up \in Int : up = window + e
  BY <1>3
<1>6. low % 2 = 1 /\ low < m /\ -low < m
  <2>1. d[at - 1] \in Int
    BY <1>0, <1>2
  <2>2. CASE e = 0
    BY <1>2, <1>4, <2>1, <2>2
  <2>3. CASE e = 1
    <3>1. PICK x \in Int : x = d[at - 1] /\ x % 2 = 1 /\ x > 0 /\ x < m
      BY <1>2, <2>1
    <3>2. low = x - m /\ (x - m) % 2 = 1
      BY <1>1, <1>4, <2>3, <3>1
    <3>3. QED
      BY <3>1, <3>2
  <2>4. QED
    BY <2>2, <2>3
<1>7. up % 2 = 1 /\ up > 0 /\ up < m
  <2>1. window % 2 \in {0, 1}
    OBVIOUS
  <2>2. CASE window % 2 = 0
    <3>1. m % 2 = 0
      <4>1. 0 \in Int /\ 0 % 2 = 0 /\ 0 + m = m
        BY <1>1
      <4>2. (0 + m) % 2 = 0 % 2
        BY <1>1, <4>1
      <4>3. QED
        BY <4>1, <4>2
    <3>2. window # m - 1
      BY <2>2, <3>1
    <3>3. up = window + 1
      BY <1>3, <1>5, <2>2
    <3>4. window < m
      BY <1>1
    <3>5. QED
      BY <2>2, <3>2, <3>3, <3>4
  <2>3. CASE window % 2 = 1
    <3>1. up = window /\ window > 0
      BY <1>3, <1>5, <2>3
    <3>2. QED
      BY <1>1, <2>3, <3>1
  <2>4. QED
    BY <2>1, <2>2, <2>3
<1> DEFINE new == [d EXCEPT ![at - 1] = low, ![at] = up]
           folds == at >= 2 /\ ((low = 1 /\ d[at - 2] < 0) \/ (low = -1 /\ d[at - 2] > 0))
<1>8. FixedNext(d, at, window, w) =
        IF folds THEN [new EXCEPT ![at - 1] = 0, ![at - 2] = @ + low * 2^w] ELSE new
  <2>0. d[at - 1] \in Int
    BY <1>0, <1>2
  <2>1. window % 2 = 0 => low = d[at - 1] - 2^w /\ up = window + 1
    BY <1>1, <1>3, <1>4, <1>5, <2>0
  <2>2. window % 2 # 0 => low = d[at - 1] /\ up = window + 0
    BY <1>3, <1>4, <1>5, <2>0
  <2>3. QED
    BY <2>1, <2>2 DEF FixedNext
<1>9. PICK M \in Nat : M = 2^((at - 1) * w) /\ 2^(at * w) = M * m
  <2>1. at * w = (at - 1) * w + w /\ (at - 1) * w \in Nat /\ at * w <= last * w /\ last * w <= 2 * Bits + 1
    <3>1. PICK c \in Nat : last = at + c
      <4>1. last - at \in Nat /\ last = at + (last - at)
        OBVIOUS
      <4>2. QED
        BY <4>1
    <3>2. last * w = at * w + c * w /\ c * w \in Nat /\ at * w \in Nat
      BY <3>1, SMT
    <3>3. PICK q \in Nat : q = at - 1
      BY <1>0
    <3>4. q * w \in Nat /\ (q + 1) * w = q * w + w
      BY SMT
    <3>5. QED
      BY <1>s, <3>2, <3>3, <3>4
  <2>2. (at - 1) * w \in 0 .. 2 * Bits + 1 /\ (at - 1) * w + w <= 2 * Bits + 1
    BY <1>0, <2>1
  <2>3. 2^((at - 1) * w) \in Nat /\ 2^((at - 1) * w + w) = 2^((at - 1) * w) * 2^w
    BY <2>1, <2>2, Power, PowerSum
  <2>4. QED
    BY <1>1, <2>1, <2>3
<1>10. /\ new \in [0 .. last -> Int] /\ new[at] = up /\ new[at - 1] = low
       /\ \A i \in 0 .. last : i # at /\ i # at - 1 => new[i] = d[i]
  <2>1. at # at - 1
    BY <1>0
  <2>2. QED
    BY <1>0, <1>2, <2>1
<1>11. Low(new, w, last + 1) = value + window * (M * m)
  <2> DEFINE mid == [d EXCEPT ![at - 1] = low]
  <2>1. /\ mid \in [0 .. last -> Int] /\ mid[at - 1] = low
        /\ \A i \in 0 .. last : i # at - 1 => mid[i] = d[i]
    BY <1>0, <1>2
  <2> HIDE DEF mid, new
  <2>2. at - 1 \in 0 .. (last + 1) - 1 /\ at \in 0 .. (last + 1) - 1
    BY <1>0
  <2>3. Low(mid, w, last + 1) = Low(d, w, last + 1) + Change(d, mid, w, at - 1)
        /\ Low(mid, w, last + 1) \in Int
    <3>1. Whole(d, last) /\ SameBut(d, mid, last, at - 1)
      BY <1>0, <1>2, <2>1 DEF Whole, SameBut
    <3>2. QED
      BY <1>0, <3>1, DigitChange
  <2>4. Low(new, w, last + 1) = Low(mid, w, last + 1) + Change(mid, new, w, at)
    <3>1. Whole(mid, last) /\ SameBut(mid, new, last, at)
      BY <1>0, <1>10, <2>1 DEF Whole, SameBut
    <3>2. QED
      BY <1>0, <3>1, DigitChange
  <2>5. mid[at] = 0
    <3>1. at \in (at - 1) + 1 .. last /\ at # at - 1
      BY <1>0
    <3>2. QED
      BY <1>0, <1>2, <2>1, <3>1
  <2>6. (mid[at - 1] - d[at - 1]) * M = -(e * (m * M))
    <3>1. PICK x \in Int : x = d[at - 1]
      BY <1>0, <1>2
    <3>2. ((x - e * m) - x) * M = -(e * (m * M))
      <4>1. CASE e = 0
        BY <4>1
      <4>2. CASE e = 1
        <5>1. (x - m) - x = -m /\ (-m) * M = -(m * M)
          BY SMT
        <5>2. e * m = m /\ e * (m * M) = m * M
          BY <4>2, SMT
        <5>3. QED
          BY <5>1, <5>2
      <4>3. QED
        BY <4>1, <4>2
    <3>3. QED
      BY <1>4, <2>1, <3>1, <3>2
  <2>7. (window + e) * (M * m) = window * (M * m) + e * (m * M)
    <3>1. m * M = M * m /\ M * m \in Nat
      BY SMT
    <3>2. PICK q \in Nat : q = M * m
      BY <3>1
    <3>3. (window + e) * q = window * q + e * q
      BY SMT
    <3>4. QED
      BY <3>1, <3>2, <3>3
  <2>8. e * (m * M) \in Int /\ window * (M * m) \in Int /\ up - 0 = window + e
    <3>1. PICK q \in Nat : q = m * M /\ q = M * m
      BY SMT
    <3>2. e * q \in Int /\ window * q \in Int
      BY SMT
    <3>3. QED
      BY <1>5, <3>1, <3>2
  <2>9. Low(mid, w, last + 1) = value + (-(e * (m * M)))
    BY <1>2, <1>9, <2>3, <2>6 DEF Change
  <2>10. Low(new, w, last + 1) = Low(mid, w, last + 1) + (window * (M * m) + e * (m * M))
    <3>1. Change(mid, new, w, at) = (up - 0) * (M * m)
      BY <1>9, <1>10, <2>5 DEF Change
    <3>2. QED
      BY <2>4, <2>7, <2>8, <3>1
  <2>11. QED
    BY <2>8, <2>9, <2>10
<1>12. M * m \in Nat /\ window * (M * m) \in Int
  <2>1. PICK q \in Nat : q = M * m
    BY SMT
  <2>2. QED
    BY <2>1, SMT
<1> HIDE DEF new
<1>13. CASE ~folds
  <2>1. \A i \in at + 1 .. last : new[i] = 0
    <3>1. ASSUME NEW i \in at + 1 .. last PROVE new[i] = 0
      <4>1. i \in (at - 1) + 1 .. last /\ i \in 0 .. last /\ i # at /\ i # at - 1
        BY <1>0
      <4>2. QED
        BY <1>2, <1>10, <4>1
    <3>2. QED
      BY <3>1
  <2>2. \A i \in 0 .. at - 1 : Fit(new[i], w + 1)
    <3>1. ASSUME NEW i \in 0 .. at - 1 PROVE Fit(new[i], w + 1)
      <4>1. CASE i = at - 1
        BY <1>6, <1>10, <1>f, <4>1
      <4>2. CASE i # at - 1
        <5>1. i \in 0 .. (at - 1) - 1 /\ i \in 0 .. last /\ i # at
          BY <1>0, <4>2
        <5>2. QED
          BY <1>2, <1>10, <4>2, <5>1
      <4>3. QED
        BY <4>1, <4>2
    <3>2. QED
      BY <3>1
  <2>3. FixedNext(d, at, window, w) = new
    BY <1>8, <1>13
  <2>4. QED
    BY <1>1, <1>7, <1>9, <1>10, <1>11, <1>12, <2>1, <2>2, <2>3 DEF FixedRight
<1>14. CASE folds
  <2>0. at >= 2 /\ at - 2 \in 0 .. last /\ at - 2 \in 0 .. (at - 1) - 1
        /\ at - 2 # at - 1 /\ at - 2 # at /\ at # at - 1
    BY <1>0, <1>14
  <2>1. PICK u \in Int : u = d[at - 2] /\ u = new[at - 2]
    BY <1>2, <1>10, <2>0
  <2>2. (low = 1 /\ u < 0) \/ (low = -1 /\ u > 0)
    BY <1>14, <2>1
  <2>3. u % 2 = 1 /\ u < m /\ -u < m
    <3>1. u \in Int /\ (u = 0 \/ (u % 2 = 1 /\ u < m /\ -u < m))
      BY <1>g, <2>0, <2>1
    <3>2. QED
      BY <2>2, <3>1
  <2>4. PICK v \in Int : v = u + low * m /\ v % 2 = 1 /\ v < m /\ -v < m
    <3>1. CASE low = 1
      <4>1. low * m = m /\ u + m \in Int /\ (u + m) % 2 = 1
        BY <1>1, <2>3, <3>1
      <4>2. QED
        BY <2>2, <2>3, <3>1, <4>1
    <3>2. CASE low = -1
      <4>1. low * m = -m /\ u - m \in Int /\ (u - m) % 2 = 1
        BY <1>1, <2>3, <3>2
      <4>2. QED
        BY <2>2, <2>3, <3>2, <4>1
    <3>3. QED
      BY <2>2, <3>1, <3>2
  <2> DEFINE mid == [new EXCEPT ![at - 1] = 0]
             last2 == [new EXCEPT ![at - 1] = 0, ![at - 2] = v]
  <2>5. /\ mid \in [0 .. last -> Int] /\ mid[at - 1] = 0 /\ mid[at - 2] = u
        /\ \A i \in 0 .. last : i # at - 1 => mid[i] = new[i]
    BY <1>0, <1>10, <2>0, <2>1
  <2>6. /\ last2 \in [0 .. last -> Int] /\ last2[at - 1] = 0 /\ last2[at - 2] = v
        /\ \A i \in 0 .. last : i # at - 2 => last2[i] = mid[i]
    BY <1>0, <1>10, <2>0
  <2>7. FixedNext(d, at, window, w) = last2
    <3>1. FixedNext(d, at, window, w)
            = [new EXCEPT ![at - 1] = 0, ![at - 2] = @ + low * 2^w]
      BY <1>8, <1>14
    <3>2. v = u + low * 2^w
      BY <1>1, <2>4
    <3>3. QED
      BY <2>1, <3>1, <3>2
  <2> HIDE DEF mid, last2
  <2>8. PICK K \in Nat : K = 2^((at - 2) * w) /\ M = K * m
    <3>1. PICK q \in Nat : q = at - 2
      BY <2>0
    <3>2. q * w \in Nat /\ (q + 1) * w = q * w + w
      BY SMT
    <3>3. at - 1 = q + 1
      BY <1>0, <3>1
    <3>4. (at - 1) * w \in 0 .. 2 * Bits + 1
      <4>1. PICK c \in Nat : last = (at - 1) + c
        <5>1. last - (at - 1) \in Nat /\ last = (at - 1) + (last - (at - 1))
          BY <1>0
        <5>2. QED
          BY <5>1
      <4>2. PICK z \in Nat : z = at - 1
        BY <1>0
      <4>3. (z + c) * w = z * w + c * w /\ c * w \in Nat /\ z * w \in Nat
        BY SMT
      <4>4. QED
        BY <1>0, <1>s, <4>1, <4>2, <4>3
    <3>5. q * w + w <= 2 * Bits + 1 /\ q * w \in 0 .. 2 * Bits + 1
      BY <1>0, <3>2, <3>3, <3>4
    <3>6. 2^(q * w) \in Nat /\ 2^(q * w + w) = 2^(q * w) * 2^w
      BY <3>2, <3>5, Power, PowerSum
    <3>7. QED
      BY <1>1, <1>9, <3>1, <3>2, <3>3, <3>6
  <2>9. Low(mid, w, last + 1) = Low(new, w, last + 1) + Change(new, mid, w, at - 1)
        /\ Low(mid, w, last + 1) \in Int /\ Low(new, w, last + 1) \in Int
    <3>1. Whole(new, last) /\ SameBut(new, mid, last, at - 1)
      BY <1>0, <1>10, <2>5 DEF Whole, SameBut
    <3>2. QED
      BY <1>0, <3>1, DigitChange
  <2>10. Low(last2, w, last + 1) = Low(mid, w, last + 1) + Change(mid, last2, w, at - 2)
    <3>1. Whole(mid, last) /\ SameBut(mid, last2, last, at - 2)
      BY <1>0, <2>5, <2>6, <2>0 DEF Whole, SameBut
    <3>2. QED
      BY <1>0, <2>0, <3>1, DigitChange
  <2>11. (0 - low) * M + (v - u) * K = 0 /\ (0 - low) * M \in Int /\ (v - u) * K \in Int
    <3>1. v - u = low * m
      BY <2>4
    <3>2. CASE low = 1
      <4>1. v - u = m /\ (0 - low) * M = -M /\ m * K = K * m
        BY <3>1, <3>2, SMT
      <4>2. QED
        BY <2>8, <4>1
    <3>3. CASE low = -1
      <4>1. v - u = -m /\ (0 - low) * M = M /\ (-m) * K = -(K * m)
        BY <3>1, <3>3, SMT
      <4>2. QED
        BY <2>8, <4>1
    <3>4. QED
      BY <2>2, <3>2, <3>3
  <2>12. Low(last2, w, last + 1) = value + window * (M * m)
    <3>1. Change(new, mid, w, at - 1) = (0 - low) * M
      BY <1>9, <1>10, <2>5 DEF Change
    <3>2. Change(mid, last2, w, at - 2) = (v - u) * K
      BY <2>5, <2>6, <2>8 DEF Change
    <3>3. QED
      BY <1>11, <1>12, <2>9, <2>10, <2>11, <3>1, <3>2
  <2>13. \A i \in at + 1 .. last : last2[i] = 0
    <3>1. ASSUME NEW i \in at + 1 .. last PROVE last2[i] = 0
      <4>1. i \in (at - 1) + 1 .. last /\ i \in 0 .. last /\ i # at /\ i # at - 1 /\ i # at - 2
        BY <1>0
      <4>2. QED
        BY <1>2, <1>10, <2>5, <2>6, <4>1
    <3>2. QED
      BY <3>1
  <2>14. \A i \in 0 .. at - 1 : Fit(last2[i], w + 1)
    <3>1. ASSUME NEW i \in 0 .. at - 1 PROVE Fit(last2[i], w + 1)
      <4>1. CASE i = at - 1
        <5>1. last2[i] = 0
          BY <2>6, <4>1
        <5>2. QED
          BY <1>f, <5>1, 0 \in Int
      <4>2. CASE i = at - 2
        <5>1. last2[i] = v
          BY <2>6, <4>2
        <5>2. QED
          BY <1>f, <2>4, <5>1
      <4>3. CASE i # at - 1 /\ i # at - 2
        <5>1. i \in 0 .. (at - 1) - 1 /\ i \in 0 .. last /\ i # at
          BY <1>0, <4>3
        <5>2. last2[i] = d[i]
          BY <1>10, <2>5, <2>6, <4>3, <5>1
        <5>3. QED
          BY <1>2, <5>1, <5>2
      <4>4. QED
        BY <4>1, <4>2, <4>3
    <3>2. QED
      BY <3>1
  <2>15. last2[at] = up
    BY <1>0, <1>10, <2>0, <2>5, <2>6
  <2>16. QED
    BY <1>1, <1>7, <1>9, <1>12, <2>6, <2>7, <2>12, <2>13, <2>14, <2>15 DEF FixedRight
<1>15. QED
  BY <1>13, <1>14

\* The windows wnaf_fixed takes.
FixedWindow(s, w, at) ==
    GetBits(s, at * w, IF at = WnafSize(w) - 1
                        THEN Bits - (WnafSize(w) - 1) * w ELSE w)

Windows(s, w) == [i \in Nat |-> FixedWindow(s, w, i)]

LEMMA FixedWindows ==
    ASSUME NEW s \in Scalars, NEW w \in 1 .. Bits, NEW last, last = WnafSize(w) - 1
    PROVE  /\ \A i \in 0 .. last : /\ FixedWindow(s, w, i) \in Nat
                                   /\ FixedWindow(s, w, i) < 2^w
           /\ Low(Windows(s, w), w, last + 1) = s
           /\ last \in Nat /\ Short(w, last + 1) /\ last * w + w <= 2 * Bits + 1
<1>0. /\ Bits \in Nat /\ Bits > 1 /\ w \in 0 .. 2 * Bits + 1 /\ s \in Nat /\ s < 2^Bits
      /\ w \in Nat
  BY Two, Order, BitsAssumption
<1>1. last \in Nat /\ last * w \in 0 .. Bits - 1 /\ Bits - last * w \in 1 .. w
  <2>1. WnafSize(w) \in 1 .. Bits
    BY WnafSizeRange
  <2>2. QED
    BY <2>1, WnafSizeRange
<1>2. Short(w, last + 1) /\ last * w + w <= 2 * Bits + 1
  <2>1. (last + 1) - 1 = last
    BY <1>1
  <2>2. last * w <= 2 * Bits + 1 /\ last * w + w <= 2 * Bits + 1
    BY <1>0, <1>1
  <2>3. QED
    BY <2>1, <2>2 DEF Short
<1>3. ASSUME NEW i \in 0 .. last
      PROVE  FixedWindow(s, w, i) \in Nat /\ FixedWindow(s, w, i) < 2^w
  <2>1. i * w \in Nat /\ i * w <= last * w
    <3>1. PICK c \in Nat : last = i + c
      <4>1. last - i \in Nat /\ last = i + (last - i)
        BY <1>1
      <4>2. QED
        BY <4>1
    <3>2. (i + c) * w = i * w + c * w /\ c * w \in Nat /\ i * w \in Nat
      BY <1>0, SMT
    <3>3. QED
      BY <1>1, <3>1, <3>2
  <2>2. PICK now \in 1 .. w : now = IF i = last THEN Bits - last * w ELSE w
    BY <1>0, <1>1
  <2>3. FixedWindow(s, w, i) = GetBits(s, i * w, now)
    BY <2>2 DEF FixedWindow
  <2>4. GetBits(s, i * w, now) \in 0 .. 2^now - 1
    <3>1. i * w + now <= 2 * Bits + 1 /\ now \in Nat
      BY <1>0, <1>1, <2>1
    <3>2. QED
      BY <1>0, <2>1, <3>1, GetBitsSplit
  <2>5. 2^now <= 2^w /\ 2^now \in Nat /\ 2^w \in Nat
    <3>1. now \in Nat /\ now <= w /\ w <= 2 * Bits + 1
      BY <1>0
    <3>2. QED
      BY <1>0, <3>1, PowerMonotone
  <2>6. QED
    BY <2>3, <2>4, <2>5
<1>4. Low(Windows(s, w), w, last + 1) = s
  <2> DEFINE g == Windows(s, w)
  <2>1. \A i \in 0 .. last : g[i] = FixedWindow(s, w, i) /\ g[i] \in Int
    BY <1>1, <1>3 DEF Windows
  <2> HIDE DEF g
  <2>2. \A i \in 0 .. last - 1 : g[i] = GetBits(s, i * w, w)
    <3>1. ASSUME NEW i \in 0 .. last - 1 PROVE g[i] = GetBits(s, i * w, w)
      <4>1. i \in 0 .. last /\ i # last
        BY <1>1
      <4>2. QED
        BY <2>1, <4>1 DEF FixedWindow
    <3>2. QED
      BY <3>1
  <2>3. last * w <= 2 * Bits + 1
    BY <1>0, <1>1
  <2>a. WindowsOf(g, s, w, last)
    BY <2>2, <2>3 DEF WindowsOf
  <2>4. /\ s \div 2^(last * w) \in Nat /\ 2^(last * w) \in Nat
        /\ s = Low(g, w, last) + (s \div 2^(last * w)) * 2^(last * w)
        /\ Low(g, w, last) \in Int
    BY <1>0, <1>1, <2>a, WindowsSum
  <2>5. g[last] = s \div 2^(last * w)
    <3>1. last \in 0 .. last
      BY <1>1
    <3>2. g[last] = GetBits(s, last * w, Bits - last * w)
      BY <2>1, <3>1 DEF FixedWindow
    <3>3. PICK m \in Nat : m = 2^(Bits - last * w) /\ m >= 1
      <4>1. Bits - last * w \in 0 .. 2 * Bits + 1
        BY <1>0, <1>1
      <4>2. QED
        BY <4>1, Power
    <3>4. s \div 2^(last * w) < m
      <4>1. last * w + (Bits - last * w) = Bits /\ last * w \in Nat /\ Bits - last * w \in Nat
            /\ Bits <= 2 * Bits + 1
        BY <1>0, <1>1
      <4>2. QED
        BY <1>0, <3>3, <4>1, SmallQuotient
    <3>5. PICK q \in Nat : q = s \div 2^(last * w)
      BY <2>4
    <3>6. q % m = q
      <4>1. q = 0 * m + q /\ q \in 0 .. m - 1 /\ m > 0
        BY <3>3, <3>4, <3>5
      <4>2. (0 * m + q) % m = q
        BY <4>1, DivUnique, 0 \in Int
      <4>3. QED
        BY <4>1, <4>2
    <3>7. QED
      BY <3>2, <3>3, <3>5, <3>6 DEF GetBits
  <2>6. Low(g, w, last + 1) = Low(g, w, last) + g[last] * 2^(last * w)
    BY <1>0, <1>1, <2>1, <2>3, LowStep
  <2>7. QED
    BY <2>4, <2>5, <2>6 DEF g
<1>5. QED
  BY <1>1, <1>2, <1>3, <1>4

LEMMA WnafFixedZero ==
    ASSUME NEW w \in 1 .. Bits, NEW last, last = WnafSize(w) - 1
    PROVE  LET D == WnafFixed(0, w)
           IN  /\ D.skew = 0 /\ D.digit \in [0 .. last -> Int]
               /\ \A i \in 0 .. last : Fit(D.digit[i], w + 1)
               /\ Low(D.digit, w, last + 1) = 0
<1>0. last \in Nat /\ w \in Nat
  BY WnafSizeRange
<1> DEFINE d == [i \in 0 .. last |-> 0]
<1>1. WnafFixed(0, w).skew = 0 /\ WnafFixed(0, w).digit = d
  BY DEF WnafFixed
<1>2. d \in [0 .. last -> Int] /\ \A i \in 0 .. last : d[i] = 0
  OBVIOUS
<1> HIDE DEF d
<1>3. Low(d, w, last + 1) = 0
  <2>1. Short(w, last + 1)
    <3>1. 0 \in Scalars
      BY Order
    <3>2. QED
      BY <3>1, FixedWindows
  <2>2. /\ \A i \in 0 .. (last + 1) - 1 : d[i] \in Int
        /\ \A i \in 0 .. (last + 1) - 1 : d[i] = 0
    BY <1>0, <1>2
  <2>3. Low(d, w, last + 1) = Low(d, w, 0)
    BY <1>0, <2>1, <2>2, LowSame
  <2>4. QED
    BY <1>0, <2>3, LowZero
<1>4. QED
  BY <1>1, <1>2, <1>3 DEF Fit

LEMMA FixedStart ==
    ASSUME NEW w \in 1 .. Bits, NEW last \in Nat, Short(w, last + 1), NEW x \in Nat,
           x % 2 = 1, x < 2^w, NEW d, d = [i \in 0 .. last |-> IF i = 0 THEN x ELSE 0]
    PROVE  FixedRight(d, last, 0, w, x)
<1>1. d \in [0 .. last -> Int] /\ d[0] = x /\ \A i \in 1 .. last : d[i] = 0
  OBVIOUS
<1>2. Low(d, w, last + 1) = x
  <2>0. w \in Nat /\ last + 1 \in Nat /\ 1 \in Nat /\ 1 <= last + 1 /\ 0 * w = 0 /\ 0 \in Nat /\ 0 + 1 = 1
    OBVIOUS
  <2>1. /\ \A i \in 0 .. (last + 1) - 1 : d[i] \in Int
        /\ \A i \in 1 .. (last + 1) - 1 : d[i] = 0
    BY <1>1
  <2>2. Low(d, w, last + 1) = Low(d, w, 1)
    BY <2>0, <2>1, LowSame
  <2>3. Low(d, w, 0 + 1) = Low(d, w, 0) + d[0] * 2^(0 * w)
    <3>1. 0 * w <= 2 * Bits + 1 /\ \A i \in 0 .. 0 : d[i] \in Int
      BY <1>1, <2>0, Two
    <3>2. QED
      BY <2>0, <3>1, LowStep
  <2>4. Low(d, w, 0) = 0
    BY <2>0, LowZero
  <2>5. d[0] * 2^(0 * w) = x
    <3>0. 2^0 = 1 /\ x * 1 = x
      BY PowersAssumption
    <3>9. 0 * w = 0
      BY <2>0
    <3>1. 2^(0 * w) = 1
      BY <3>0, <3>9, Zenon
    <3>2. QED
      BY <1>1, <3>0, <3>1
  <2>6. QED
    BY <2>0, <2>2, <2>3, <2>4, <2>5
<1>3. x > 0
  OBVIOUS
<1>4. 0 + 1 = 1 /\ \A i \in 0 .. 0 - 1 : FALSE
  OBVIOUS
<1>5. QED
  BY <1>1, <1>2, <1>3, <1>4 DEF FixedRight

LEMMA FixedFirst ==
    ASSUME NEW s \in Scalars, s # 0, NEW w \in 1 .. Bits, NEW skew,
           skew = IF s % 2 = 0 THEN 1 ELSE 0
    PROVE  /\ GetBits(s, 0, w) + skew \in Nat /\ (GetBits(s, 0, w) + skew) % 2 = 1
           /\ GetBits(s, 0, w) + skew < 2^w
           /\ Low(Windows(s, w), w, 1) + skew = GetBits(s, 0, w) + skew
<1>0. /\ Bits \in Nat /\ Bits > 1 /\ w \in 1 .. 2 * Bits + 1 /\ s \in Nat /\ w \in Nat
      /\ skew \in {0, 1}
  BY Two, Order
<1>1. PICK k \in Nat : 2^w = 2 * k /\ k >= 1
  BY <1>0, PowerEven
<1>2. PICK g \in 0 .. 2 * k - 1, q \in Nat : g = GetBits(s, 0, w) /\ s = 2 * (k * q) + g
  <2>1. 0 + w <= 2 * Bits + 1 /\ 0 + w = w /\ 0 \in Nat
    BY <1>0
  <2>2. /\ GetBits(s, 0, w) \in 0 .. 2^w - 1 /\ s \div 2^(0 + w) \in Nat
        /\ s \div 2^0 = 2^w * (s \div 2^(0 + w)) + GetBits(s, 0, w)
    BY <1>0, <2>1, GetBitsSplit
  <2>3. s \div 2^0 = s
    <3>1. s = s * 1 + 0 /\ 0 \in 0 .. 1 - 1 /\ s \in Int
      BY <1>0
    <3>2. s \div 1 = s
      BY <3>1, DivUnique
    <3>3. QED
      BY <3>2, PowersAssumption
  <2>4. PICK q \in Nat : q = s \div 2^(0 + w)
    BY <2>2
  <2>5. (2 * k) * q = 2 * (k * q)
    BY SMT
  <2>6. QED
    BY <1>1, <2>2, <2>3, <2>4, <2>5
<1>3. s % 2 = g % 2
  <2>1. PICK z \in Nat : z = k * q
    BY SMT
  <2>2. QED
    BY <1>2, <2>1
<1>4. g + skew \in Nat /\ (g + skew) % 2 = 1 /\ g + skew < 2 * k
  <2>1. CASE s % 2 = 0
    <3>1. skew = 1 /\ g % 2 = 0
      BY <1>3, <2>1
    <3>2. g # 2 * k - 1
      BY <3>1
    <3>3. QED
      BY <3>1, <3>2
  <2>2. CASE s % 2 # 0
    <3>1. skew = 0 /\ g % 2 # 0 /\ g % 2 \in {0, 1}
      BY <1>3, <2>2
    <3>2. QED
      BY <3>1
  <2>3. QED
    BY <2>1, <2>2
<1>5. Low(Windows(s, w), w, 1) = g
  <2> DEFINE last == WnafSize(w) - 1
             v == Windows(s, w)
  <2>1. last \in Nat /\ \A i \in 0 .. last : FixedWindow(s, w, i) \in Nat
    BY FixedWindows
  <2>2. v[0] = FixedWindow(s, w, 0) /\ v[0] \in Nat
    BY <2>1 DEF Windows
  <2>3. 0 * w = 0 /\ 0 + 1 = 1 /\ 0 \in Nat
    BY <1>0
  <2>4. FixedWindow(s, w, 0) = g
    <3>1. CASE last = 0
      <4>1. Bits - last * w \in 1 .. w /\ last * w = 0
        BY <1>0, <3>1, WnafSizeRange
      <4>2. Bits - last * w = w
        BY <1>0, <4>1
      <4>3. QED
        BY <1>2, <2>3, <3>1, <4>2 DEF FixedWindow
    <3>2. CASE last # 0
      BY <1>2, <2>3, <3>2 DEF FixedWindow
    <3>3. QED
      BY <3>1, <3>2
  <2> HIDE DEF last, v
  <2>5. Low(v, w, 0 + 1) = Low(v, w, 0) + v[0] * 2^(0 * w)
    <3>1. 0 * w <= 2 * Bits + 1 /\ \A i \in 0 .. 0 : v[i] \in Int
      BY <1>0, <2>2, <2>3
    <3>2. QED
      BY <1>0, <2>3, <3>1, LowStep
  <2>6. Low(v, w, 0) = 0
    BY <1>0, LowZero
  <2>7. v[0] * 2^(0 * w) = g
    <3>1. 2^0 = 1 /\ g * 1 = g
      BY PowersAssumption
    <3>2. 2^(0 * w) = 1
      BY <2>3, <3>1, Zenon
    <3>3. QED
      BY <2>2, <2>4, <3>1, <3>2
  <2>8. Low(v, w, 1) = g
    BY <2>3, <2>5, <2>6, <2>7
  <2>9. QED
    BY <2>8 DEF v
<1>6. QED
  BY <1>1, <1>2, <1>4, <1>5

\* wnaf_fixed keeps the scalar, but for the skew: its digits are odd or
\* zero and fit their buckets.
THEOREM WnafFixedRight ==
    ASSUME NEW s \in Scalars, NEW w \in 1 .. Bits, NEW last, last = WnafSize(w) - 1
    PROVE  LET D == WnafFixed(s, w)
           IN  /\ D.skew \in {0, 1} /\ D.digit \in [0 .. last -> Int]
               /\ \A i \in 0 .. last : Fit(D.digit[i], w + 1)
               /\ Low(D.digit, w, last + 1) = s + D.skew
<1>1. CASE s = 0
  <2>1. \A D : D.skew = 0 => D.skew \in {0, 1} /\ 0 + D.skew = 0
    OBVIOUS
  <2>2. QED
    BY <1>1, <2>1, WnafFixedZero
<1>2. CASE s # 0
  <2>0. /\ last \in Nat /\ Short(w, last + 1) /\ last * w + w <= 2 * Bits + 1
        /\ \A i \in 0 .. last : FixedWindow(s, w, i) \in Nat /\ FixedWindow(s, w, i) < 2^w
        /\ Low(Windows(s, w), w, last + 1) = s /\ w \in Nat /\ Bits \in Nat
    BY FixedWindows, Two
  <2> DEFINE skew == IF s # 0 /\ s % 2 = 0 THEN 1 ELSE 0
             Window(at) ==
               GetBits(s, at * w, IF at = last THEN Bits - last * w ELSE w)
             top == CHOOSE at \in 0 .. last :
                  /\ \A q \in at + 1 .. last : Window(q) = 0
                  /\ at = 0 \/ Window(at) # 0
             b == [i \in 0 .. last |-> IF i = 0 THEN GetBits(s, 0, w) + skew ELSE 0]
             D == CHOOSE d : d = [at \in 0 .. last |->
                    IF at = 0 THEN b ELSE FixedNext(d[at - 1], at, Window(at), w)]
  <2>1. WnafFixed(s, w) = [skew |-> skew, digit |-> D[top]]
    BY <1>2 DEF WnafFixed, FixedNext
  <2>2. \A at : Window(at) = FixedWindow(s, w, at)
    BY DEF FixedWindow
  <2>3. skew \in {0, 1} /\ skew = IF s % 2 = 0 THEN 1 ELSE 0
    BY <1>2
  <2> HIDE DEF skew, Window
  <2>4. /\ GetBits(s, 0, w) + skew \in Nat /\ (GetBits(s, 0, w) + skew) % 2 = 1
        /\ GetBits(s, 0, w) + skew < 2^w
        /\ Low(Windows(s, w), w, 1) + skew = GetBits(s, 0, w) + skew
    BY <1>2, <2>3, FixedFirst
  <2> DEFINE V(k) == Low(Windows(s, w), w, k + 1) + skew
             A == [k \in Nat |-> {d \in [0 .. last -> Int] : FixedRight(d, last, k, w, V(k))}]
  <2>5. b \in A[0]
    <3>1. FixedRight(b, last, 0, w, GetBits(s, 0, w) + skew)
      BY <2>0, <2>4, FixedStart
    <3>2. GetBits(s, 0, w) + skew = V(0)
      BY <2>4, 0 + 1 = 1
    <3>3. FixedRight(b, last, 0, w, V(0))
      BY <3>1, <3>2
    <3> HIDE DEF V
    <3>4. b \in [0 .. last -> Int]
      BY <3>3 DEF FixedRight
    <3> HIDE DEF b
    <3>5. QED
      BY <3>3, <3>4
  <2> HIDE DEF b
  <2>6. ASSUME NEW i \in 0 .. last PROVE V(i) \in Int
    <3> DEFINE v == Windows(s, w)
    <3>1. \A j \in 0 .. last : v[j] \in Int
      BY <2>0 DEF Windows
    <3> HIDE DEF v
    <3>2. i \in Nat /\ (\A j \in 0 .. i : v[j] \in Int)
      BY <2>0, <3>1
    <3>3. (i + 1) - 1 = i /\ i + 1 \in Nat /\ \A j \in 0 .. (i + 1) - 1 : v[j] \in Int
      BY <3>2
    <3>4. i * w <= 2 * Bits + 1
      <4>1. i \in 0 .. (last + 1) - 1 /\ \A j \in 0 .. (last + 1) - 1 : v[j] \in Int
        BY <2>0, <3>1
      <4>2. i * w \in 0 .. 2 * Bits + 1
        BY <2>0, <4>1, WeighingInt
      <4>3. QED
        BY <2>0, <4>2
    <3>5. Short(w, i + 1)
      BY <3>3, <3>4 DEF Short
    <3>6. Low(v, w, i + 1) \in Int
      BY <2>0, <3>3, <3>5, WeighingInt
    <3>7. QED
      BY <2>3, <3>6 DEF v
  <2>7. ASSUME NEW i \in 0 .. last - 1, NEW d \in A[i]
        PROVE  FixedNext(d, i + 1, Window(i + 1), w) \in A[i + 1]
    <3>0. i \in Nat /\ i + 1 \in 1 .. last /\ (i + 1) - 1 = i /\ i + 1 \in 0 .. last /\ i \in 0 .. last
          /\ i + 1 \in Nat
      BY <2>0
    <3>1. FixedRight(d, last, i, w, V(i)) /\ V(i) \in Int
      BY <2>6, <3>0
    <3>2. PICK window \in Nat : window = Window(i + 1) /\ window < 2^w
      BY <2>0, <2>2, <3>0
    <3> HIDE DEF V
    <3>3. /\ 2^((i + 1) * w) \in Nat
          /\ FixedRight(FixedNext(d, i + 1, window, w), last, i + 1, w,
                        V(i) + window * 2^((i + 1) * w))
      <4>1. w \in 1 .. Bits /\ last \in Nat /\ Short(w, last + 1) /\ window < 2^w
        BY <2>0, <3>2
      <4>2. FixedRight(d, last, (i + 1) - 1, w, V(i))
        BY <3>0, <3>1
      <4>3. QED
        BY <3>0, <3>1, <4>1, <4>2, FixedNextRight
    <3>4. V(i) + window * 2^((i + 1) * w) = V(i + 1)
      <4> DEFINE v == Windows(s, w)
      <4>1. \A j \in 0 .. last : v[j] \in Int
        BY <2>0 DEF Windows
      <4>2. v[i + 1] = window
        BY <2>2, <3>0, <3>2 DEF Windows
      <4> HIDE DEF v
      <4>3. (i + 1) * w <= 2 * Bits + 1
        <5>1. PICK k \in 0 .. last : k = i + 1
          BY <3>0
        <5>2. k * w <= 2 * Bits + 1
          BY <2>0, WeightIn
        <5>3. QED
          BY <5>1, <5>2
      <4>4. \A j \in 0 .. i + 1 : v[j] \in Int
        BY <3>0, <4>1
      <4>5. /\ Low(v, w, i + 1) \in Int
            /\ Low(v, w, (i + 1) + 1) = Low(v, w, i + 1) + v[i + 1] * 2^((i + 1) * w)
        BY <2>0, <3>0, <4>3, <4>4, LowStep
      <4>6. PICK z \in Nat : z = 2^((i + 1) * w)
        BY <3>3
      <4>7. window * z \in Int
        BY SMT
      <4>8. QED
        BY <2>3, <4>2, <4>5, <4>6, <4>7 DEF V, v
    <3>5. FixedRight(FixedNext(d, i + 1, Window(i + 1), w), last, i + 1, w, V(i + 1))
      BY <3>2, <3>3, <3>4
    <3>6. FixedNext(d, i + 1, Window(i + 1), w) \in [0 .. last -> Int]
      BY <3>5 DEF FixedRight
    <3>7. QED
      BY <3>0, <3>5, <3>6
  <2> HIDE DEF A, V
  <2>8. D = [at \in 0 .. last |-> IF at = 0 THEN b ELSE FixedNext(D[at - 1], at, Window(at), w)]
    <3> DEFINE step == [i \in 0 .. last - 1 |-> [d \in A[i] |-> FixedNext(d, i + 1, Window(i + 1), w)]]
    <3>1. \A i \in 0 .. last - 1 : \A d \in A[i] : step[i][d] \in A[i + 1]
      BY <2>7
    <3>2. \A i \in 0 .. last - 1 : \A d \in A[i] : step[i][d] = FixedNext(d, i + 1, Window(i + 1), w)
      OBVIOUS
    <3> HIDE DEF step
    <3>a. PICK g : Walks(g, step, A, b, last)
      <4>1. Closed(step, A, last)
        BY <3>1 DEF Closed
      <4>2. QED
        BY <2>0, <2>5, <4>1, Iterated
    <3>3. /\ g = [i \in 0 .. last |-> g[i]] /\ g[0] = b
          /\ \A i \in 0 .. last : g[i] \in A[i]
          /\ \A i \in 0 .. last - 1 : g[i + 1] = step[i][g[i]]
      BY <3>a DEF Walks
    <3>4. ASSUME NEW i \in 0 .. last, i # 0 PROVE g[i] = FixedNext(g[i - 1], i, Window(i), w)
      <4>1. i - 1 \in 0 .. last - 1 /\ (i - 1) + 1 = i /\ i - 1 \in 0 .. last
        BY <2>0, <3>4
      <4>2. g[(i - 1) + 1] = step[i - 1][g[i - 1]] /\ g[i - 1] \in A[i - 1]
        BY <3>3, <4>1
      <4>3. step[i - 1][g[i - 1]] = FixedNext(g[i - 1], (i - 1) + 1, Window((i - 1) + 1), w)
        BY <3>2, <4>1, <4>2
      <4>4. QED
        BY <4>1, <4>2, <4>3
    <3>5. \A i \in 0 .. last : g[i] = IF i = 0 THEN b ELSE FixedNext(g[i - 1], i, Window(i), w)
      BY <3>3, <3>4
    <3>6. g = [at \in 0 .. last |-> IF at = 0 THEN b ELSE FixedNext(g[at - 1], at, Window(at), w)]
      BY <3>3, <3>5
    <3>7. QED
      BY <3>6
  <2> HIDE DEF D
  <2>9. \A i \in 0 .. last : D[i] \in A[i]
    <3>1. D[0] = b /\ 0 \in 0 .. last
      BY <2>0, <2>8
    <3>2. ASSUME NEW i \in 0 .. last - 1, D[i] \in A[i] PROVE D[i + 1] \in A[i + 1]
      <4>1. i + 1 \in 0 .. last /\ i + 1 # 0 /\ (i + 1) - 1 = i
        BY <2>0
      <4>2. D[i + 1] = FixedNext(D[(i + 1) - 1], i + 1, Window(i + 1), w)
        BY <2>8, <4>1
      <4>3. QED
        BY <2>7, <3>2, <4>1, <4>2
    <3>3. QED
      BY <2>0, <2>5, <3>1, <3>2, Kept
  <2>10. top \in 0 .. last /\ \A q \in top + 1 .. last : Window(q) = 0
    <3> DEFINE S == {p \in Nat : p <= last /\ \A q \in p + 1 .. last : Window(q) = 0}
    <3>1. last \in S
      BY <2>0
    <3>2. PICK p \in S : \A m \in S : p <= m
      <4> HIDE DEF S
      <4>1. S \subseteq Nat
        BY DEF S
      <4>2. QED
        BY <3>1, <4>1, LeastNumber
    <3>3. p \in 0 .. last /\ \A q \in p + 1 .. last : Window(q) = 0
      BY <2>0
    <3>4. p = 0 \/ Window(p) # 0
      <4>1. SUFFICES ASSUME p # 0, Window(p) = 0 PROVE FALSE
        OBVIOUS
      <4>2. p - 1 \in Nat /\ p - 1 <= last /\ \A q \in (p - 1) + 1 .. last : q = p \/ q \in p + 1 .. last
        BY <2>0, <3>3, <4>1
      <4>3. p - 1 \in S
        BY <3>3, <4>1, <4>2
      <4>4. QED
        BY <3>2, <3>3, <4>3
    <3>5. QED
      BY <3>3, <3>4
  <2> HIDE DEF top
  <2>11. FixedRight(D[top], last, top, w, V(top)) /\ D[top] \in [0 .. last -> Int]
    <3>1. D[top] \in A[top] /\ top \in Nat
      BY <2>9, <2>10
    <3>2. QED
      BY <3>1 DEF A
  <2>12. V(top) = s + skew
    <3> DEFINE v == Windows(s, w)
    <3>1. \A j \in 0 .. last : v[j] \in Int
      BY <2>0 DEF Windows
    <3>2. \A j \in top + 1 .. last : v[j] = 0
      BY <2>2, <2>10 DEF Windows
    <3> HIDE DEF v
    <3>3. /\ top + 1 \in Nat /\ last + 1 \in Nat /\ top + 1 <= last + 1
          /\ \A j \in 0 .. (last + 1) - 1 : v[j] \in Int
          /\ \A j \in top + 1 .. (last + 1) - 1 : v[j] = 0
      BY <2>0, <2>10, <3>1, <3>2
    <3>4. Low(v, w, last + 1) = Low(v, w, top + 1)
      BY <2>0, <3>3, LowSame
    <3>5. QED
      BY <2>0, <3>4 DEF v, V
  <2>13. \A i \in 0 .. last : Fit(D[top][i], w + 1)
    <3>1. ASSUME NEW i \in 0 .. last PROVE Fit(D[top][i], w + 1)
      <4>1. D[top][i] \in Int
        BY <2>11
      <4>2. CASE i \in 0 .. top - 1
        BY <2>11, <4>2 DEF FixedRight
      <4>3. CASE i = top
        <5>1. (w + 1) - 1 = w /\ 2^w \in Nat
          <6>1. w \in 0 .. 2 * Bits + 1
            BY <2>0
          <6>2. QED
            BY <2>0, <6>1, Power
        <5>2. PICK x \in Int : x = D[top][i] /\ x % 2 = 1 /\ x > 0 /\ x < 2^w
          BY <2>11, <4>1, <4>3 DEF FixedRight
        <5>3. Fit(x, w + 1)
          BY <5>1, <5>2 DEF Fit
        <5>4. QED
          BY <5>2, <5>3
      <4>4. CASE i \in top + 1 .. last
        <5>1. D[top][i] = 0
          BY <2>11, <4>4 DEF FixedRight
        <5>2. QED
          BY <5>1 DEF Fit
      <4>5. QED
        BY <2>0, <2>10, <4>2, <4>3, <4>4
    <3>2. QED
      BY <3>1
  <2>14. Low(D[top], w, last + 1) = s + skew
    BY <2>11, <2>12 DEF FixedRight
  <2>15. QED
    BY <2>1, <2>3, <2>11, <2>13, <2>14
<1>3. QED
  BY <1>1, <1>2

---------------------------------------------------------------------------
(* wnaf_const, for scalars made odd by the skew.                           *)

LEMMA OrderOdd == \E k \in Nat : N = 2 * k + 1
<1>0. N \in Nat /\ N > 3 /\ Scalars = 0 .. N - 1
  BY Order
<1>1. SUFFICES ASSUME N % 2 = 0 PROVE FALSE
  <2>1. N % 2 # 0 => N % 2 = 1
    BY <1>0
  <2>2. N % 2 = 1 => N = 2 * (N \div 2) + 1 /\ N \div 2 \in Nat
    BY <1>0
  <2>3. QED
    BY <2>1, <2>2
<1>2. PICK b \in Scalars : 2 * b % N = 1
  BY <1>0, 2 \in 1 .. N - 1, PrimeAssumption
<1>3. PICK j \in Int : 2 * b = 1 + j * N
  <2>1. 2 * b \in Int /\ N > 0 /\ b \in Int
    BY <1>0
  <2>2. \E j \in Int : 2 * b = ((2 * b) % N) + j * N
    BY <1>0, <2>1, DivisionOf
  <2>3. QED
    BY <1>2, <2>2
<1>4. PICK m \in Int : N = 2 * m
  BY <1>0, <1>1
<1>5. j * (2 * m) = 2 * (j * m)
  BY SMT
<1>6. PICK x \in Int : x = j * m
  BY SMT
<1>7. 2 * b = 1 + 2 * x /\ b \in Int
  BY <1>0, <1>3, <1>4, <1>5, <1>6
<1>8. QED
  BY <1>7

LEMMA ScalarNegOf == ASSUME NEW t \in Scalars, t # 0 PROVE ScalarNeg(t) = N - t
<1>0. N \in Nat /\ N > 3 /\ t \in 1 .. N - 1
  BY Order
<1>1. -t = (-1) * N + (N - t) /\ N - t \in 0 .. N - 1 /\ -1 \in Int /\ N > 0
  BY <1>0
<1>2. ((-1) * N + (N - t)) % N = N - t
  BY <1>0, <1>1, DivUnique
<1>3. QED
  BY <1>1, <1>2 DEF ScalarNeg

\* Negated or not, the skewed scalar is odd and no longer than Bits.
LEMMA SkewedRight ==
    ASSUME NEW s \in Scalars, s # 0
    PROVE  LET f == Skewed(s)
           IN  /\ f.skew \in {1, 2} /\ f.sign \in {1, -1}
               /\ f.scalar \in 1 .. N - 1 /\ f.scalar % 2 = 1
               /\ Cong(N, f.sign * f.scalar, s + f.skew)
<1>0. N \in Nat /\ N > 3 /\ s \in 1 .. N - 1 /\ Scalars = 0 .. N - 1
  BY Order
<1>1. PICK k \in Nat : N = 2 * k + 1
  BY OrderOdd
<1> DEFINE flip  == IsHigh(s)
           bit   == IF flip <=> (s % 2 = 0) THEN 1 ELSE 0
           minus == ScalarNeg(s) = 1
           t     == IF minus THEN s ELSE s + 2^bit
           sign  == IF flip = minus THEN 1 ELSE -1
           scalar == IF flip THEN ScalarNeg(t) ELSE t
<1>2. Skewed(s) = [skew |-> 2^bit, sign |-> sign, scalar |-> scalar]
  BY DEF Skewed
<1>3. minus <=> s = N - 1
  <2>1. ScalarNeg(s) = N - s
    BY <1>0, ScalarNegOf
  <2>2. QED
    BY <1>0, <2>1
<1>4. flip <=> s > k
  <2>1. (N - 1) \div 2 = k
    BY <1>1
  <2>2. QED
    BY <2>1 DEF IsHigh
<1>5. PICK x \in {1, 2} : x = 2^bit /\ (x = 2 <=> (flip <=> (s % 2 = 0)))
  <2>1. 2^0 = 1 /\ 2^1 = 2
    BY Two, PowersAssumption
  <2>2. QED
    BY <2>1
<1>b. flip \in BOOLEAN /\ minus \in BOOLEAN
  BY DEF IsHigh
<1> HIDE DEF bit, minus, flip
<1>6. /\ t \in 1 .. N - 1 /\ (flip => t % 2 = 0) /\ (~flip => t % 2 = 1)
      /\ \/ minus /\ flip /\ x = 2 /\ t = s
         \/ ~minus /\ t = s + x
  <2>1. CASE minus
    <3>1. s = 2 * k /\ flip /\ s % 2 = 0
      BY <1>0, <1>1, <1>3, <1>4, <2>1
    <3>2. QED
      BY <1>0, <1>5, <2>1, <3>1
  <2>2. CASE ~minus
    <3>1. t = s + x /\ s <= N - 2
      BY <1>0, <1>3, <1>5, <2>2
    <3>2. CASE flip
      <4>1. CASE s % 2 = 0
        <5>1. x = 2 /\ s # N - 2
          BY <1>0, <1>1, <1>5, <3>2, <4>1
        <5>2. QED
          BY <1>0, <2>2, <3>1, <3>2, <4>1, <5>1
      <4>2. CASE s % 2 # 0
        <5>1. x = 1
          BY <1>5, <3>2, <4>2
        <5>2. QED
          BY <1>0, <2>2, <3>1, <3>2, <4>2, <5>1
      <4>3. QED
        BY <4>1, <4>2
    <3>3. CASE ~flip
      <4>0. s <= k /\ k >= 2
        BY <1>0, <1>1, <1>4, <3>3
      <4>1. CASE s % 2 = 0
        <5>1. x = 1
          BY <1>5, <3>3, <4>1
        <5>2. QED
          BY <1>0, <1>1, <2>2, <3>1, <3>3, <4>0, <4>1, <5>1
      <4>2. CASE s % 2 # 0
        <5>1. x = 2
          BY <1>5, <3>3, <4>2
        <5>2. QED
          BY <1>0, <1>1, <2>2, <3>1, <3>3, <4>0, <4>2, <5>1
      <4>3. QED
        BY <4>1, <4>2
    <3>4. QED
      BY <3>2, <3>3
  <2>3. QED
    BY <2>1, <2>2
<1> HIDE DEF t
<1>7. CASE flip
  <2>1. scalar = N - t
    BY <1>0, <1>6, <1>7, ScalarNegOf
  <2>2. scalar \in 1 .. N - 1 /\ scalar % 2 = 1
    BY <1>1, <1>6, <1>7, <2>1
  <2>3. Cong(N, sign * scalar, s + x)
    <3>1. CASE minus
      <4>1. sign = 1 /\ sign * scalar = scalar /\ s = N - 1 /\ x = 2
        BY <1>3, <1>6, <1>7, <1>b, <2>2, <3>1
      <4>2. sign * scalar = (s + x) + (-1) * N
        BY <1>0, <1>6, <2>1, <3>1, <4>1
      <4>3. QED
        BY <4>2, -1 \in Int DEF Cong
    <3>2. CASE ~minus
      <4>0. sign = -1
        BY <1>7, <1>b, <3>2
      <4>1. sign = -1 /\ sign * scalar = -scalar
        BY <2>2, <4>0
      <4>2. sign * scalar = (s + x) + (-1) * N
        BY <1>0, <1>6, <2>1, <3>2, <4>1
      <4>3. QED
        BY <4>2, -1 \in Int DEF Cong
    <3>3. QED
      BY <3>1, <3>2
  <2> HIDE DEF scalar
  <2>4. sign \in {1, -1}
    OBVIOUS
  <2> HIDE DEF sign
  <2>5. QED
    BY <1>2, <1>5, <2>2, <2>3, <2>4
<1>8. CASE ~flip
  <2>1. scalar = t /\ ~minus /\ sign = 1
    BY <1>6, <1>8, <1>b
  <2>2. scalar \in 1 .. N - 1 /\ scalar % 2 = 1
    BY <1>6, <1>8, <2>1
  <2>3. sign * scalar = s + x /\ s + x \in Int
    BY <1>0, <1>6, <2>1, <2>2
  <2>4. Cong(N, sign * scalar, s + x)
    BY <1>0, <2>3, CongRefl
  <2> HIDE DEF scalar, sign
  <2>5. QED
    BY <1>2, <1>5, <2>1, <2>2, <2>4
<1>9. QED
  BY <1>7, <1>8

\* Scaled digits.
Scales(h, c, g, n) == \A i \in 0 .. n - 1 : g[i] \in Int /\ h[i] \in Int /\ h[i] = c * g[i]

LEMMA LowScale ==
    ASSUME NEW w \in Nat, NEW n \in Nat, Short(w, n), NEW g, NEW h, NEW c \in Int,
           Scales(h, c, g, n)
    PROVE  Low(h, w, n) = c * Low(g, w, n) /\ Low(g, w, n) \in Int /\ Low(h, w, n) \in Int
<1>0. \A i \in 0 .. n - 1 : g[i] \in Int /\ h[i] \in Int /\ h[i] = c * g[i]
  BY DEF Scales
<1>1. /\ Weighing(g, w, n) \in [Nat -> Int] /\ Low(g, w, n) \in Int
      /\ \A i \in 0 .. n - 1 : i * w \in 0 .. 2 * Bits + 1 /\ 2^(i * w) \in Nat
  BY <1>0, WeighingInt
<1>2. Weighing(h, w, n) \in [Nat -> Int] /\ Low(h, w, n) \in Int
  BY <1>0, WeighingInt
<1>3. PICK u \in [Nat -> Int], v \in [Nat -> Int] :
         u = Weighing(g, w, n) /\ v = Weighing(h, w, n)
  BY <1>1, <1>2
<1>4. ASSUME NEW i \in 0 .. n - 1 PROVE v[i] = c * u[i]
  <2>1. PICK m \in Int, x \in Int : m = 2^(i * w) /\ x = g[i]
    BY <1>0, <1>1
  <2>2. v[i] = h[i] * m /\ u[i] = x * m
    BY <1>3, <2>1 DEF Weighing
  <2>3. (c * x) * m = c * (x * m)
    BY SMT
  <2>4. QED
    BY <1>0, <2>1, <2>2, <2>3
<1>5. SumTo(v, n) = c * SumTo(u, n)
  BY <1>4, SumScale
<1>6. QED
  BY <1>1, <1>2, <1>3, <1>5 DEF Low

\* wnaf_const keeps the scalar modulo N, but for the skew: no digit is
\* zero and all fit the table.
THEOREM WnafConstRight ==
    ASSUME NEW s \in Scalars, s # 0, NEW w \in 1 .. Bits, NEW size, size = WnafSize(w)
    PROVE  LET C == WnafConst(s, w)
           IN  /\ C.skew \in {1, 2} /\ C.skew = Skewed(s).skew
               /\ C.digit \in [0 .. size -> Int] /\ size \in Nat /\ size >= 1
               /\ Short(w, size + 1)
               /\ \A i \in 0 .. size : C.digit[i] # 0 /\ Fit(C.digit[i], w + 1)
               /\ Low(C.digit, w, size + 1) \in Int
               /\ Cong(N, Low(C.digit, w, size + 1), s + C.skew)
<1>0. /\ Bits \in Nat /\ Bits > 1 /\ w \in 1 .. 2 * Bits + 1 /\ s \in Nat /\ w \in Nat
      /\ N \in Nat /\ N < 2^Bits
  BY Two, Order, BitsAssumption
<1>1. /\ size \in Nat /\ size >= 1 /\ size * w \in Nat /\ size * w >= Bits /\ size * w <= 2 * Bits
      /\ Short(w, size + 1)
  <2>1. WnafSize(w) \in 1 .. Bits /\ WnafSize(w) * w >= Bits /\ WnafSize(w) * w <= Bits + w - 1
    BY WnafSizeRange
  <2>2. size \in Nat /\ size >= 1 /\ size * w >= Bits /\ size * w <= 2 * Bits
    BY <1>0, <2>1
  <2>3. size * w \in Nat
    BY <1>0, <2>2, SMT
  <2>4. (size + 1) - 1 = size /\ size * w <= 2 * Bits + 1
    BY <1>0, <2>2, <2>3
  <2>5. QED
    BY <2>2, <2>3, <2>4 DEF Short
<1> DEFINE from == Skewed(s)
           Word(k) == (from.scalar \div 2^(k * w)) % 2^w
           Raised[k \in 0 .. size] ==
            IF k = 0 THEN Word(0)
            ELSE IF Word(k) % 2 = 1 THEN Word(k)
            ELSE Word(k) + (IF Raised[k - 1] > 0 THEN 1 ELSE -1)
           Digit(k) ==
            IF k = size \/ Word(k + 1) % 2 = 1 THEN Raised[k]
            ELSE Raised[k] - (IF Raised[k] > 0 THEN 2^w ELSE -(2^w))
           D == [k \in 0 .. size |-> Digit(k) * from.sign]
<1>2. WnafConst(s, w).skew = from.skew /\ WnafConst(s, w).digit = D
  BY DEF WnafConst
<1>3. /\ from.skew \in {1, 2} /\ from.sign \in {1, -1}
      /\ from.scalar \in 1 .. N - 1 /\ from.scalar % 2 = 1
      /\ Cong(N, from.sign * from.scalar, s + from.skew)
  BY SkewedRight
<1>4. PICK c \in Nat, e \in {1, -1} :
         c = from.scalar /\ e = from.sign /\ c % 2 = 1 /\ c < N /\ Cong(N, e * c, s + from.skew)
  BY <1>0, <1>3
<1>5. PICK m \in Nat : /\ m = 2^w /\ m >= 2
                       /\ \A x \in Int : /\ (x - m) % 2 = x % 2 /\ (x + m) % 2 = x % 2
                                         /\ x % 2 \in {0, 1}
  BY <1>0, OddEven
<1>6. ASSUME NEW k \in 0 .. size PROVE Word(k) \in 0 .. m - 1 /\ Word(k) = GetBits(c, k * w, w)
  <2>1. 2^(k * w) \in Nat /\ k * w \in 0 .. 2 * Bits + 1
    BY <1>0, <1>1, WeightIn
  <2>2. PICK q \in Nat : q = 2^(k * w) /\ q >= 1
    BY <2>1, Power
  <2>3. c \div q \in Nat
    <3>1. q > 0
      BY <2>2
    <3>2. QED
      BY <2>2, <3>1, Division
  <2>4. (c \div q) % m \in 0 .. m - 1
    BY <1>5, <2>3
  <2>5. QED
    BY <1>4, <1>5, <2>2, <2>4 DEF GetBits
<1> DEFINE up(k) == IF k # 0 /\ Word(k) % 2 = 0 THEN 1 ELSE 0
           R == [k \in 0 .. size |-> Word(k) + up(k)]
<1>7. Word(0) % 2 = 1
  <2>1. 0 * w = 0 /\ 2^0 = 1 /\ 0 \in 0 .. size
    BY <1>0, <1>1, PowersAssumption
  <2>2. c \div 1 = c
    <3>1. c = c * 1 + 0 /\ 0 \in 0 .. 1 - 1 /\ c \in Int
      OBVIOUS
    <3>2. QED
      BY <3>1, DivUnique
  <2>3. Word(0) = c % m
    BY <1>4, <1>5, <2>1, <2>2
  <2>4. PICK h \in Nat : m = 2 * h /\ h >= 1
    BY <1>0, <1>5, PowerEven
  <2>5. PICK q \in Nat, x \in 0 .. m - 1 : c = q * m + x /\ x = c % m
    <3>1. m > 0
      BY <1>5
    <3>2. QED
      BY <3>1, Division
  <2>6. q * (2 * h) = 2 * (q * h)
    BY SMT
  <2>7. PICK z \in Nat : z = q * h
    BY SMT
  <2>8. c = 2 * z + x
    BY <2>4, <2>5, <2>6, <2>7
  <2>9. x % 2 = 1
    BY <1>4, <2>5, <2>8
  <2>10. QED
    BY <2>3, <2>5, <2>9
<1> HIDE DEF Word
<1>8. ASSUME NEW k \in 0 .. size
      PROVE  R[k] \in Int /\ R[k] > 0 /\ R[k] < m /\ R[k] % 2 = 1 /\ up(k) \in {0, 1}
  <2>1. PICK x \in 0 .. m - 1 : x = Word(k)
    BY <1>6
  <2>2. m % 2 = 0
    <3>1. (0 + m) % 2 = 0 % 2 /\ 0 + m = m /\ 0 % 2 = 0
      BY <1>5, 0 \in Int
    <3>2. QED
      BY <3>1
  <2>3. CASE x % 2 = 1
    <3>1. R[k] = x
      BY <2>1, <2>3
    <3>2. QED
      BY <2>1, <2>3, <3>1
  <2>4. CASE x % 2 = 0
    <3>1. k # 0
      BY <1>7, <2>1, <2>4
    <3>2. R[k] = x + 1
      BY <2>1, <2>4, <3>1
    <3>3. x # m - 1
      BY <2>2, <2>4
    <3> HIDE DEF R
    <3>4. QED
      BY <2>4, <3>2, <3>3
  <2>5. x % 2 \in {0, 1}
    OBVIOUS
  <2>6. QED
    BY <2>3, <2>4, <2>5
<1>9. Raised = R
  <2> DEFINE Q == [k \in 0 .. size |->
            IF k = 0 THEN Word(0)
            ELSE IF Word(k) % 2 = 1 THEN Word(k)
            ELSE Word(k) + (IF R[k - 1] > 0 THEN 1 ELSE -1)]
  <2>1. ASSUME NEW k \in 0 .. size PROVE R[k] = Q[k]
    <3>1. Word(k) \in Int /\ Word(k) % 2 \in {0, 1}
      BY <1>6
    <3>2. CASE k = 0
      BY <3>1, <3>2
    <3>3. CASE k # 0
      <4>1. k - 1 \in 0 .. size
        BY <1>1, <3>3
      <4>2. R[k - 1] > 0
        BY <1>8, <4>1
      <4>3. QED
        BY <3>1, <3>3, <4>2
    <3>4. QED
      BY <3>2, <3>3
  <2>2. R = Q
    BY <2>1
  <2> HIDE DEF R
  <2>3. Raised = [k \in 0 .. size |->
            IF k = 0 THEN Word(0)
            ELSE IF Word(k) % 2 = 1 THEN Word(k)
            ELSE Word(k) + (IF Raised[k - 1] > 0 THEN 1 ELSE -1)]
    BY <2>2
  <2> HIDE DEF Raised
  <2> DEFINE A == [k \in Nat |-> {R[k]}]
  <2>4. ASSUME NEW i \in 0 .. size - 1, Raised[i] \in A[i] PROVE Raised[i + 1] \in A[i + 1]
    <3>1. i \in Nat /\ i + 1 \in 0 .. size /\ i + 1 # 0 /\ (i + 1) - 1 = i /\ i + 1 \in Nat
      BY <1>1
    <3>2. Raised[(i + 1) - 1] = R[(i + 1) - 1]
      BY <2>4, <3>1
    <3>3. R[i + 1] = Q[i + 1]
      BY <2>1, <3>1
    <3>4. QED
      BY <2>3, <3>1, <3>2, <3>3
  <2>5. Raised[0] \in A[0]
    <3>1. 0 \in 0 .. size /\ 0 \in Nat
      BY <1>1
    <3>2. R[0] = Q[0]
      BY <2>1, <3>1
    <3>3. QED
      BY <2>3, <3>1, <3>2
  <2> HIDE DEF A
  <2>6. \A i \in 0 .. size : Raised[i] \in A[i]
    BY <1>1, <2>4, <2>5, Kept
  <2>7. \A i \in 0 .. size : Raised[i] = R[i]
    <3>1. \A i \in 0 .. size : i \in Nat
      BY <1>1
    <3>2. QED
      BY <2>6, <3>1 DEF A
  <2>8. QED
    BY <2>3, <2>7 DEF R
<1> HIDE DEF Raised
<1> DEFINE next(k) == IF k = size THEN 0 ELSE up(k + 1)
<1>10. ASSUME NEW k \in 0 .. size
       PROVE  /\ Digit(k) \in Int /\ Digit(k) = R[k] - next(k) * m /\ Digit(k) % 2 = 1
              /\ Digit(k) # 0 /\ Digit(k) < m /\ -Digit(k) < m /\ next(k) \in {0, 1}
  <2>1. PICK x \in Int : x = R[k] /\ x > 0 /\ x < m /\ x % 2 = 1 /\ Raised[k] = x
    BY <1>8, <1>9
  <2>2. CASE k = size \/ Word(k + 1) % 2 = 1
    <3>1. next(k) = 0
      <4>1. k # size => k + 1 \in 0 .. size /\ Word(k + 1) % 2 = 1
        BY <1>1, <2>2
      <4>2. QED
        BY <4>1
    <3>2. Digit(k) = x
      BY <2>1, <2>2
    <3>3. x - 0 * m = x
      BY <2>1
    <3> HIDE DEF R, next, Digit
    <3>4. QED
      BY <2>1, <3>1, <3>2, <3>3
  <2>3. CASE ~(k = size \/ Word(k + 1) % 2 = 1)
    <3>1. k + 1 \in 0 .. size /\ k + 1 # 0 /\ k # size
      BY <1>1, <2>3
    <3>2. Word(k + 1) % 2 = 0
      <4>1. Word(k + 1) \in Int /\ Word(k + 1) % 2 \in {0, 1}
        BY <1>6, <3>1
      <4>2. QED
        BY <2>3, <4>1
    <3>3. next(k) = 1
      BY <3>1, <3>2
    <3>4. Digit(k) = x - m
      BY <1>5, <2>1, <2>3
    <3>5. 1 * m = m /\ (x - m) % 2 = 1
      BY <1>5, <2>1
    <3> HIDE DEF R, next, Digit
    <3>6. QED
      BY <2>1, <3>3, <3>4, <3>5
  <2>4. QED
    BY <2>2, <2>3
<1> HIDE DEF up, R, Digit
<1> DEFINE d == [k \in 0 .. size |-> Digit(k)]
           g == [k \in 0 .. size |-> Word(k)]
<1>11. \A k \in 0 .. size : d[k] = Digit(k) /\ d[k] \in Int /\ g[k] = Word(k) /\ g[k] \in Int
  BY <1>6, <1>10
<1>12. ASSUME NEW k \in 0 .. size PROVE D[k] = e * d[k] /\ D[k] \in Int /\ Fit(D[k], w + 1) /\ D[k] # 0
  <2>1. PICK x \in Int : x = Digit(k) /\ x % 2 = 1 /\ x # 0 /\ x < m /\ -x < m
    BY <1>10
  <2>2. D[k] = x * e /\ x * e = e * x
    BY <1>4, <2>1
  <2>3. e * x = x \/ e * x = -x
    OBVIOUS
  <2>4. (-x) % 2 = 1 /\ (w + 1) - 1 = w
    BY <1>0, <2>1
  <2> HIDE DEF D
  <2>5. D[k] \in Int /\ D[k] % 2 = 1 /\ D[k] # 0 /\ D[k] < m /\ -D[k] < m
    BY <2>1, <2>2, <2>3, <2>4
  <2>6. QED
    BY <1>5, <1>11, <2>1, <2>2, <2>4, <2>5 DEF Fit
<1> HIDE DEF D
<1>13. ASSUME NEW n \in 0 .. size
       PROVE  /\ 2^(n * w) \in Nat /\ up(n) * 2^(n * w) \in Int
              /\ n * w \in Nat /\ n * w <= 2 * Bits + 1 /\ Short(w, n)
              /\ Low(d, w, n) \in Int /\ Low(g, w, n) \in Int
  <2>1. 2^(n * w) \in Nat /\ n * w \in Nat /\ n * w <= 2 * Bits + 1
    BY <1>0, <1>1, WeightIn
  <2>2. Short(w, n)
    <3>1. CASE n = 0
      BY <3>1 DEF Short
    <3>2. CASE n # 0
      <4>1. n - 1 \in 0 .. size /\ (n - 1) + 1 = n
        BY <1>1, <3>2
      <4>2. Short(w, (n - 1) + 1)
        BY <1>0, <1>1, <4>1, WeightIn
      <4>3. QED
        BY <4>1, <4>2
    <3>3. QED
      BY <3>1, <3>2
  <2>3. \A i \in 0 .. n - 1 : d[i] \in Int /\ g[i] \in Int
    BY <1>1, <1>11
  <2> HIDE DEF d, g
  <2>4. n \in Nat
    BY <1>1
  <2>5. Low(d, w, n) \in Int /\ Low(g, w, n) \in Int
    BY <1>0, <2>2, <2>3, <2>4, WeighingInt
  <2>6. PICK x \in {0, 1}, y \in Nat : x = up(n) /\ y = 2^(n * w)
    BY <1>8, <2>1
  <2>7. x * y \in Int
    BY <2>6
  <2>8. QED
    BY <2>1, <2>2, <2>5, <2>6, <2>7
<1> DEFINE S == {n \in Nat : n <= size => Low(d, w, n) = Low(g, w, n) - up(n) * 2^(n * w)}
<1>14. 0 \in S
  <2>1. up(0) = 0
    BY DEF up
  <2> HIDE DEF d, g
  <2>2. Low(d, w, 0) = 0 /\ Low(g, w, 0) = 0
    BY <1>0, LowZero
  <2>3. 0 * 2^(0 * w) = 0
    <3>1. 2^(0 * w) \in Nat
      BY <1>1, <1>13
    <3>2. QED
      BY <3>1
  <2>4. QED
    BY <2>1, <2>2, <2>3
<1>15. ASSUME NEW n \in Nat, n \in S PROVE n + 1 \in S
  <2>1. SUFFICES ASSUME n + 1 <= size
                 PROVE  Low(d, w, n + 1) = Low(g, w, n + 1) - up(n + 1) * 2^((n + 1) * w)
    BY n + 1 \in Nat
  <2>2. n \in 0 .. size /\ n + 1 \in 0 .. size /\ n # size /\ n <= size
        /\ \A i \in 0 .. n : i \in 0 .. size
    BY <1>1, <2>1
  <2>3. Low(d, w, n) = Low(g, w, n) - up(n) * 2^(n * w)
    BY <1>15, <2>2
  <2>4. \A i \in 0 .. n : d[i] \in Int /\ g[i] \in Int
    BY <1>11, <2>2
  <2>5. d[n] = Digit(n) /\ g[n] = Word(n) /\ R[n] = Word(n) + up(n) /\ next(n) = up(n + 1)
    BY <1>11, <2>2 DEF R
  <2>6. Digit(n) = R[n] - next(n) * m
    BY <1>10, <2>2
  <2> HIDE DEF d, g, next
  <2>7. n * w \in Nat /\ n * w <= 2 * Bits + 1 /\ 2^(n * w) \in Nat
    BY <1>13, <2>2
  <2>8. /\ Low(d, w, n) \in Int /\ Low(d, w, n + 1) = Low(d, w, n) + d[n] * 2^(n * w)
    BY <1>0, <2>4, <2>7, LowStep
  <2>9. /\ Low(g, w, n) \in Int /\ Low(g, w, n + 1) = Low(g, w, n) + g[n] * 2^(n * w)
    BY <1>0, <2>4, <2>7, LowStep
  <2>10. PICK M \in Nat : M = 2^(n * w) /\ 2^((n + 1) * w) = M * m
    <3>1. (n + 1) * w = n * w + w
      BY SMT
    <3>2. n * w + w <= 2 * Bits + 1
      BY <1>13, <2>2, <3>1
    <3>3. QED
      BY <1>0, <1>5, <2>7, <3>1, <3>2, PowerSum
  <2>11. PICK u \in {0, 1}, v \in {0, 1}, x \in Int :
            u = up(n) /\ v = up(n + 1) /\ x = Word(n)
    BY <1>6, <1>8, <2>2
  <2>12. d[n] = (x + u) - v * m /\ g[n] = x
    BY <2>5, <2>6, <2>11
  <2>13. ((x + u) - v * m) * M = (x * M + u * M) - v * (M * m)
    <3>1. PICK a \in Int : a = x + u
      OBVIOUS
    <3>2. PICK b \in Int : b = v * m
      BY SMT
    <3>3. (a - b) * M = a * M - b * M
      BY SMT
    <3>4. (x + u) * M = x * M + u * M /\ (v * m) * M = v * (M * m)
      BY SMT
    <3>5. QED
      BY <3>1, <3>2, <3>3, <3>4
  <2>14. x * M \in Int /\ u * M \in Int /\ v * (M * m) \in Int
    <3>1. PICK z \in Int : z = M * m
      BY SMT
    <3>2. QED
      BY <3>1, SMT
  <2>15. QED
    BY <2>3, <2>8, <2>9, <2>10, <2>11, <2>12, <2>13, <2>14
<1>16. \A n \in Nat : n \in S
  <2> HIDE DEF S
  <2>1. QED
    BY <1>14, <1>15, Induction
<1>17. Low(d, w, size) = Low(g, w, size) - up(size) * 2^(size * w)
  BY <1>1, <1>16
<1> HIDE DEF S
<1>18. Low(g, w, size) = c /\ Word(size) = 0
  <2>1. c \div 2^(size * w) = 0
    <3>1. 2^Bits <= 2^(size * w) /\ 2^Bits \in Nat /\ 2^(size * w) \in Nat
      <4>1. size * w <= 2 * Bits + 1
        BY <1>0, <1>1
      <4>2. QED
        BY <1>0, <1>1, <4>1, PowerMonotone
    <3>2. c < 2^(size * w) /\ size * w \in 0 .. 2 * Bits + 1
      <4>1. c < 2^Bits
        BY <1>0, <1>4, <3>1
      <4>2. PICK a \in Nat, b \in Nat : a = 2^Bits /\ b = 2^(size * w)
        BY <3>1
      <4>3. c < b
        BY <3>1, <4>1, <4>2
      <4>4. PICK z \in Nat : z = size * w /\ z <= 2 * Bits
        BY <1>1
      <4>5. z \in 0 .. 2 * Bits + 1
        BY <1>0, <4>4
      <4>6. QED
        BY <4>2, <4>3, <4>4, <4>5
    <3>3. QED
      BY <3>2, NothingAbove
  <2>2. WindowsOf(g, c, w, size)
    <3>1. \A i \in 0 .. size - 1 : i \in 0 .. size
      BY <1>1
    <3>2. \A i \in 0 .. size - 1 : g[i] = GetBits(c, i * w, w)
      BY <1>6, <1>11, <3>1
    <3>3. size * w <= 2 * Bits + 1
      BY <1>0, <1>1
    <3> HIDE DEF g
    <3>4. QED
      BY <3>2, <3>3 DEF WindowsOf
  <2> HIDE DEF g
  <2>3. /\ c = Low(g, w, size) + (c \div 2^(size * w)) * 2^(size * w)
        /\ Low(g, w, size) \in Int /\ 2^(size * w) \in Nat
    BY <1>0, <1>1, <2>2, WindowsSum
  <2>4. 0 * 2^(size * w) = 0
    BY <2>3
  <2>5. Low(g, w, size) = c
    BY <2>1, <2>3, <2>4
  <2>6. Word(size) = GetBits(c, size * w, w) /\ size \in 0 .. size
    BY <1>1, <1>6
  <2>7. 0 % m = 0
    <3>1. 0 = 0 * m + 0 /\ 0 \in 0 .. m - 1 /\ m > 0
      BY <1>5
    <3>2. (0 * m + 0) % m = 0
      BY <3>1, DivUnique, 0 \in Int
    <3>3. QED
      BY <3>1, <3>2
  <2>8. QED
    BY <1>5, <2>1, <2>5, <2>6, <2>7 DEF GetBits
<1>19. Low(d, w, size + 1) = c
  <2>1. size \in 0 .. size /\ \A i \in 0 .. size : d[i] \in Int
    BY <1>1, <1>11
  <2>2. d[size] = Digit(size) /\ R[size] = Word(size) + up(size) /\ next(size) = 0
    BY <1>11, <2>1 DEF R
  <2>3. Digit(size) = R[size] - next(size) * m
    BY <1>10, <2>1
  <2> HIDE DEF d, g, next
  <2>4. size * w <= 2 * Bits + 1 /\ 2^(size * w) \in Nat /\ up(size) * 2^(size * w) \in Int
    BY <1>13, <2>1
  <2>5. /\ Low(d, w, size) \in Int
        /\ Low(d, w, size + 1) = Low(d, w, size) + d[size] * 2^(size * w)
    BY <1>0, <1>1, <2>1, <2>4, LowStep
  <2>6. d[size] = up(size)
    <3>1. up(size) \in {0, 1} /\ 0 * m = 0
      BY <1>8, <2>1
    <3>2. QED
      BY <1>18, <2>2, <2>3, <3>1
  <2>7. QED
    BY <1>17, <1>18, <2>4, <2>5, <2>6
<1>20. /\ Low(D, w, size + 1) = e * c /\ Low(D, w, size + 1) \in Int
  <2>1. Scales(D, e, d, size + 1) /\ e \in Int /\ size + 1 \in Nat
    <3>1. \A i \in 0 .. (size + 1) - 1 : i \in 0 .. size
      BY <1>1
    <3>2. \A i \in 0 .. size : d[i] \in Int /\ D[i] \in Int /\ D[i] = e * d[i]
      BY <1>11, <1>12
    <3>3. QED
      BY <1>1, <3>1, <3>2 DEF Scales
  <2> HIDE DEF d
  <2>2. QED
    BY <1>0, <1>1, <1>19, <2>1, LowScale
<1>21. D \in [0 .. size -> Int]
  <2>1. \A k \in 0 .. size : D[k] \in Int
    BY <1>12
  <2>2. D = [k \in 0 .. size |-> D[k]]
    BY DEF D
  <2>3. QED
    BY <2>1, <2>2
<1>22. QED
  BY <1>1, <1>2, <1>3, <1>4, <1>12, <1>20, <1>21

---------------------------------------------------------------------------
(* The terms of a call, and those it skips.                                *)

\* A call's point, with its logarithm.
LogOf(a) == Log[Affine(a)]

TermOK(t) == t.n \in Scalars /\ LogOf(t.a) \in Int /\ Rep(1, t.a, LogOf(t.a))

Taken(t) == t.n # 0 /\ ~t.a.infinity

\* What the first k terms of a sequence are to add up to.
Shares(q) == [i \in Nat |-> IF i < Len(q) THEN q[i + 1].n * LogOf(q[i + 1].a) ELSE 0]

AllOK(q) == \A i \in DOMAIN q : TermOK(q[i])

\* The records among which the terms used are found.
Choice(q) == {q[i] : i \in {i \in DOMAIN q : Taken(q[i])}}

LEMMA SharesInt ==
    ASSUME NEW T, NEW q \in Seq(T), AllOK(q)
    PROVE  Shares(q) \in [Nat -> Int]
<1>1. ASSUME NEW i \in Nat, i < Len(q) PROVE q[i + 1].n * LogOf(q[i + 1].a) \in Int
  <2>1. i + 1 \in DOMAIN q
    BY <1>1
  <2>2. q[i + 1].n \in Int /\ LogOf(q[i + 1].a) \in Int
    BY <2>1, Order DEF AllOK, TermOK
  <2>3. PICK u \in Int, v \in Int : u = q[i + 1].n /\ v = LogOf(q[i + 1].a)
    BY <2>2
  <2>4. u * v \in Int
    BY SMT
  <2>5. QED
    BY <2>3, <2>4
<1>2. QED
  BY <1>1 DEF Shares

\* What is left of the first k terms: it adds up to the same.
Left(u, q, k) ==
    /\ u \in Seq(Choice(q)) /\ Len(u) <= k
    /\ AllOK(u) /\ Cong(N, SumTo(Shares(u), Len(u)), SumTo(Shares(q), k))

LEMMA LeftAppend ==
    ASSUME NEW T, NEW q \in Seq(T), AllOK(q), NEW k \in 0 .. Len(q) - 1,
           NEW u, Left(u, q, k), Taken(q[k + 1])
    PROVE  Left(Append(u, q[k + 1]), q, k + 1)
<1> DEFINE t == q[k + 1]
           v == Append(u, t)
<1>1. k + 1 \in DOMAIN q /\ k \in Nat /\ t \in Choice(q) /\ TermOK(t)
  BY DEF Choice, AllOK
<1>2. u \in Seq(Choice(q)) /\ Len(u) \in Nat /\ Len(u) <= k /\ AllOK(u)
  BY DEF Left
<1>3. /\ v \in Seq(Choice(q)) /\ Len(v) = Len(u) + 1 /\ v[Len(u) + 1] = t
      /\ \A i \in 1 .. Len(u) : v[i] = u[i]
  BY <1>1, <1>2
<1> HIDE DEF v
<1>4. AllOK(v)
  <2>1. ASSUME NEW i \in DOMAIN v PROVE TermOK(v[i])
    <3>1. i \in 1 .. Len(u) \/ i = Len(u) + 1
      BY <1>2, <1>3
    <3>2. CASE i \in 1 .. Len(u)
      BY <1>2, <1>3, <3>2 DEF AllOK
    <3>3. CASE i = Len(u) + 1
      BY <1>1, <1>3, <3>3
    <3>4. QED
      BY <3>1, <3>2, <3>3
  <2>2. QED
    BY <2>1 DEF AllOK
<1>5. /\ Shares(u) \in [Nat -> Int] /\ Shares(v) \in [Nat -> Int] /\ Shares(q) \in [Nat -> Int]
  BY <1>2, <1>3, <1>4, SharesInt
<1>6. /\ SumTo(Shares(v), Len(u)) \in Int
      /\ SumTo(Shares(v), Len(u) + 1) = SumTo(Shares(v), Len(u)) + Shares(v)[Len(u)]
      /\ SumTo(Shares(q), k) \in Int /\ SumTo(Shares(u), Len(u)) \in Int
      /\ SumTo(Shares(q), k + 1) = SumTo(Shares(q), k) + Shares(q)[k]
  BY <1>1, <1>2, <1>5, SumStep
<1>7. Shares(v)[Len(u)] = Shares(q)[k] /\ Shares(q)[k] \in Int
  <2>1. Shares(v)[Len(u)] = t.n * LogOf(t.a)
    BY <1>2, <1>3 DEF Shares
  <2>2. Shares(q)[k] = t.n * LogOf(t.a)
    BY <1>1 DEF Shares
  <2>3. QED
    BY <1>1, <1>5, <2>1, <2>2
<1>8. SumTo(Shares(v), Len(u)) = SumTo(Shares(u), Len(u))
  <2>1. ASSUME NEW i \in 0 .. Len(u) - 1 PROVE Shares(v)[i] = Shares(u)[i]
    <3>1. i \in Nat /\ i < Len(u) /\ i < Len(v) /\ i + 1 \in 1 .. Len(u)
      BY <1>2, <1>3
    <3>2. v[i + 1] = u[i + 1]
      BY <1>3, <3>1
    <3>3. QED
      BY <3>1, <3>2 DEF Shares
  <2>2. QED
    BY <1>2, <1>5, <2>1, SumEqual
<1>9. Cong(N, SumTo(Shares(v), Len(u) + 1), SumTo(Shares(q), k + 1))
  <2> DEFINE x == SumTo(Shares(u), Len(u))
             y == SumTo(Shares(q), k)
             z == Shares(q)[k]
  <2>1. x \in Int /\ y \in Int /\ z \in Int /\ Cong(N, x, y)
    BY <1>6, <1>7 DEF Left
  <2> HIDE DEF x, y, z
  <2>2. Cong(N, z, z)
    BY <2>1, Order, CongRefl
  <2>3. Cong(N, x + z, y + z)
    BY <2>1, <2>2, Order, CongAdd, Zenon
  <2>4. QED
    BY <1>6, <1>7, <1>8, <2>3 DEF x, y, z
<1>10. Left(v, q, k + 1)
  BY <1>1, <1>2, <1>3, <1>4, <1>9 DEF Left
<1>11. QED
  BY <1>10 DEF v

LEMMA LeftSkip ==
    ASSUME NEW T, NEW q \in Seq(T), AllOK(q), NEW k \in 0 .. Len(q) - 1,
           NEW u, Left(u, q, k), ~Taken(q[k + 1])
    PROVE  Left(u, q, k + 1)
<1> DEFINE t == q[k + 1]
<1>1. k + 1 \in DOMAIN q /\ k \in Nat /\ TermOK(t)
  BY DEF AllOK
<1>2. u \in Seq(Choice(q)) /\ Len(u) \in Nat /\ Len(u) <= k /\ AllOK(u)
  BY DEF Left
<1>3. Shares(u) \in [Nat -> Int] /\ Shares(q) \in [Nat -> Int]
  BY <1>2, SharesInt
<1>4. /\ SumTo(Shares(q), k) \in Int /\ SumTo(Shares(u), Len(u)) \in Int
      /\ SumTo(Shares(q), k + 1) = SumTo(Shares(q), k) + Shares(q)[k]
  BY <1>1, <1>2, <1>3, SumStep
<1>5. Shares(q)[k] = t.n * LogOf(t.a)
  BY <1>1 DEF Shares
<1>6. PICK n \in Int, l \in Int : n = t.n /\ l = LogOf(t.a)
  BY <1>1, Order DEF TermOK
<1>7. n * l \in Int /\ Cong(N, n * l, 0)
  <2>0. n * l \in Int
    BY SMT
  <2>1. CASE n = 0
    <3>1. n * l = 0
      BY <2>1, SMT
    <3>2. Cong(N, 0, 0)
      BY Order, CongRefl, 0 \in Int
    <3>3. QED
      BY <2>0, <3>1, <3>2
  <2>2. CASE t.a.infinity
    <3>1. Cong(N, l, 0) /\ 0 \in Int
      BY <1>1, <1>6, <2>2, RepOfInfinity DEF TermOK
    <3>2. Cong(N, n, n)
      BY Order, CongRefl
    <3>3. Cong(N, n * l, n * 0)
      BY <3>1, <3>2, Order, CongMul, Zenon
    <3>4. n * 0 = 0
      BY SMT
    <3>5. QED
      BY <2>0, <3>3, <3>4
  <2>3. QED
    BY <1>6, <2>1, <2>2 DEF Taken
<1>8. Cong(N, SumTo(Shares(u), Len(u)), SumTo(Shares(q), k) + n * l)
  <2> DEFINE x == SumTo(Shares(u), Len(u))
             y == SumTo(Shares(q), k)
  <2>1. x \in Int /\ y \in Int /\ Cong(N, x, y)
    BY <1>4 DEF Left
  <2> HIDE DEF x, y
  <2>2. PICK z \in Int : z = n * l
    BY <1>7
  <2>3. Cong(N, 0, z) /\ 0 \in Int
    BY <1>7, <2>2, Order, CongSym
  <2>4. Cong(N, x + 0, y + z)
    BY <2>1, <2>3, Order, CongAdd, Zenon
  <2>5. x + 0 = x
    BY <2>1
  <2>6. QED
    BY <2>2, <2>4, <2>5 DEF x, y
<1>9. Cong(N, SumTo(Shares(u), Len(u)), SumTo(Shares(q), k + 1))
  BY <1>4, <1>5, <1>6, <1>8
<1>10. QED
  BY <1>1, <1>2, <1>9 DEF Left

LEMMA LeftEmpty ==
    ASSUME NEW T, NEW q \in Seq(T), AllOK(q)
    PROVE  Left(<< >>, q, 0)
<1>1. << >> \in Seq(Choice(q)) /\ Len(<< >>) = 0 /\ AllOK(<< >>)
  BY DEF AllOK
<1>2. Shares(<< >>) \in [Nat -> Int] /\ Shares(q) \in [Nat -> Int]
  BY <1>1, SharesInt
<1>3. SumTo(Shares(<< >>), 0) = 0 /\ SumTo(Shares(q), 0) = 0
  BY <1>2, SumZero
<1>4. Cong(N, 0, 0)
  BY Order, CongRefl, 0 \in Int
<1>5. QED
  BY <1>1, <1>3, <1>4 DEF Left

\* What is skipped adds nothing.
LEMMA UsedRight ==
    ASSUME NEW T, NEW q \in Seq(T), AllOK(q)
    PROVE  Left(Used(q), q, Len(q))
<1>0. Len(q) \in Nat
  OBVIOUS
<1> DEFINE n == Len(q)
           Next1(u, k) == IF q[k].n # 0 /\ ~q[k].a.infinity THEN Append(u, q[k]) ELSE u
           D == CHOOSE d : d = [k \in 0 .. n |-> IF k = 0 THEN << >> ELSE Next1(d[k - 1], k)]
           A == [k \in Nat |-> {u \in Seq(Choice(q)) : Left(u, q, k)}]
<1>1. Used(q) = D[n]
  BY DEF Used
<1>2. << >> \in A[0]
  <2>1. Left(<< >>, q, 0) /\ << >> \in Seq(Choice(q))
    BY LeftEmpty
  <2>2. QED
    BY <2>1
<1>3. ASSUME NEW i \in 0 .. n - 1, NEW u \in A[i] PROVE Next1(u, i + 1) \in A[i + 1]
  <2>1. i \in Nat /\ i + 1 \in Nat /\ Left(u, q, i)
    BY <1>3
  <2>2. CASE Taken(q[i + 1])
    <3>1. Left(Append(u, q[i + 1]), q, i + 1)
      BY <2>1, <2>2, LeftAppend
    <3>2. Next1(u, i + 1) = Append(u, q[i + 1])
      BY <2>2 DEF Taken
    <3>3. Left(Next1(u, i + 1), q, i + 1)
      BY <3>1, <3>2
    <3> HIDE DEF Next1
    <3>4. Next1(u, i + 1) \in Seq(Choice(q))
      BY <3>3 DEF Left
    <3>5. QED
      BY <2>1, <3>3, <3>4
  <2>3. CASE ~Taken(q[i + 1])
    <3>1. Left(u, q, i + 1)
      BY <2>1, <2>3, LeftSkip
    <3>2. Next1(u, i + 1) = u
      BY <2>3 DEF Taken
    <3> HIDE DEF Next1
    <3>4. u \in Seq(Choice(q))
      BY <3>1 DEF Left
    <3>5. QED
      BY <2>1, <3>1, <3>2, <3>4
  <2>4. QED
    BY <2>2, <2>3
<1> HIDE DEF A, Next1
<1>4. D = [k \in 0 .. n |-> IF k = 0 THEN << >> ELSE Next1(D[k - 1], k)]
  <2> DEFINE step == [i \in 0 .. n - 1 |-> [u \in A[i] |-> Next1(u, i + 1)]]
  <2>1. \A i \in 0 .. n - 1 : \A u \in A[i] : step[i][u] \in A[i + 1]
    BY <1>3
  <2>2. \A i \in 0 .. n - 1 : \A u \in A[i] : step[i][u] = Next1(u, i + 1)
    OBVIOUS
  <2> HIDE DEF step
  <2>3. PICK g : Walks(g, step, A, << >>, n)
    <3>1. Closed(step, A, n)
      BY <2>1 DEF Closed
    <3>2. QED
      BY <1>0, <1>2, <3>1, Iterated
  <2>4. /\ g = [i \in 0 .. n |-> g[i]] /\ g[0] = << >>
        /\ \A i \in 0 .. n : g[i] \in A[i]
        /\ \A i \in 0 .. n - 1 : g[i + 1] = step[i][g[i]]
    BY <2>3 DEF Walks
  <2>5. ASSUME NEW i \in 0 .. n, i # 0 PROVE g[i] = Next1(g[i - 1], i)
    <3>1. i - 1 \in 0 .. n - 1 /\ (i - 1) + 1 = i /\ i - 1 \in 0 .. n
      BY <1>0, <2>5
    <3>2. g[(i - 1) + 1] = step[i - 1][g[i - 1]] /\ g[i - 1] \in A[i - 1]
      BY <2>4, <3>1
    <3>3. step[i - 1][g[i - 1]] = Next1(g[i - 1], (i - 1) + 1)
      BY <2>2, <3>1, <3>2
    <3>4. QED
      BY <3>1, <3>2, <3>3
  <2>6. \A i \in 0 .. n : g[i] = IF i = 0 THEN << >> ELSE Next1(g[i - 1], i)
    BY <2>4, <2>5
  <2>7. g = [k \in 0 .. n |-> IF k = 0 THEN << >> ELSE Next1(g[k - 1], k)]
    BY <2>4, <2>6
  <2>8. QED
    BY <2>7
<1> HIDE DEF D
<1>5. \A i \in 0 .. n : D[i] \in A[i]
  <2>1. D[0] = << >> /\ 0 \in 0 .. n
    BY <1>0, <1>4
  <2>2. ASSUME NEW i \in 0 .. n - 1, D[i] \in A[i] PROVE D[i + 1] \in A[i + 1]
    <3>1. i + 1 \in 0 .. n /\ i + 1 # 0 /\ (i + 1) - 1 = i
      BY <1>0
    <3>2. D[i + 1] = Next1(D[(i + 1) - 1], i + 1)
      BY <1>4, <3>1
    <3>3. QED
      BY <1>3, <2>2, <3>1, <3>2
  <2>3. QED
    BY <1>0, <1>2, <2>1, <2>2, Kept
<1>6. n \in 0 .. n /\ n \in Nat
  BY <1>0
<1>7. D[n] \in A[n]
  BY <1>5, <1>6
<1>8. QED
  BY <1>1, <1>6, <1>7 DEF A

TermRecords == [n : Scalars, a : Gejs]

LEMMA AffineStands ==
    ASSUME NEW a, NEW p, Stands(a, p)
    PROVE  Affine(a) = p
<1> DEFINE g == GeSetGejZinv(a, FieldInverse[a.z])
<1>1. ~a.infinity => g = ToGe(p)
  BY AffineOf
<1>2. CASE a.infinity
  BY <1>2 DEF Affine, Stands
<1>3. CASE ~a.infinity
  <2>1. p # Infinity /\ p \in Points
    BY <1>3 DEF Stands
  <2>2. p = <<p[1], p[2]>>
    BY <2>1 DEF Points
  <2>3. g.x = p[1] /\ g.y = p[2]
    BY <1>1, <1>3, <2>1 DEF ToGe, Ge
  <2>4. Affine(a) = <<g.x, g.y>>
    BY <1>3 DEF Affine
  <2>5. QED
    BY <2>2, <2>3, <2>4
<1>4. QED
  BY <1>2, <1>3

LEMMA StandsTerm ==
    ASSUME NEW n \in Scalars, NEW a, NEW p \in Points, Stands(a, p)
    PROVE  /\ TermOK([n |-> n, a |-> a]) /\ [n |-> n, a |-> a] \in TermRecords
           /\ LogOf(a) = Log[p]
<1>1. LogOf(a) = Log[p] /\ Log[p] \in Int /\ TimesOf(Log[p]) = p
  BY AffineStands, TimesOfLog DEF LogOf
<1>2. Rep(1, a, Log[p])
  BY <1>1, RepIsStands
<1>3. a \in Gejs
  BY DEF Stands
<1>4. QED
  BY <1>1, <1>2, <1>3 DEF TermOK, TermRecords

\* The terms the calls are given.
LEMMA InputTerm ==
    ASSUME NEW n \in Scalars, NEW t \in Terms
    PROVE  LET a == [n |-> n, a |-> ToGej(t.p, t.z)]
               b == [n |-> n, a |-> ToGej(t.p, 1)]
           IN  /\ TermOK(a) /\ a \in TermRecords /\ TermOK(b) /\ b \in TermRecords
               /\ Stands(ToGej(t.p, 1), t.p)
<1>1. t.p \in Points /\ t.z \in 1 .. P - 1 /\ 1 \in 1 .. P - 1
  BY InputAssumption, Prime
<1>2. Stands(ToGej(t.p, t.z), t.p) /\ Stands(ToGej(t.p, 1), t.p)
  <2>1. t.z \in Field /\ t.z # 0 /\ 1 \in Field /\ 1 # 0
    BY <1>1, Prime
  <2>2. QED
    BY <1>1, <2>1, OperandStands
<1>3. QED
  BY <1>1, <1>2, StandsTerm

LEMMA GeneratorTerm ==
    ASSUME NEW n \in Scalars
    PROVE  LET t == [n |-> n, a |-> GejSetGe(ToGe(G))]
           IN  TermOK(t) /\ t \in TermRecords /\ LogOf(t.a) = 1
<1>1. G \in Points /\ Log[G] = 1
  BY GeneratorIsOne
<1>2. Stands(GejSetGe(ToGe(G)), G)
  BY <1>1, GeStands
<1>3. QED
  BY <1>1, <1>2, StandsTerm

\* The sequences of terms the calls start with.
Asked(ts) == ts \in Seq(TermRecords) /\ Len(ts) \in {1, 2} /\ AllOK(ts)

LEMMA AskedOne ==
    ASSUME NEW t \in TermRecords, TermOK(t)
    PROVE  Asked(<<t>>) /\ Len(<<t>>) = 1
<1>1. <<t>> \in Seq(TermRecords) /\ Len(<<t>>) = 1
  OBVIOUS
<1>2. \A i \in DOMAIN <<t>> : <<t>>[i] = t
  OBVIOUS
<1>3. QED
  BY <1>1, <1>2 DEF Asked, AllOK

LEMMA AskedTwo ==
    ASSUME NEW t \in TermRecords, TermOK(t), NEW u \in TermRecords, TermOK(u)
    PROVE  Asked(<<t, u>>)
<1>1. <<t, u>> \in Seq(TermRecords) /\ Len(<<t, u>>) = 2
  OBVIOUS
<1>2. \A i \in DOMAIN <<t, u>> : <<t, u>>[i] = t \/ <<t, u>>[i] = u
  OBVIOUS
<1>3. QED
  BY <1>1, <1>2 DEF Asked, AllOK

LEMMA BatchAsked == ASSUME NEW ts \in Batches PROVE Asked(ts)
<1>1. CASE \E n \in Scalars, t \in Terms : ts = << [n |-> n, a |-> ToGej(t.p, 1)] >>
  BY <1>1, InputTerm, AskedOne
<1>2. CASE \E n \in Scalars, m \in BatchScalars, t \in Terms, u \in Terms :
             ts = << [n |-> n, a |-> ToGej(t.p, 1)], [n |-> m, a |-> ToGej(u.p, 1)] >>
  <2>1. PICK n \in Scalars, m \in BatchScalars, t \in Terms, u \in Terms :
             ts = << [n |-> n, a |-> ToGej(t.p, 1)], [n |-> m, a |-> ToGej(u.p, 1)] >>
    BY <1>2
  <2>2. m \in Scalars
    BY InputAssumption
  <2>3. QED
    BY <2>1, <2>2, InputTerm, AskedTwo
<1>3. QED
  BY <1>1, <1>2 DEF Batches

\* The terms used are terms of the call, with a scalar and a finite point.
UsedOK(used, max) ==
    /\ used \in Seq(TermRecords) /\ Len(used) \in 0 .. max /\ AllOK(used)
    /\ \A k \in 1 .. Len(used) : Taken(used[k])

\* The terms used have the sum of all.
LEMMA UsedAsked ==
    ASSUME NEW q \in Seq(TermRecords), AllOK(q)
    PROVE  /\ UsedOK(Used(q), Len(q))
           /\ \A k \in 1 .. Len(Used(q)) : \E i \in DOMAIN q : Used(q)[k] = q[i]
           /\ Cong(N, SumTo(Shares(Used(q)), Len(Used(q))), SumTo(Shares(q), Len(q)))
<1> DEFINE u == Used(q)
<1>1. Left(u, q, Len(q))
  BY UsedRight
<1> HIDE DEF u
<1>2. /\ u \in Seq(Choice(q)) /\ Len(u) <= Len(q) /\ AllOK(u)
      /\ Cong(N, SumTo(Shares(u), Len(u)), SumTo(Shares(q), Len(q)))
  BY <1>1 DEF Left
<1>3. Choice(q) \subseteq TermRecords /\ \A t \in Choice(q) : Taken(t)
  BY DEF Choice
<1>4. u \in Seq(TermRecords) /\ Len(u) \in Nat /\ Len(q) \in Nat
  BY <1>2, <1>3
<1>5. \A k \in 1 .. Len(u) : u[k] \in Choice(q)
  BY <1>2
<1>6. \A k \in 1 .. Len(u) : \E i \in DOMAIN q : u[k] = q[i]
  BY <1>5 DEF Choice
<1>7. QED
  BY <1>2, <1>3, <1>4, <1>5, <1>6 DEF UsedOK, u

---------------------------------------------------------------------------
(* The digits the calls start with.                                        *)

\* The digits of G, and those of all terms.
GDigits(g) == IF g = NoScalar THEN [i \in 0 .. Bits - 1 |-> 0] ELSE EcmultWnaf(g, WINDOW_G)

StraussDigits(used, g) ==
    Append([k \in DOMAIN used |-> EcmultWnaf(used[k].n, WINDOW_A)], GDigits(g))

LEMMA WindowSizes ==
    /\ WINDOW_A \in 2 .. Bits /\ WINDOW_G \in 2 .. Bits /\ WINDOW_A - 1 \in 1 .. Bits
    /\ WINDOW_A \in Int /\ (WINDOW_A - 1) + 1 = WINDOW_A /\ Bits >= 3 /\ Bits \in Nat
BY WindowAssumption, Two

\* The digits of a scalar, or of none.
Recoded(d, w, n) ==
    /\ d \in [0 .. Bits - 1 -> Int] /\ \A i \in 0 .. Bits - 1 : Fit(d[i], w)
    /\ Low(d, 1, Bits) \in Int /\ Cong(N, Low(d, 1, Bits), n)

Given(g) == IF g = NoScalar THEN 0 ELSE g

LEMMA EcmultWnafRecoded ==
    ASSUME NEW n \in Scalars, NEW w \in 2 .. Bits
    PROVE  Recoded(EcmultWnaf(n, w), w, n)
BY EcmultWnafRight DEF Recoded

LEMMA GRecoded ==
    ASSUME NEW g \in Scalars \cup {NoScalar}
    PROVE  Recoded(GDigits(g), WINDOW_G, Given(g)) /\ Given(g) \in Scalars
<1>1. CASE g # NoScalar
  BY <1>1, EcmultWnafRecoded, WindowSizes DEF GDigits, Given
<1>2. CASE g = NoScalar
  <2> DEFINE d == [i \in 0 .. Bits - 1 |-> 0]
  <2>1. d \in [0 .. Bits - 1 -> Int] /\ \A i \in 0 .. Bits - 1 : d[i] = 0
    OBVIOUS
  <2> HIDE DEF d
  <2>2. \A i \in 0 .. Bits - 1 : Fit(d[i], WINDOW_G)
    BY <2>1 DEF Fit
  <2>3. Low(d, 1, Bits) = 0
    <3>1. \A i \in 0 .. Bits - 1 : d[i] \in Int
      BY <2>1
    <3>2. Short(1, Bits) /\ 0 <= Bits /\ 0 \in Nat /\ 1 \in Nat /\ Bits \in Nat
      BY Two DEF Short
    <3>3. \A i \in 0 .. Bits - 1 : d[i] = 0
      BY <2>1
    <3>4. Low(d, 1, Bits) = Low(d, 1, 0)
      BY <3>1, <3>2, <3>3, LowSame
    <3>5. Low(d, 1, 0) = 0
      BY LowZero, <3>2
    <3>6. QED
      BY <3>4, <3>5
  <2>4. Cong(N, 0, 0)
    BY Order, CongRefl, 0 \in Int
  <2>5. GDigits(g) = d /\ Given(g) = 0 /\ 0 \in Scalars
    BY <1>2, Order DEF GDigits, Given, d
  <2>6. QED
    BY <2>1, <2>2, <2>3, <2>4, <2>5 DEF Recoded
<1>3. QED
  BY <1>1, <1>2

\* The digits strauss_wnaf starts with are those of its scalars.
LEMMA StraussDigitsRight ==
    ASSUME NEW used, NEW max, UsedOK(used, max), NEW g \in Scalars \cup {NoScalar}
    PROVE  LET D == StraussDigits(used, g)
           IN  /\ DOMAIN D = 1 .. Len(used) + 1 /\ Len(D) = Len(used) + 1
               /\ \A k \in 1 .. Len(used) : Recoded(D[k], WINDOW_A, used[k].n)
               /\ \A k \in 1 .. Len(used) : D[k] = EcmultWnaf(used[k].n, WINDOW_A)
               /\ D[Len(used) + 1] = GDigits(g)
<1> DEFINE W == [k \in DOMAIN used |-> EcmultWnaf(used[k].n, WINDOW_A)]
           S == {EcmultWnaf(used[k].n, WINDOW_A) : k \in DOMAIN used}
<1>1. used \in Seq(TermRecords) /\ Len(used) \in Nat /\ DOMAIN used = 1 .. Len(used)
  BY DEF UsedOK
<1>2. W \in Seq(S) /\ Len(W) = Len(used) /\ \A k \in 1 .. Len(used) : W[k] = EcmultWnaf(used[k].n, WINDOW_A)
  <2>1. W = [k \in 1 .. Len(used) |-> EcmultWnaf(used[k].n, WINDOW_A)]
    BY <1>1
  <2>2. W \in [1 .. Len(used) -> S]
    BY <1>1
  <2>3. \A k \in 1 .. Len(used) : W[k] = EcmultWnaf(used[k].n, WINDOW_A)
    BY <2>1
  <2> HIDE DEF W, S
  <2>4. W \in Seq(S) /\ Len(W) = Len(used)
    BY <1>1, <2>2
  <2>5. QED
    BY <2>3, <2>4
<1> HIDE DEF W
<1>3. \A k \in 1 .. Len(used) : Recoded(EcmultWnaf(used[k].n, WINDOW_A), WINDOW_A, used[k].n)
  <2>1. ASSUME NEW k \in 1 .. Len(used) PROVE used[k].n \in Scalars
    BY <1>1 DEF UsedOK, AllOK, TermOK
  <2>2. QED
    BY <2>1, EcmultWnafRecoded, WindowSizes
<1> DEFINE D == StraussDigits(used, g)
<1>4. D = Append(W, GDigits(g))
  BY DEF StraussDigits, W
<1> HIDE DEF D
<1>5. /\ Len(D) = Len(used) + 1 /\ DOMAIN D = 1 .. Len(used) + 1
      /\ D[Len(used) + 1] = GDigits(g) /\ \A k \in 1 .. Len(used) : D[k] = W[k]
  <2> DEFINE gd == GDigits(g)
  <2>1. gd \in S \cup {gd} /\ W \in Seq(S \cup {gd})
    BY <1>2
  <2> HIDE DEF gd, S
  <2>2. QED
    BY <1>1, <1>2, <1>4, <2>1 DEF gd
<1>6. QED
  BY <1>2, <1>3, <1>5 DEF D

LEMMA FitFits == ASSUME NEW d, NEW w, Fit(d, w) PROVE Fits(d, w)
BY DEF Fit, Fits

\* A call of Strauss starts with digits that fit.
LEMMA StartDigitsFit ==
    ASSUME NEW name \in {"ecmult", "strauss"}, NEW ts, Asked(ts),
           NEW g \in Scalars \cup {NoScalar}, StartStrauss(name, ts, g)
    PROVE  DigitsFit'
<1> DEFINE used == Used(ts)
           D == StraussDigits(used, g)
<1>1. alg' = name /\ digits' = D
  BY DEF StartStrauss, StraussDigits, GDigits
<1>2. UsedOK(used, Len(ts)) /\ Len(used) \in Nat
  BY UsedAsked DEF Asked, UsedOK
<1> HIDE DEF used
<1>3. /\ DOMAIN D = 1 .. Len(used) + 1 /\ Len(D) = Len(used) + 1
      /\ \A k \in 1 .. Len(used) : Recoded(D[k], WINDOW_A, used[k].n)
      /\ D[Len(used) + 1] = GDigits(g)
  BY <1>2, StraussDigitsRight
<1>4. Recoded(GDigits(g), WINDOW_G, Given(g))
  BY GRecoded
<1> HIDE DEF D
<1>5. ASSUME NEW k \in DOMAIN D, NEW i \in 0 .. Bits - 1
      PROVE  Fits(D[k][i], IF k = Len(D) THEN WINDOW_G ELSE WINDOW_A)
  <2>1. CASE k = Len(used) + 1
    <3>1. Fit(D[k][i], WINDOW_G) /\ k = Len(D)
      BY <1>3, <1>4, <2>1 DEF Recoded
    <3>2. QED
      BY <3>1, FitFits
  <2>2. CASE k # Len(used) + 1
    <3>1. k \in 1 .. Len(used) /\ k # Len(D)
      BY <1>2, <1>3, <2>2
    <3>2. Fit(D[k][i], WINDOW_A)
      BY <1>3, <3>1 DEF Recoded
    <3>3. QED
      BY <3>1, <3>2, FitFits
  <2>3. QED
    BY <2>1, <2>2
<1>6. \A k \in DOMAIN D, i \in 0 .. Bits - 1 :
         Fits(D[k][i], IF k = Len(D) THEN WINDOW_G ELSE WINDOW_A)
  BY <1>5
<1>7. CASE alg' = "ecmult"
  BY <1>1, <1>6, <1>7 DEF DigitsFit
<1>8. CASE alg' = "strauss"
  BY <1>1, <1>6, <1>8 DEF DigitsFit
<1>9. QED
  BY <1>1, <1>7, <1>8

\* The terms pippenger_batch works on: G first, if it has a scalar.
All(ts, g) == IF g = NoScalar THEN ts
              ELSE << [n |-> g, a |-> GejSetGe(ToGe(G))] >> \o ts

LEMMA AllAsked ==
    ASSUME NEW ts, Asked(ts), NEW g \in Scalars \cup {NoScalar}
    PROVE  All(ts, g) \in Seq(TermRecords) /\ AllOK(All(ts, g)) /\ Len(All(ts, g)) \in 1 .. 3
<1>1. ts \in Seq(TermRecords) /\ AllOK(ts) /\ Len(ts) \in {1, 2}
  BY DEF Asked
<1>2. CASE g = NoScalar
  BY <1>1, <1>2 DEF All
<1>3. CASE g # NoScalar
  <2> DEFINE t == [n |-> g, a |-> GejSetGe(ToGe(G))]
             q == <<t>> \o ts
  <2>1. t \in TermRecords /\ TermOK(t)
    BY <1>3, GeneratorTerm
  <2>2. All(ts, g) = q
    BY <1>3 DEF All
  <2> HIDE DEF t
  <2>3. /\ q \in Seq(TermRecords) /\ Len(q) = 1 + Len(ts) /\ q[1] = t
        /\ \A i \in 1 .. Len(ts) : q[i + 1] = ts[i]
    BY <1>1, <2>1
  <2> HIDE DEF q
  <2>4. ASSUME NEW i \in DOMAIN q PROVE TermOK(q[i])
    <3>1. CASE i = 1
      BY <2>1, <2>3, <3>1
    <3>2. CASE i # 1
      <4>1. i - 1 \in 1 .. Len(ts) /\ (i - 1) + 1 = i
        BY <1>1, <2>3, <3>2
      <4>2. q[i] = ts[i - 1] /\ i - 1 \in DOMAIN ts
        BY <1>1, <2>3, <4>1
      <4>3. QED
        BY <1>1, <4>2 DEF AllOK
    <3>3. QED
      BY <3>1, <3>2
  <2>5. AllOK(q)
    BY <2>4 DEF AllOK
  <2>6. QED
    BY <1>1, <2>2, <2>3, <2>5
<1>4. QED
  BY <1>2, <1>3

LEMMA BucketWindowSize ==
    ASSUME NEW n
    PROVE  BucketWindow(n) \in {1, 2} /\ BucketWindow(n) + 1 \in 1 .. Bits
           /\ (BucketWindow(n) + 1) + 1 = BucketWindow(n) + 2
BY WindowSizes DEF BucketWindow

\* The recodings pippenger_batch works with.
PippengerDigits(used, w) == [k \in DOMAIN used |-> WnafFixed(used[k].n, w + 1)]

FixedRecoded(d, w, n) ==
    /\ d.skew \in {0, 1} /\ d.digit \in [0 .. WnafSize(w) - 1 -> Int]
    /\ \A i \in 0 .. WnafSize(w) - 1 : Fit(d.digit[i], w + 1)
    /\ Low(d.digit, w, (WnafSize(w) - 1) + 1) = n + d.skew

\* The digits pippenger_wnaf starts with are those of its scalars.
LEMMA PippengerDigitsRight ==
    ASSUME NEW used, NEW max, UsedOK(used, max), NEW w, w + 1 \in 1 .. Bits
    PROVE  LET D == PippengerDigits(used, w)
           IN  /\ DOMAIN D = 1 .. Len(used) /\ Len(D) = Len(used) /\ Len(used) \in Nat
               /\ \A k \in 1 .. Len(used) : FixedRecoded(D[k], w + 1, used[k].n)
<1>1. used \in Seq(TermRecords) /\ Len(used) \in Nat /\ DOMAIN used = 1 .. Len(used)
  BY DEF UsedOK
<1> DEFINE D == PippengerDigits(used, w)
<1>2. DOMAIN D = 1 .. Len(used) /\ \A k \in 1 .. Len(used) : D[k] = WnafFixed(used[k].n, w + 1)
  BY <1>1 DEF PippengerDigits
<1>3. Len(D) = Len(used)
  <2>1. D = [k \in 1 .. Len(used) |-> D[k]]
    BY <1>1 DEF PippengerDigits
  <2>2. D \in Seq({D[k] : k \in 1 .. Len(used)})
    <3> DEFINE S == {D[k] : k \in 1 .. Len(used)}
    <3>1. D \in [1 .. Len(used) -> S]
      BY <2>1
    <3> HIDE DEF D, S
    <3>2. QED
      BY <1>1, <3>1
  <2> HIDE DEF D
  <2>3. QED
    BY <1>1, <1>2, <2>2
<1>4. ASSUME NEW k \in 1 .. Len(used) PROVE FixedRecoded(WnafFixed(used[k].n, w + 1), w + 1, used[k].n)
  <2>1. used[k].n \in Scalars
    BY <1>1 DEF UsedOK, AllOK, TermOK
  <2>2. QED
    BY <2>1, WnafFixedRight DEF FixedRecoded
<1>5. QED
  BY <1>1, <1>2, <1>3, <1>4

\* What the wNAF of a scalar in constant time is.
ConstRecoded(d, skew, w, n) ==
    /\ d \in [0 .. WnafSize(w) -> Int] /\ WnafSize(w) \in Nat /\ WnafSize(w) >= 1
    /\ Short(w, WnafSize(w) + 1) /\ skew \in {1, 2}
    /\ \A i \in 0 .. WnafSize(w) : d[i] # 0 /\ Fit(d[i], w + 1)
    /\ Low(d, w, WnafSize(w) + 1) \in Int
    /\ Cong(N, Low(d, w, WnafSize(w) + 1), n + skew)

\* The digits of ecmult_const are those of its scalar.
LEMMA ConstDigitsRight ==
    ASSUME NEW n \in Scalars \ {0}
    PROVE  LET C == WnafConst(n, WINDOW_A - 1)
           IN  ConstRecoded(C.digit, C.skew, WINDOW_A - 1, n)
BY WnafConstRight, WindowSizes DEF ConstRecoded

\* Every table lookup stays inside its table, whatever is multiplied.
THEOREM DigitsFitTheorem == Spec => []DigitsFit
<1>1. Init => DigitsFit
  BY DEF Init, DigitsFit
<1>2. DigitsFit /\ [Next]_vars => DigitsFit'
  <2>1. SUFFICES ASSUME DigitsFit, [Next]_vars PROVE DigitsFit'
    OBVIOUS
  <2>2. CASE Ecmult
    <3>1. PICK n \in Scalars, t \in Terms, g \in GScalars \ {NoScalar} :
             StartStrauss("ecmult", << [n |-> n, a |-> ToGej(t.p, t.z)] >>, g)
      BY <2>2 DEF Ecmult
    <3>2. Asked(<< [n |-> n, a |-> ToGej(t.p, t.z)] >>)
      BY InputTerm, AskedOne
    <3>3. g \in Scalars \cup {NoScalar}
      BY InputAssumption
    <3>4. QED
      BY <3>1, <3>2, <3>3, StartDigitsFit
  <2>3. CASE StraussBatch
    <3>1. PICK ts \in Batches, g \in GScalars : StartStrauss("strauss", ts, g)
      BY <2>3 DEF StraussBatch
    <3>2. Asked(ts) /\ g \in Scalars \cup {NoScalar}
      BY BatchAsked, InputAssumption
    <3>3. QED
      BY <3>1, <3>2, StartDigitsFit
  <2>4. CASE StraussStep \/ ConstStep \/ PippengerStep
    <3>1. UNCHANGED <<alg, terms, digits>>
      BY <2>4 DEF StraussStep, ConstStep, PippengerStep
    <3>2. QED
      BY <2>1, <3>1 DEF DigitsFit, BucketWindow
  <2>5. CASE Const
    <3>1. PICK n \in Scalars \ {0} :
             alg' = "const" /\ digits' = << WnafConst(n, WINDOW_A - 1).digit >>
      BY <2>5 DEF Const
    <3> DEFINE d == WnafConst(n, WINDOW_A - 1).digit
    <3>2. /\ d \in [0 .. WnafSize(WINDOW_A - 1) -> Int]
          /\ \A i \in 0 .. WnafSize(WINDOW_A - 1) : d[i] # 0 /\ Fit(d[i], WINDOW_A)
      BY ConstDigitsRight, WindowSizes DEF ConstRecoded
    <3> HIDE DEF d
    <3>3. \A i \in DOMAIN d : d[i] # 0 /\ Fits(d[i], WINDOW_A)
      BY <3>2, FitFits
    <3>4. digits'[1] = d
      BY <3>1 DEF d
    <3>5. QED
      BY <3>1, <3>3, <3>4 DEF DigitsFit
  <2>6. CASE PippengerBatch
    <3>1. PICK ts \in Batches, g \in GScalars :
             /\ alg' = "pippenger" /\ terms' = ts
             /\ digits' = PippengerDigits(Used(All(ts, g)), BucketWindow(Len(ts)))
      BY <2>6 DEF PippengerBatch, All, PippengerDigits
    <3>2. Asked(ts) /\ g \in Scalars \cup {NoScalar}
      BY BatchAsked, InputAssumption
    <3> DEFINE used == Used(All(ts, g))
               w == BucketWindow(Len(ts))
               D == PippengerDigits(used, w)
    <3>3. UsedOK(used, Len(All(ts, g)))
      BY <3>2, AllAsked, UsedAsked
    <3>4. w + 1 \in 1 .. Bits /\ (w + 1) + 1 = w + 2
      BY BucketWindowSize
    <3> HIDE DEF used, w
    <3>5. /\ DOMAIN D = 1 .. Len(used)
          /\ \A k \in 1 .. Len(used) : FixedRecoded(D[k], w + 1, used[k].n)
      BY <3>3, <3>4, PippengerDigitsRight
    <3> HIDE DEF D
    <3>6. ASSUME NEW k \in DOMAIN D, NEW i \in DOMAIN D[k].digit PROVE Fits(D[k].digit[i], w + 2)
      BY <3>4, <3>5, FitFits DEF FixedRecoded
    <3>7. alg' = "pippenger" /\ terms' = ts /\ digits' = D
      BY <3>1 DEF D, used, w
    <3>8. \A k \in DOMAIN D : \A i \in DOMAIN D[k].digit : Fits(D[k].digit[i], BucketWindow(Len(ts)) + 2)
      BY <3>6 DEF w
    <3>9. QED
      BY <3>7, <3>8 DEF DigitsFit
  <2>7. CASE Gen \/ GenStep
    <3>1. alg' = "gen"
      BY <2>7 DEF Gen, GenStep
    <3>2. QED
      BY <3>1 DEF DigitsFit
  <2>8. CASE Return
    BY <2>8 DEF Return, DigitsFit
  <2>9. CASE UNCHANGED vars
    BY <2>1, <2>9 DEF DigitsFit, vars, BucketWindow
  <2>10. QED
    BY <2>1, <2>2, <2>3, <2>4, <2>5, <2>6, <2>7, <2>8, <2>9 DEF Next
<1>3. QED
  BY <1>1, <1>2, PTL DEF Spec

---------------------------------------------------------------------------
(* Sums of the digits of several terms, position by position.              *)

\* Digits that are a sum of digits.
Mixes(h, f, c, g, n) ==
    \A i \in 0 .. n - 1 : f[i] \in Int /\ g[i] \in Int /\ h[i] \in Int /\ h[i] = f[i] + c * g[i]

LEMMA LowLinear ==
    ASSUME NEW w \in Nat, NEW n \in Nat, Short(w, n), NEW f, NEW g, NEW h, NEW c \in Int,
           Mixes(h, f, c, g, n)
    PROVE  /\ Low(h, w, n) \in Int /\ Low(f, w, n) \in Int /\ Low(g, w, n) \in Int
           /\ Low(h, w, n) = Low(f, w, n) + c * Low(g, w, n)
<1>0. \A i \in 0 .. n - 1 : f[i] \in Int /\ g[i] \in Int /\ h[i] \in Int /\ h[i] = f[i] + c * g[i]
  BY DEF Mixes
<1>1. /\ Weighing(g, w, n) \in [Nat -> Int] /\ Low(g, w, n) \in Int
      /\ \A i \in 0 .. n - 1 : i * w \in 0 .. 2 * Bits + 1 /\ 2^(i * w) \in Nat
  BY <1>0, WeighingInt
<1>2. Weighing(h, w, n) \in [Nat -> Int] /\ Low(h, w, n) \in Int
  BY <1>0, WeighingInt
<1>3. Weighing(f, w, n) \in [Nat -> Int] /\ Low(f, w, n) \in Int
  BY <1>0, WeighingInt
<1>4. PICK u \in [Nat -> Int], v \in [Nat -> Int], x \in [Nat -> Int] :
         u = Weighing(g, w, n) /\ v = Weighing(h, w, n) /\ x = Weighing(f, w, n)
  BY <1>1, <1>2, <1>3
<1>5. ASSUME NEW i \in 0 .. n - 1 PROVE v[i] = x[i] + c * u[i]
  <2>1. PICK m \in Int, y \in Int, z \in Int : m = 2^(i * w) /\ y = g[i] /\ z = f[i]
    BY <1>0, <1>1
  <2>2. v[i] = h[i] * m /\ u[i] = y * m /\ x[i] = z * m
    BY <1>4, <2>1 DEF Weighing
  <2>3. (z + c * y) * m = z * m + c * (y * m)
    BY SMT
  <2>4. QED
    BY <1>0, <2>1, <2>2, <2>3
<1>6. SumTo(v, n) = SumTo(x, n) + c * SumTo(u, n)
  BY <1>5, SumLinear
<1>7. QED
  BY <1>1, <1>2, <1>3, <1>4, <1>6 DEF Low

\* The digits of m numbers, weighted by l and added up position by position.
Family(l, D, m, n) ==
    /\ m \in Nat /\ \A k \in 1 .. m : l[k] \in Int
    /\ \A k \in 1 .. m : \A i \in 0 .. n - 1 : D[k][i] \in Int

Cell(l, D, m, i) == [k \in Nat |-> IF k < m THEN l[k + 1] * D[k + 1][i] ELSE 0]

Column(l, D, m, j) == [i \in Nat |-> SumTo(Cell(l, D, m, i), j)]

Values(l, D, m, w, n) ==
    [k \in Nat |-> IF k < m THEN l[k + 1] * Low(D[k + 1], w, n) ELSE 0]

LEMMA CellInt ==
    ASSUME NEW l, NEW D, NEW m, NEW n, Family(l, D, m, n), NEW i \in 0 .. n - 1
    PROVE  /\ Cell(l, D, m, i) \in [Nat -> Int]
           /\ \A j \in Nat : /\ SumTo(Cell(l, D, m, i), j) \in Int
                             /\ Column(l, D, m, j)[i] = SumTo(Cell(l, D, m, i), j)
                             /\ Column(l, D, m, j)[i] \in Int
<1>0. i \in Nat
  OBVIOUS
<1>1. ASSUME NEW k \in Nat, k < m PROVE l[k + 1] * D[k + 1][i] \in Int
  <2>1. k + 1 \in 1 .. m
    BY <1>1 DEF Family
  <2>2. PICK x \in Int, y \in Int : x = l[k + 1] /\ y = D[k + 1][i]
    BY <2>1 DEF Family
  <2>3. x * y \in Int
    BY SMT
  <2>4. QED
    BY <2>2, <2>3
<1>2. Cell(l, D, m, i) \in [Nat -> Int]
  BY <1>1 DEF Cell
<1>3. ASSUME NEW j \in Nat
      PROVE  /\ SumTo(Cell(l, D, m, i), j) \in Int
             /\ Column(l, D, m, j)[i] = SumTo(Cell(l, D, m, i), j)
  BY <1>0, <1>2, SumInt DEF Column
<1>4. QED
  BY <1>2, <1>3

LEMMA ColumnSum ==
    ASSUME NEW w \in Nat, NEW n \in Nat, Short(w, n), NEW l, NEW D, NEW m,
           Family(l, D, m, n)
    PROVE  /\ Values(l, D, m, w, n) \in [Nat -> Int]
           /\ \A j \in 0 .. m : /\ Low(Column(l, D, m, j), w, n) \in Int
                                /\ Low(Column(l, D, m, j), w, n) = SumTo(Values(l, D, m, w, n), j)
<1>0. m \in Nat
  BY DEF Family
<1>1. ASSUME NEW k \in 1 .. m PROVE Low(D[k], w, n) \in Int /\ l[k] \in Int
  <2>1. \A i \in 0 .. n - 1 : D[k][i] \in Int
    BY DEF Family
  <2>2. l[k] \in Int
    BY DEF Family
  <2>3. QED
    BY <2>1, <2>2, WeighingInt
<1>2. ASSUME NEW k \in Nat, k < m PROVE l[k + 1] * Low(D[k + 1], w, n) \in Int
  <2>1. k + 1 \in 1 .. m
    BY <1>0, <1>2
  <2>2. PICK x \in Int, y \in Int : x = l[k + 1] /\ y = Low(D[k + 1], w, n)
    BY <1>1, <2>1
  <2>3. x * y \in Int
    BY SMT
  <2>4. QED
    BY <2>2, <2>3
<1> DEFINE V == Values(l, D, m, w, n)
<1>3. V \in [Nat -> Int] /\ \A k \in 0 .. m - 1 : V[k] = l[k + 1] * Low(D[k + 1], w, n)
  BY <1>0, <1>2 DEF Values
<1> HIDE DEF V
<1> DEFINE S == {j \in Nat : j <= m => Low(Column(l, D, m, j), w, n) = SumTo(V, j)}
<1>4. 0 \in S
  <2> DEFINE c == Column(l, D, m, 0)
  <2>1. \A i \in 0 .. n - 1 : c[i] = 0
    <3>1. ASSUME NEW i \in 0 .. n - 1 PROVE c[i] = 0
      <4>1. Cell(l, D, m, i) \in [Nat -> Int] /\ c[i] = SumTo(Cell(l, D, m, i), 0)
        BY CellInt
      <4>2. QED
        BY <4>1, SumZero
    <3>2. QED
      BY <3>1
  <2> HIDE DEF c
  <2>2. (\A i \in 0 .. n - 1 : c[i] \in Int) /\ 0 \in Nat /\ 0 <= n
    BY <2>1
  <2>3. Low(c, w, n) = Low(c, w, 0)
    BY <2>1, <2>2, LowSame
  <2>4. Low(c, w, 0) = 0 /\ SumTo(V, 0) = 0
    BY <1>3, LowZero, SumZero
  <2>5. QED
    BY <2>3, <2>4 DEF c
<1>5. ASSUME NEW j \in Nat, j \in S PROVE j + 1 \in S
  <2>1. SUFFICES ASSUME j + 1 <= m PROVE Low(Column(l, D, m, j + 1), w, n) = SumTo(V, j + 1)
    BY j + 1 \in Nat
  <2>2. j \in 0 .. m - 1 /\ j + 1 \in 1 .. m /\ j + 1 \in Nat /\ j <= m
    BY <1>0, <2>1
  <2>3. PICK x : x = l[j + 1] /\ x \in Int
    BY <1>1, <2>2
  <2>4. Mixes(Column(l, D, m, j + 1), Column(l, D, m, j), x, D[j + 1], n)
    <3>1. ASSUME NEW i \in 0 .. n - 1
          PROVE  /\ Column(l, D, m, j)[i] \in Int /\ D[j + 1][i] \in Int
                 /\ Column(l, D, m, j + 1)[i] \in Int
                 /\ Column(l, D, m, j + 1)[i] = Column(l, D, m, j)[i] + x * D[j + 1][i]
      <4>1. /\ Column(l, D, m, j)[i] = SumTo(Cell(l, D, m, i), j)
            /\ Column(l, D, m, j + 1)[i] = SumTo(Cell(l, D, m, i), j + 1)
            /\ Column(l, D, m, j)[i] \in Int /\ Column(l, D, m, j + 1)[i] \in Int
            /\ Cell(l, D, m, i) \in [Nat -> Int]
        BY <2>2, CellInt
      <4>2. SumTo(Cell(l, D, m, i), j + 1) = SumTo(Cell(l, D, m, i), j) + Cell(l, D, m, i)[j]
        BY <4>1, SumStep
      <4>3. Cell(l, D, m, i)[j] = x * D[j + 1][i]
        <5>1. j \in Nat /\ j < m
          BY <1>0, <2>2
        <5>2. Cell(l, D, m, i)[j] = l[j + 1] * D[j + 1][i]
          BY <5>1 DEF Cell
        <5>3. QED
          BY <2>3, <5>2
      <4>4. D[j + 1][i] \in Int
        BY <2>2 DEF Family
      <4>5. QED
        BY <4>1, <4>2, <4>3, <4>4
    <3>2. QED
      BY <3>1 DEF Mixes
  <2>5. /\ Low(Column(l, D, m, j + 1), w, n) = Low(Column(l, D, m, j), w, n) + x * Low(D[j + 1], w, n)
    BY <2>3, <2>4, LowLinear
  <2>6. V[j] = x * Low(D[j + 1], w, n)
    BY <1>3, <2>2, <2>3
  <2>7. SumTo(V, j + 1) = SumTo(V, j) + V[j]
    BY <1>3, SumStep
  <2>8. Low(Column(l, D, m, j), w, n) = SumTo(V, j)
    BY <1>5, <2>2
  <2>9. QED
    BY <2>5, <2>6, <2>7, <2>8
<1> HIDE DEF S
<1>6. \A j \in Nat : j \in S
  BY <1>4, <1>5, Induction
<1>7. ASSUME NEW j \in 0 .. m
      PROVE  Low(Column(l, D, m, j), w, n) \in Int /\ Low(Column(l, D, m, j), w, n) = SumTo(V, j)
  <2>1. j \in Nat /\ j <= m
    BY <1>0
  <2>2. Low(Column(l, D, m, j), w, n) = SumTo(V, j)
    BY <1>6, <2>1 DEF S
  <2>3. SumTo(V, j) \in Int
    BY <1>3, <2>1, SumInt
  <2>4. QED
    BY <2>2, <2>3
<1>8. QED
  BY <1>3, <1>7 DEF V

\* Sums of terms that are pairwise congruent.
LEMMA SumCong ==
    ASSUME NEW f \in [Nat -> Int], NEW g \in [Nat -> Int], NEW n \in Nat,
           \A i \in 0 .. n - 1 : Cong(N, f[i], g[i])
    PROVE  Cong(N, SumTo(f, n), SumTo(g, n))
<1> DEFINE S == {m \in Nat : m <= n => Cong(N, SumTo(f, m), SumTo(g, m))}
<1>1. 0 \in S
  <2>1. SumTo(f, 0) = 0 /\ SumTo(g, 0) = 0
    BY SumZero
  <2>2. Cong(N, 0, 0)
    BY Order, CongRefl, 0 \in Int
  <2>3. QED
    BY <2>1, <2>2
<1>2. ASSUME NEW m \in Nat, m \in S PROVE m + 1 \in S
  <2>1. SUFFICES ASSUME m + 1 <= n PROVE Cong(N, SumTo(f, m + 1), SumTo(g, m + 1))
    BY m + 1 \in Nat
  <2>2. PICK x \in Int, y \in Int, u \in Int, v \in Int :
           x = SumTo(f, m) /\ y = SumTo(g, m) /\ u = f[m] /\ v = g[m]
    BY SumInt
  <2>3. Cong(N, x, y)
    BY <1>2, <2>1, <2>2
  <2>4. Cong(N, u, v)
    <3>1. m \in 0 .. n - 1
      BY <2>1
    <3>2. QED
      BY <2>2, <3>1
  <2>5. Cong(N, x + u, y + v)
    BY <2>3, <2>4, Order, CongAdd, Zenon
  <2>6. SumTo(f, m + 1) = x + u /\ SumTo(g, m + 1) = y + v
    BY <2>2, SumStep
  <2>7. QED
    BY <2>5, <2>6
<1> HIDE DEF S
<1>3. \A m \in Nat : m \in S
  BY <1>1, <1>2, Induction
<1>4. QED
  BY <1>3 DEF S

---------------------------------------------------------------------------
(* What a call is for.                                                     *)

\* What a call is for: the sum of its shares.
Wanted(g, ts) == Given(g) + SumTo(Shares(ts), Len(ts))

\* The product expected, as the sum of the shares.
LEMMA ExpectedIs ==
    ASSUME terms \in Seq(TermRecords), AllOK(terms), ng \in Scalars \cup {NoScalar}
    PROVE  Wanted(ng, terms) \in Int /\ Expected = TimesOf(Wanted(ng, terms))
<1> DEFINE n == Len(terms)
           b == IF ng = NoScalar THEN 0 ELSE ng
           Share(k) == terms[k].n * Log[Affine(terms[k].a)]
           X(x, k) == (x + Share(k)) % N
           D == CHOOSE d : d = [k \in 0 .. n |-> IF k = 0 THEN b ELSE X(d[k - 1], k)]
           V(k) == b + SumTo(Shares(terms), k)
           A == [k \in Nat |-> {x \in Scalars : Cong(N, x, V(k))}]
<1>0. n \in Nat /\ DOMAIN terms = 1 .. n
  OBVIOUS
<1>1. Expected = Times[D[n]]
  BY DEF Expected
<1>2. b = Given(ng) /\ b \in Scalars /\ b \in Int
  BY GRecoded, Order DEF Given
<1>3. Shares(terms) \in [Nat -> Int]
  BY SharesInt
<1>4. ASSUME NEW k \in Nat PROVE V(k) \in Int
  <2>1. SumTo(Shares(terms), k) \in Int
    BY <1>3, SumInt
  <2> HIDE DEF b
  <2>2. QED
    BY <1>2, <2>1
<1>5. b \in A[0]
  <2>1. SumTo(Shares(terms), 0) = 0
    BY <1>3, SumZero
  <2> HIDE DEF b
  <2>2. V(0) = b
    BY <1>2, <2>1
  <2> HIDE DEF V
  <2>3. Cong(N, b, V(0))
    BY <1>2, <2>2, Order, CongRefl
  <2>4. QED
    BY <1>2, <2>3
<1> HIDE DEF b
<1>6. ASSUME NEW k \in 0 .. n - 1, NEW x \in A[k] PROVE X(x, k + 1) \in A[k + 1]
  <2>1. k \in Nat /\ k + 1 \in DOMAIN terms /\ k + 1 \in Nat
    BY <1>0
  <2>2. x \in Scalars /\ x \in Int /\ Cong(N, x, V(k)) /\ V(k) \in Int /\ V(k + 1) \in Int
    BY <1>4, <2>1, Order
  <2>3. PICK u \in Int : u = Shares(terms)[k]
    BY <1>3, <2>1
  <2>4. Share(k + 1) = u
    BY <1>0, <2>1, <2>3 DEF Shares, LogOf
  <2>5. V(k + 1) = V(k) + u
    <3>1. SumTo(Shares(terms), k + 1) = SumTo(Shares(terms), k) + u /\ SumTo(Shares(terms), k) \in Int
      BY <1>3, <2>1, <2>3, SumStep
    <3>2. QED
      BY <1>2, <3>1
  <2> HIDE DEF V, Share
  <2>6. x + u \in Int /\ (x + u) % N \in Scalars /\ X(x, k + 1) = (x + u) % N
    BY <2>2, <2>4, TimesOfPoint
  <2>7. Cong(N, u, u)
    BY Order, CongRefl
  <2>8. Cong(N, x + u, V(k) + u)
    BY <2>2, <2>7, Order, CongAdd, Zenon
  <2>9. Cong(N, (x + u) % N, x + u) /\ (x + u) % N \in Int
    BY <2>6, Order, CongMod
  <2>10. Cong(N, (x + u) % N, V(k + 1))
    <3>1. PICK v \in Int : v = V(k + 1)
      BY <2>2
    <3>2. Cong(N, x + u, v)
      BY <2>5, <2>8, <3>1
    <3>3. Cong(N, (x + u) % N, v)
      BY <2>6, <2>9, <3>2, Order, CongTrans, Zenon
    <3>4. QED
      BY <3>1, <3>3
  <2> HIDE DEF X
  <2>11. QED
    BY <2>1, <2>6, <2>10
<1> HIDE DEF X, A
<1>7. D = [k \in 0 .. n |-> IF k = 0 THEN b ELSE X(D[k - 1], k)]
  <2> DEFINE step == [i \in 0 .. n - 1 |-> [x \in A[i] |-> X(x, i + 1)]]
  <2>1. \A i \in 0 .. n - 1 : \A x \in A[i] : step[i][x] \in A[i + 1]
    BY <1>6
  <2>2. \A i \in 0 .. n - 1 : \A x \in A[i] : step[i][x] = X(x, i + 1)
    OBVIOUS
  <2> HIDE DEF step
  <2>3. PICK g : Walks(g, step, A, b, n)
    <3>1. Closed(step, A, n)
      BY <2>1 DEF Closed
    <3>2. QED
      BY <1>0, <1>5, <3>1, Iterated
  <2>4. /\ g = [i \in 0 .. n |-> g[i]] /\ g[0] = b
        /\ \A i \in 0 .. n : g[i] \in A[i]
        /\ \A i \in 0 .. n - 1 : g[i + 1] = step[i][g[i]]
    BY <2>3 DEF Walks
  <2>5. ASSUME NEW i \in 0 .. n, i # 0 PROVE g[i] = X(g[i - 1], i)
    <3>1. i - 1 \in 0 .. n - 1 /\ (i - 1) + 1 = i /\ i - 1 \in 0 .. n
      BY <1>0, <2>5
    <3>2. g[(i - 1) + 1] = step[i - 1][g[i - 1]] /\ g[i - 1] \in A[i - 1]
      BY <2>4, <3>1
    <3>3. step[i - 1][g[i - 1]] = X(g[i - 1], (i - 1) + 1)
      BY <2>2, <3>1, <3>2
    <3>4. QED
      BY <3>1, <3>2, <3>3
  <2>6. \A i \in 0 .. n : g[i] = IF i = 0 THEN b ELSE X(g[i - 1], i)
    BY <2>4, <2>5
  <2>7. g = [k \in 0 .. n |-> IF k = 0 THEN b ELSE X(g[k - 1], k)]
    BY <2>4, <2>6
  <2>8. QED
    BY <2>7
<1> HIDE DEF D
<1>8. \A i \in 0 .. n : D[i] \in A[i]
  <2>1. D[0] = b /\ 0 \in 0 .. n
    BY <1>0, <1>7
  <2>2. ASSUME NEW i \in 0 .. n - 1, D[i] \in A[i] PROVE D[i + 1] \in A[i + 1]
    <3>1. i + 1 \in 0 .. n /\ i + 1 # 0 /\ (i + 1) - 1 = i
      BY <1>0
    <3>2. D[i + 1] = X(D[(i + 1) - 1], i + 1)
      BY <1>7, <3>1
    <3>3. QED
      BY <1>6, <2>2, <3>1, <3>2
  <2>3. QED
    BY <1>0, <1>5, <2>1, <2>2, Kept
<1>9. D[n] \in A[n] /\ n \in Nat
  BY <1>0, <1>8
<1>10. D[n] \in Scalars /\ Cong(N, D[n], V(n)) /\ V(n) \in Int
  BY <1>4, <1>9 DEF A
<1>11. V(n) = Wanted(ng, terms)
  BY <1>2 DEF Wanted
<1> HIDE DEF V
<1>12. TimesOf(D[n]) = Times[D[n]] /\ D[n] \in Int
  BY <1>10, TimesOfScalar, Order
<1>13. TimesOf(D[n]) = TimesOf(V(n))
  BY <1>10, <1>12, TimesOfCong
<1>14. QED
  BY <1>1, <1>10, <1>11, <1>12, <1>13

\* A result that stands for what is wanted is the product.
LEMMA ProductIs ==
    ASSUME terms \in Seq(TermRecords), AllOK(terms), ng \in Scalars \cup {NoScalar},
           NEW x \in Int, Rep(1, Finish, x), Cong(N, x, Wanted(ng, terms))
    PROVE  Affine(Finish) = Expected
<1>1. Stands(Finish, TimesOf(x))
  BY RepIsStands
<1>2. Affine(Finish) = TimesOf(x)
  BY <1>1, AffineStands
<1>3. Wanted(ng, terms) \in Int /\ Expected = TimesOf(Wanted(ng, terms))
  BY ExpectedIs
<1>4. TimesOf(x) = TimesOf(Wanted(ng, terms))
  BY <1>3, TimesOfCong
<1>5. QED
  BY <1>2, <1>3, <1>4

---------------------------------------------------------------------------
(* What is still to come: the digits below a position.                     *)

\* What is still to come: the digits below n, and x so many times doubled.
Horner(x, c, w, n, total) ==
    /\ x \in Int /\ n \in Nat /\ n * w <= 2 * Bits + 1
    /\ \A i \in 0 .. n - 1 : c[i] \in Int
    /\ x * 2^(n * w) + Low(c, w, n) = total

LEMMA HornerFacts ==
    ASSUME NEW w \in Nat, NEW n \in Nat, n * w <= 2 * Bits + 1, NEW c,
           \A i \in 0 .. n - 1 : c[i] \in Int
    PROVE  /\ n * w \in 0 .. 2 * Bits + 1 /\ 2^(n * w) \in Nat /\ Short(w, n)
           /\ Low(c, w, n) \in Int
<1>1. n * w \in Nat
  BY SMT
<1>2. PICK k \in 0 .. 2 * Bits + 1 : k = n * w
  BY <1>1
<1>3. 2^(n * w) \in Nat /\ n * w \in 0 .. 2 * Bits + 1
  BY <1>2, Power
<1>4. CASE n = 0
  BY <1>3, <1>4, LowZero DEF Short
<1>5. CASE n # 0
  <2>1. (n - 1) * w = n * w - w /\ w <= n * w
    <3>1. PICK m \in Nat : n = m + 1
      BY <1>5, n - 1 \in Nat
    <3>2. (m + 1) * w = m * w + w /\ m * w \in Nat
      BY SMT
    <3>3. QED
      BY <3>1, <3>2
  <2>2. Short(w, n) /\ w \in 0 .. 2 * Bits + 1
    BY <1>2, <2>1, Two DEF Short
  <2>3. Low(c, w, n) \in Int
    BY <2>2, WeighingInt
  <2>4. QED
    BY <1>3, <2>2, <2>3
<1>6. QED
  BY <1>4, <1>5

\* One position: x is doubled w times and the digit added.
LEMMA HornerStep ==
    ASSUME NEW w \in Nat, NEW n \in Nat, NEW x, NEW c, NEW total,
           Horner(x, c, w, n + 1, total)
    PROVE  /\ 2^w \in Nat /\ c[n] \in Int
           /\ 2^w * x + c[n] \in Int
           /\ Horner(2^w * x + c[n], c, w, n, total)
<1>1. /\ x \in Int /\ (n + 1) * w <= 2 * Bits + 1 /\ n + 1 \in Nat
      /\ \A i \in 0 .. (n + 1) - 1 : c[i] \in Int
      /\ x * 2^((n + 1) * w) + Low(c, w, n + 1) = total
  BY DEF Horner
<1>2. /\ (n + 1) * w = n * w + w /\ n * w \in Nat
  BY SMT
<1>3. n * w <= 2 * Bits + 1 /\ n * w \in 0 .. 2 * Bits + 1 /\ w \in 0 .. 2 * Bits + 1
  BY <1>1, <1>2, Two
<1>4. 2^w \in Nat /\ 2^(n * w) \in Nat
  BY <1>3, Power
<1>5. 2^((n + 1) * w) = 2^(n * w) * 2^w
  <2>1. PICK k \in Nat : k = n * w
    BY <1>2
  <2>2. 2^(k + w) = 2^k * 2^w
    BY <1>1, <1>2, <2>1, PowerSum
  <2>3. QED
    BY <1>2, <2>1, <2>2
<1>6. \A i \in 0 .. n : c[i] \in Int
  BY <1>1
<1>7. /\ Low(c, w, n) \in Int /\ Low(c, w, n + 1) = Low(c, w, n) + c[n] * 2^(n * w)
  BY <1>3, <1>6, LowStep
<1>8. c[n] \in Int /\ \A i \in 0 .. n - 1 : c[i] \in Int
  BY <1>6
<1>9. PICK a \in Int, b \in Int, d \in Int, y \in Int :
         a = 2^(n * w) /\ b = 2^w /\ d = c[n] /\ y = Low(c, w, n)
  BY <1>4, <1>7, <1>8
<1>10. (b * x + d) * a + y = x * (a * b) + (y + d * a) /\ b * x \in Int
  BY <1>1, SMT
<1>11. (b * x + d) * a + y = total
  BY <1>1, <1>5, <1>7, <1>9, <1>10
<1>12. b * x + d \in Int
  BY <1>10
<1>13. QED
  BY <1>3, <1>4, <1>8, <1>9, <1>11, <1>12 DEF Horner

\* After the last position x is the number wanted.
LEMMA HornerEnd ==
    ASSUME NEW w \in Nat, NEW x, NEW c, NEW total, Horner(x, c, w, 0, total)
    PROVE  x = total
<1>1. x \in Int /\ x * 2^(0 * w) + Low(c, w, 0) = total
  BY DEF Horner
<1>2. 0 * w = 0 /\ x * 1 = x
  BY <1>1, SMT
<1>3. 2^0 = 1
  BY PowersAssumption
<1>4. Low(c, w, 0) = 0
  BY LowZero
<1>5. 2^(0 * w) = 1
  BY <1>2, <1>3, Zenon
<1>6. QED
  BY <1>1, <1>2, <1>4, <1>5

\* All digits from n on are zero.
LEMMA HornerStart ==
    ASSUME NEW w \in Nat, NEW m \in Nat, NEW n \in 0 .. m, m * w <= 2 * Bits + 1, NEW c,
           \A i \in 0 .. m - 1 : c[i] \in Int, \A i \in n .. m - 1 : c[i] = 0
    PROVE  Horner(0, c, w, n, Low(c, w, m))
<1>1. n * w <= 2 * Bits + 1 /\ n \in Nat
  <2>1. n * w <= m * w /\ n * w \in Nat /\ m * w \in Nat
    <3>1. PICK k \in Nat : m = n + k
      BY m - n \in Nat
    <3>2. (n + k) * w = n * w + k * w /\ k * w \in Nat /\ n * w \in Nat
      BY SMT
    <3>3. QED
      BY <3>1, <3>2
  <2>2. QED
    BY <2>1, Two
<1>2. Short(w, m)
  BY HornerFacts
<1>3. \A i \in 0 .. n - 1 : c[i] \in Int
  OBVIOUS
<1>4. Low(c, w, n) \in Int /\ 2^(n * w) \in Nat
  BY <1>1, <1>3, HornerFacts
<1>5. Low(c, w, m) = Low(c, w, n)
  <2>1. n <= m
    OBVIOUS
  <2>2. QED
    BY <1>1, <1>2, <2>1, LowSame
<1>6. PICK k \in Int, y \in Int : k = 2^(n * w) /\ y = Low(c, w, n)
  BY <1>4
<1>7. 0 * k + y = y
  BY SMT
<1>8. 0 * 2^(n * w) + Low(c, w, n) = Low(c, w, m)
  BY <1>5, <1>6, <1>7
<1>9. QED
  BY <1>1, <1>3, <1>8 DEF Horner

---------------------------------------------------------------------------
(* Pippenger: what a bucket receives.                                      *)

\* What the k-th term adds to bucket j in multiples of G.
Gives(l, k, j) ==
    LET d == digits[k].digit[pos] IN
    (IF d > 0 /\ j = (d - 1) \div 2 THEN l[k]
     ELSE IF d < 0 /\ j = -((d + 1) \div 2) THEN -l[k] ELSE 0)
    + (IF pos = 0 /\ j = 0 /\ digits[k].skew = 1 THEN -l[k] ELSE 0)

Given4(l, m, j) == [k \in Nat |-> IF k < m THEN Gives(l, k + 1, j) ELSE 0]

\* The bare point of the k-th term.
BareOf(k) == [x |-> table[k].x, y |-> table[k].y, infinity |-> FALSE]

BucketsFilled(l, m, w) ==
    /\ m = Len(digits) /\ m \in Nat /\ w \in {1, 2}
    /\ \A k \in 1 .. m : /\ l[k] \in Int /\ digits[k].skew \in {0, 1}
                         /\ Fit(digits[k].digit[pos], w + 2)
                         /\ Entry(1, BareOf(k), l[k])

\* A bucket with what one term adds to it.
LEMMA BucketAddRight ==
    ASSUME NEW l, NEW m, NEW w, BucketsFilled(l, m, w), NEW k \in 1 .. m, NEW j \in Nat,
           NEW bucket, NEW y \in Int, Rep(1, bucket, y)
    PROVE  Gives(l, k, j) \in Int /\ Rep(1, BucketAdd(k, j, bucket), y + Gives(l, k, j))
<1> DEFINE d == digits[k].digit[pos]
           a == BareOf(k)
           skewed == pos = 0 /\ j = 0 /\ digits[k].skew = 1
           skew == IF skewed THEN GejAddGeVar(bucket, GeNeg(a)) ELSE bucket
           s == IF skewed THEN -l[k] ELSE 0
<1>1. PICK x \in Int : x = l[k] /\ Entry(1, a, x)
  BY DEF BucketsFilled
<1>2. d \in Int
  BY DEF BucketsFilled, Fit
<1>3. -x \in Int /\ Entry(1, GeNeg(a), -x)
  BY <1>1, Ones, EntryNeg
<1> HIDE DEF a
<1>4. s \in Int /\ y + s \in Int /\ Rep(1, skew, y + s)
  <2>1. CASE skewed
    <3>1. skew = GejAddGeVar(bucket, GeNeg(a)) /\ s = -x
      BY <1>1, <2>1
    <3>2. Rep(1, GejAddGeVar(bucket, GeNeg(a)), y + (-x))
      BY <1>3, Ones, RepAddGeVar
    <3>3. y + (-x) \in Int
      OBVIOUS
    <3>4. QED
      BY <1>3, <3>1, <3>2, <3>3
  <2>2. CASE ~skewed
    <3>1. skew = bucket /\ s = 0 /\ y + 0 = y
      BY <2>2
    <3>2. QED
      BY <3>1
  <2>3. QED
    BY <2>1, <2>2
<1> DEFINE up == d > 0 /\ j = (d - 1) \div 2
           down == d < 0 /\ j = -((d + 1) \div 2)
           g == IF up THEN l[k] ELSE IF down THEN -l[k] ELSE 0
<1>5. Gives(l, k, j) = g + s
  BY DEF Gives
<1>6. BucketAdd(k, j, bucket) = CASE up -> GejAddGeVar(skew, a)
                                  [] down -> GejAddGeVar(skew, GeNeg(a))
                                  [] OTHER -> skew
  BY DEF BucketAdd, BareOf, a
<1>7. ~(up /\ down)
  BY <1>2
<1> HIDE DEF skew, s, skewed
<1>8. CASE up
  <2>1. BucketAdd(k, j, bucket) = GejAddGeVar(skew, a) /\ g = x
    BY <1>1, <1>6, <1>7, <1>8
  <2>2. Rep(1, GejAddGeVar(skew, a), (y + s) + x)
    BY <1>1, <1>4, Ones, RepAddGeVar
  <2>3. (y + s) + x = y + (x + s) /\ x + s \in Int
    BY <1>4
  <2>4. QED
    BY <1>5, <2>1, <2>2, <2>3
<1>9. CASE down
  <2>1. BucketAdd(k, j, bucket) = GejAddGeVar(skew, GeNeg(a)) /\ g = -x
    BY <1>1, <1>6, <1>7, <1>9
  <2>2. Rep(1, GejAddGeVar(skew, GeNeg(a)), (y + s) + (-x))
    BY <1>3, <1>4, Ones, RepAddGeVar
  <2>3. (y + s) + (-x) = y + (-x + s) /\ -x + s \in Int
    BY <1>4
  <2>4. QED
    BY <1>5, <2>1, <2>2, <2>3
<1>10. CASE ~up /\ ~down
  <2>1. BucketAdd(k, j, bucket) = skew /\ g = 0
    BY <1>6, <1>10
  <2>2. 0 + s = s
    BY <1>4
  <2>3. QED
    BY <1>4, <1>5, <2>1, <2>2
<1>11. QED
  BY <1>8, <1>9, <1>10

LEMMA GivesInt ==
    ASSUME NEW l, NEW m, NEW w, BucketsFilled(l, m, w), NEW j \in Nat
    PROVE  Given4(l, m, j) \in [Nat -> Int]
<1>1. ASSUME NEW k \in Nat, k < m PROVE Gives(l, k + 1, j) \in Int
  <2>1. k + 1 \in 1 .. m
    BY <1>1 DEF BucketsFilled
  <2>2. Rep(1, GejSetInfinity, 0) /\ 0 \in Int
    BY RepNothing, Ones
  <2>3. QED
    BY <2>1, <2>2, BucketAddRight
<1>2. QED
  BY <1>1 DEF Given4

\* Bucket j after all terms.
LEMMA BucketRight ==
    ASSUME NEW l, NEW m, NEW w, BucketsFilled(l, m, w), NEW j \in Nat
    PROVE  /\ SumTo(Given4(l, m, j), m) \in Int
           /\ Rep(1, Bucket(j), SumTo(Given4(l, m, j), m))
<1> DEFINE f == Given4(l, m, j)
           D == CHOOSE d : d = [k \in 0 .. m |-> IF k = 0 THEN GejSetInfinity
                                                 ELSE BucketAdd(k, j, d[k - 1])]
           A == [k \in Nat |-> {a \in Gejs : Rep(1, a, SumTo(f, k))}]
<1>0. m \in Nat /\ m = Len(digits)
  BY DEF BucketsFilled
<1>1. Bucket(j) = D[m]
  BY <1>0 DEF Bucket
<1>2. f \in [Nat -> Int]
  BY GivesInt
<1>3. GejSetInfinity \in A[0]
  <2>1. SumTo(f, 0) = 0
    BY <1>2, SumZero
  <2>2. Rep(1, GejSetInfinity, 0)
    BY RepNothing, Ones
  <2>3. GejSetInfinity \in Gejs /\ Rep(1, GejSetInfinity, SumTo(f, 0))
    BY <2>1, <2>2 DEF Rep
  <2>4. QED
    BY <2>3
<1>4. ASSUME NEW i \in 0 .. m - 1, NEW a \in A[i] PROVE BucketAdd(i + 1, j, a) \in A[i + 1]
  <2>1. i \in Nat /\ i + 1 \in Nat /\ i + 1 \in 1 .. m /\ i < m
    BY <1>0
  <2>2. Rep(1, a, SumTo(f, i)) /\ SumTo(f, i) \in Int
    BY <1>2, <2>1, SumInt
  <2>3. /\ Gives(l, i + 1, j) \in Int
        /\ Rep(1, BucketAdd(i + 1, j, a), SumTo(f, i) + Gives(l, i + 1, j))
    BY <2>1, <2>2, BucketAddRight
  <2>4. f[i] = Gives(l, i + 1, j)
    BY <2>1 DEF Given4
  <2>5. SumTo(f, i + 1) = SumTo(f, i) + f[i]
    BY <1>2, <2>1, SumStep
  <2>6. Rep(1, BucketAdd(i + 1, j, a), SumTo(f, i + 1))
    BY <2>3, <2>4, <2>5
  <2>7. BucketAdd(i + 1, j, a) \in Gejs
    BY <2>6 DEF Rep
  <2>8. QED
    BY <2>1, <2>6, <2>7
<1> HIDE DEF A, f
<1>5. D = [k \in 0 .. m |-> IF k = 0 THEN GejSetInfinity ELSE BucketAdd(k, j, D[k - 1])]
  <2> DEFINE step == [i \in 0 .. m - 1 |-> [a \in A[i] |-> BucketAdd(i + 1, j, a)]]
  <2>1. \A i \in 0 .. m - 1 : \A a \in A[i] : step[i][a] \in A[i + 1]
    BY <1>4
  <2>2. \A i \in 0 .. m - 1 : \A a \in A[i] : step[i][a] = BucketAdd(i + 1, j, a)
    OBVIOUS
  <2> HIDE DEF step
  <2>3. PICK g : Walks(g, step, A, GejSetInfinity, m)
    <3>1. Closed(step, A, m)
      BY <2>1 DEF Closed
    <3>2. QED
      BY <1>0, <1>3, <3>1, Iterated
  <2>4. /\ g = [i \in 0 .. m |-> g[i]] /\ g[0] = GejSetInfinity
        /\ \A i \in 0 .. m : g[i] \in A[i]
        /\ \A i \in 0 .. m - 1 : g[i + 1] = step[i][g[i]]
    BY <2>3 DEF Walks
  <2>5. ASSUME NEW i \in 0 .. m, i # 0 PROVE g[i] = BucketAdd(i, j, g[i - 1])
    <3>1. i - 1 \in 0 .. m - 1 /\ (i - 1) + 1 = i /\ i - 1 \in 0 .. m
      BY <1>0, <2>5
    <3>2. g[(i - 1) + 1] = step[i - 1][g[i - 1]] /\ g[i - 1] \in A[i - 1]
      BY <2>4, <3>1
    <3>3. step[i - 1][g[i - 1]] = BucketAdd((i - 1) + 1, j, g[i - 1])
      BY <2>2, <3>1, <3>2
    <3>4. QED
      BY <3>1, <3>2, <3>3
  <2>6. \A i \in 0 .. m : g[i] = IF i = 0 THEN GejSetInfinity ELSE BucketAdd(i, j, g[i - 1])
    BY <2>4, <2>5
  <2>7. g = [k \in 0 .. m |-> IF k = 0 THEN GejSetInfinity ELSE BucketAdd(k, j, g[k - 1])]
    BY <2>4, <2>6
  <2>8. QED
    BY <2>7
<1> HIDE DEF D
<1>6. \A i \in 0 .. m : D[i] \in A[i]
  <2>1. D[0] = GejSetInfinity /\ 0 \in 0 .. m
    BY <1>0, <1>5
  <2>2. ASSUME NEW i \in 0 .. m - 1, D[i] \in A[i] PROVE D[i + 1] \in A[i + 1]
    <3>1. i + 1 \in 0 .. m /\ i + 1 # 0 /\ (i + 1) - 1 = i
      BY <1>0
    <3>2. D[i + 1] = BucketAdd(i + 1, j, D[(i + 1) - 1])
      BY <1>5, <3>1
    <3>3. QED
      BY <1>4, <2>2, <3>1, <3>2
  <2>3. QED
    BY <1>0, <1>3, <2>1, <2>2, Kept
<1>7. D[m] \in A[m]
  BY <1>0, <1>6
<1>8. Rep(1, D[m], SumTo(f, m))
  BY <1>0, <1>7 DEF A
<1>9. SumTo(f, m) \in Int
  BY <1>0, <1>2, SumInt
<1>10. QED
  BY <1>1, <1>8, <1>9 DEF f

---------------------------------------------------------------------------
(* Pippenger: what the buckets count for.                                  *)

LEMMA SmallPowers == 2^1 = 2 /\ 2^2 = 4 /\ 2^3 = 8
<1>1. 2^1 = 2 /\ Bits >= 3 /\ Bits \in Nat
  BY Two, WindowSizes
<1>2. 1 \in 0 .. 2 * Bits /\ 2 \in 0 .. 2 * Bits
  BY <1>1
<1>3. 2^(1 + 1) = 2 * 2^1 /\ 2^(2 + 1) = 2 * 2^2
  BY <1>2, PowersAssumption
<1>4. QED
  BY <1>1, <1>3

Adds(d, x, j) == IF d > 0 /\ j = (d - 1) \div 2 THEN x
                 ELSE IF d < 0 /\ j = -((d + 1) \div 2) THEN -x ELSE 0

\* Bucket j counts 2j + 1 times: together the digit.
LEMMA AddsDigit ==
    ASSUME NEW w \in {1, 2}, NEW d, Fit(d, w + 2), NEW x \in Int
    PROVE  /\ \A j \in 0 .. 3 : Adds(d, x, j) \in Int
           /\ w = 1 => Adds(d, x, 2) = 0 /\ Adds(d, x, 3) = 0
           /\ Adds(d, x, 0) + 3 * Adds(d, x, 1) + 5 * Adds(d, x, 2) + 7 * Adds(d, x, 3) = x * d
<1>1. d \in Int /\ (d = 0 \/ (d % 2 = 1 /\ d < 2^((w + 2) - 1) /\ -d < 2^((w + 2) - 1)))
  BY DEF Fit
<1>2. CASE w = 1
  <2>1. (w + 2) - 1 = 2 /\ 2^2 = 4
    BY <1>2, SmallPowers
  <2>2. d = 0 \/ d = 1 \/ d = 3 \/ d = -1 \/ d = -3
    <3>1. 2^((w + 2) - 1) = 4
      BY <2>1, Zenon
    <3>2. QED
      BY <1>1, <3>1
  <2>3. QED
    BY <1>2, <2>2 DEF Adds
<1>3. CASE w = 2
  <2>1. (w + 2) - 1 = 3 /\ 2^3 = 8
    BY <1>3, SmallPowers
  <2>2. d = 0 \/ d = 1 \/ d = 3 \/ d = 5 \/ d = 7 \/ d = -1 \/ d = -3 \/ d = -5 \/ d = -7
    <3>1. 2^((w + 2) - 1) = 8
      BY <2>1, Zenon
    <3>2. QED
      BY <1>1, <3>1
  <2>3. QED
    BY <1>3, <2>2 DEF Adds
<1>4. QED
  BY <1>2, <1>3

\* The digits once the skew is taken off.
Unskewed(d) == [i \in DOMAIN d.digit |-> IF i = 0 THEN d.digit[0] - d.skew ELSE d.digit[i]]

LEMMA GivesDigit ==
    ASSUME NEW l, NEW m, NEW w, BucketsFilled(l, m, w), NEW k \in 1 .. m,
           NEW e, e = digits[k].digit[pos] - (IF pos = 0 THEN digits[k].skew ELSE 0)
    PROVE  /\ \A j \in 0 .. 3 : Gives(l, k, j) \in Int
           /\ w = 1 => Gives(l, k, 2) = 0 /\ Gives(l, k, 3) = 0
           /\ Gives(l, k, 0) + 3 * Gives(l, k, 1) + 5 * Gives(l, k, 2) + 7 * Gives(l, k, 3)
                = l[k] * e
<1>1. PICK x \in Int : x = l[k]
  BY DEF BucketsFilled
<1>2. PICK d \in Int : d = digits[k].digit[pos] /\ Fit(d, w + 2)
  BY DEF BucketsFilled, Fit
<1>3. PICK s \in {0, 1} : s = digits[k].skew
  BY DEF BucketsFilled
<1>w. w \in {1, 2}
  BY DEF BucketsFilled
<1> DEFINE t(j) == IF pos = 0 /\ j = 0 /\ s = 1 THEN -x ELSE 0
<1>4. \A j : Gives(l, k, j) = Adds(d, x, j) + t(j)
  BY <1>1, <1>2, <1>3 DEF Gives, Adds
<1>5. /\ \A j \in 0 .. 3 : Adds(d, x, j) \in Int
      /\ w = 1 => Adds(d, x, 2) = 0 /\ Adds(d, x, 3) = 0
      /\ Adds(d, x, 0) + 3 * Adds(d, x, 1) + 5 * Adds(d, x, 2) + 7 * Adds(d, x, 3) = x * d
  BY <1>2, <1>w, AddsDigit
<1>6. t(1) = 0 /\ t(2) = 0 /\ t(3) = 0 /\ t(0) = IF pos = 0 /\ s = 1 THEN -x ELSE 0
  OBVIOUS
<1>7. t(0) \in Int
  BY <1>6
<1> HIDE DEF t
<1>8. PICK a \in Int, b \in Int, c \in Int, g \in Int :
         a = Adds(d, x, 0) /\ b = Adds(d, x, 1) /\ c = Adds(d, x, 2) /\ g = Adds(d, x, 3)
  BY <1>5
<1>9. Gives(l, k, 0) = a + t(0) /\ Gives(l, k, 1) = b /\ Gives(l, k, 2) = c /\ Gives(l, k, 3) = g
  BY <1>4, <1>6, <1>8
<1>10. e \in Int /\ x * e = x * d + t(0)
  <2>1. CASE pos = 0 /\ s = 1
    <3>1. e = d - 1 /\ t(0) = -x
      BY <1>2, <1>3, <1>6, <2>1
    <3>2. x * (d - 1) = x * d + (-x)
      BY SMT
    <3>3. QED
      BY <3>1, <3>2
  <2>2. CASE ~(pos = 0 /\ s = 1)
    <3>1. e = d /\ t(0) = 0
      BY <1>2, <1>3, <1>6, <2>2
    <3>2. x * d \in Int
      BY SMT
    <3>3. QED
      BY <3>1, <3>2
  <2>3. QED
    BY <2>1, <2>2
<1>11. x * d \in Int /\ x * e \in Int
  BY <1>10, SMT
<1>12. (a + t(0)) + 3 * b + 5 * c + 7 * g = x * e
  BY <1>5, <1>7, <1>8, <1>10, <1>11
<1>13. \A j \in 0 .. 3 : Gives(l, k, j) \in Int
  <2>1. ASSUME NEW j \in 0 .. 3 PROVE Gives(l, k, j) \in Int
    <3>1. j = 0 \/ j = 1 \/ j = 2 \/ j = 3
      OBVIOUS
    <3>2. QED
      BY <1>7, <1>9, <3>1
  <2>2. QED
    BY <2>1
<1>14. QED
  BY <1>1, <1>5, <1>8, <1>9, <1>12, <1>13

Blend(h, f, c, g, n) ==
    /\ h \in [Nat -> Int] /\ f \in [Nat -> Int] /\ g \in [Nat -> Int]
    /\ \A i \in 0 .. n - 1 : h[i] = f[i] + c * g[i]

LEMMA SumBlend ==
    ASSUME NEW n \in Nat, NEW c \in Int, NEW h, NEW f, NEW g, Blend(h, f, c, g, n)
    PROVE  SumTo(h, n) = SumTo(f, n) + c * SumTo(g, n)
<1>1. /\ h \in [Nat -> Int] /\ f \in [Nat -> Int] /\ g \in [Nat -> Int]
      /\ \A i \in 0 .. n - 1 : h[i] = f[i] + c * g[i]
  BY DEF Blend
<1>2. QED
  BY <1>1, SumLinear

LEMMA SumBlends ==
    ASSUME NEW n \in Nat, NEW h1, NEW h2, NEW c, NEW f0, NEW f1, NEW f2, NEW f3,
           Blend(h1, f0, 3, f1, n), Blend(h2, h1, 5, f2, n), Blend(c, h2, 7, f3, n)
    PROVE  /\ SumTo(h1, n) = SumTo(f0, n) + 3 * SumTo(f1, n)
           /\ SumTo(h2, n) = SumTo(h1, n) + 5 * SumTo(f2, n)
           /\ SumTo(c, n) = SumTo(h2, n) + 7 * SumTo(f3, n)
BY SumBlend

\* All buckets: what the digits of the position add up to.
LEMMA BucketsDigit ==
    ASSUME NEW l, NEW m, NEW w, BucketsFilled(l, m, w), NEW E, NEW n, pos \in 0 .. n - 1,
           Family(l, E, m, n),
           \A k \in 1 .. m : E[k][pos] = digits[k].digit[pos] - (IF pos = 0 THEN digits[k].skew ELSE 0)
    PROVE  LET b(j) == SumTo(Given4(l, m, j), m)
           IN  /\ \A j \in 0 .. 3 : b(j) \in Int
               /\ w = 1 => b(2) = 0 /\ b(3) = 0
               /\ b(0) + 3 * b(1) + 5 * b(2) + 7 * b(3) = Column(l, E, m, m)[pos]
<1>0. m \in Nat
  BY DEF BucketsFilled
<1>1. Cell(l, E, m, pos) \in [Nat -> Int] /\ Column(l, E, m, m)[pos] = SumTo(Cell(l, E, m, pos), m)
  BY <1>0, CellInt
<1>2. PICK c \in [Nat -> Int] : c = Cell(l, E, m, pos)
  BY <1>1
<1>3. /\ Given4(l, m, 0) \in [Nat -> Int] /\ Given4(l, m, 1) \in [Nat -> Int]
      /\ Given4(l, m, 2) \in [Nat -> Int] /\ Given4(l, m, 3) \in [Nat -> Int]
  BY GivesInt
<1>4. PICK f0 \in [Nat -> Int], f1 \in [Nat -> Int], f2 \in [Nat -> Int], f3 \in [Nat -> Int] :
         /\ f0 = Given4(l, m, 0) /\ f1 = Given4(l, m, 1)
         /\ f2 = Given4(l, m, 2) /\ f3 = Given4(l, m, 3)
  BY <1>3
<1>5. ASSUME NEW i \in 0 .. m - 1
      PROVE  /\ w = 1 => f2[i] = 0 /\ f3[i] = 0
             /\ c[i] = f0[i] + 3 * f1[i] + 5 * f2[i] + 7 * f3[i]
  <2>1. i \in Nat /\ i < m /\ i + 1 \in 1 .. m
    BY <1>0
  <2>2. /\ f0[i] = Gives(l, i + 1, 0) /\ f1[i] = Gives(l, i + 1, 1)
        /\ f2[i] = Gives(l, i + 1, 2) /\ f3[i] = Gives(l, i + 1, 3)
    BY <1>4, <2>1 DEF Given4
  <2>3. c[i] = l[i + 1] * E[i + 1][pos]
    BY <1>2, <2>1 DEF Cell
  <2>4. /\ w = 1 => Gives(l, i + 1, 2) = 0 /\ Gives(l, i + 1, 3) = 0
        /\ Gives(l, i + 1, 0) + 3 * Gives(l, i + 1, 1) + 5 * Gives(l, i + 1, 2) + 7 * Gives(l, i + 1, 3)
              = l[i + 1] * E[i + 1][pos]
    BY <2>1, GivesDigit
  <2>5. QED
    BY <2>2, <2>3, <2>4
<1> DEFINE h1 == [i \in Nat |-> f0[i] + 3 * f1[i]]
           h2 == [i \in Nat |-> h1[i] + 5 * f2[i]]
<1>6. h1 \in [Nat -> Int] /\ \A i \in 0 .. m - 1 : h1[i] = f0[i] + 3 * f1[i]
  OBVIOUS
<1> HIDE DEF h1
<1>7. h2 \in [Nat -> Int] /\ \A i \in 0 .. m - 1 : h2[i] = h1[i] + 5 * f2[i]
  BY <1>6
<1> HIDE DEF h2
<1>8. \A i \in 0 .. m - 1 : c[i] = h2[i] + 7 * f3[i]
  <2>1. ASSUME NEW i \in 0 .. m - 1 PROVE c[i] = h2[i] + 7 * f3[i]
    BY <1>5, <1>6, <1>7
  <2>2. QED
    BY <2>1
<1>a. Blend(h1, f0, 3, f1, m) /\ Blend(h2, h1, 5, f2, m) /\ Blend(c, h2, 7, f3, m)
  BY <1>6, <1>7, <1>8 DEF Blend
<1>9. /\ SumTo(h1, m) = SumTo(f0, m) + 3 * SumTo(f1, m)
      /\ SumTo(h2, m) = SumTo(h1, m) + 5 * SumTo(f2, m)
      /\ SumTo(c, m) = SumTo(h2, m) + 7 * SumTo(f3, m)
  BY <1>0, <1>a, SumBlends
<1>12. /\ SumTo(f0, m) \in Int /\ SumTo(f1, m) \in Int /\ SumTo(f2, m) \in Int /\ SumTo(f3, m) \in Int
  BY <1>0, SumInt
<1>13. w = 1 => SumTo(f2, m) = 0 /\ SumTo(f3, m) = 0
  <2>1. SUFFICES ASSUME w = 1 PROVE SumTo(f2, m) = 0 /\ SumTo(f3, m) = 0
    OBVIOUS
  <2>2. \A i \in 0 .. m - 1 : f2[i] = 0 /\ f3[i] = 0
    BY <1>5, <2>1
  <2>3. QED
    BY <1>0, <2>2, SumOfZeros
<1>14. SumTo(f0, m) + 3 * SumTo(f1, m) + 5 * SumTo(f2, m) + 7 * SumTo(f3, m) = SumTo(c, m)
  BY <1>9, <1>12
<1>15. \A j \in 0 .. 3 : SumTo(Given4(l, m, j), m) \in Int
  <2>1. ASSUME NEW j \in 0 .. 3 PROVE SumTo(Given4(l, m, j), m) \in Int
    <3>1. j \in Nat
      OBVIOUS
    <3>2. Given4(l, m, j) \in [Nat -> Int]
      BY <3>1, GivesInt
    <3>3. QED
      BY <1>0, <3>2, SumInt
  <2>2. QED
    BY <2>1
<1>16. QED
  BY <1>1, <1>2, <1>4, <1>13, <1>14, <1>15

---------------------------------------------------------------------------
(* Pippenger: the running sums.                                            *)

\* The running sums, from the top bucket down, and the sums of these.
Running(b, top) == [i \in Nat |-> IF i <= top THEN b[top - i] ELSE 0]

RunningAfter(b, top) == [i \in Nat |-> SumTo(Running(b, top), i + 1)]

\* The buckets j of the position stand for b[j].
BucketsHold(b, top) ==
    /\ top \in Nat /\ \A j \in 0 .. top : b[j] \in Int /\ Rep(1, Bucket(j), b[j])

NextSums(s, j) == LET run == GejAddVar(s.run, Bucket(j)) IN
                  [run |-> run, r |-> GejAddVar(s.r, run)]

SumsFrom(base, top) ==
    LET D[j \in 1 .. top + 1] == IF j = top + 1 THEN base ELSE NextSums(D[j + 1], j)
    IN  D[1]

LEMMA RunningInt ==
    ASSUME NEW b, NEW top, BucketsHold(b, top)
    PROVE  /\ Running(b, top) \in [Nat -> Int] /\ RunningAfter(b, top) \in [Nat -> Int]
           /\ \A i \in Nat : /\ SumTo(Running(b, top), i) \in Int
                             /\ SumTo(RunningAfter(b, top), i) \in Int
<1>1. ASSUME NEW i \in Nat, i <= top PROVE b[top - i] \in Int
  <2>1. top - i \in 0 .. top
    BY <1>1 DEF BucketsHold
  <2>2. QED
    BY <2>1 DEF BucketsHold
<1>2. Running(b, top) \in [Nat -> Int]
  BY <1>1 DEF Running
<1>3. \A i \in Nat : SumTo(Running(b, top), i) \in Int
  BY <1>2, SumInt
<1>4. RunningAfter(b, top) \in [Nat -> Int]
  BY <1>3 DEF RunningAfter
<1>5. \A i \in Nat : SumTo(RunningAfter(b, top), i) \in Int
  BY <1>4, SumInt
<1>6. QED
  BY <1>2, <1>3, <1>4, <1>5

\* The running sums and the accumulator, from the top bucket down.
LEMMA SumsRight ==
    ASSUME NEW b, NEW top, BucketsHold(b, top), NEW a, NEW x \in Int, Rep(1, a, x),
           NEW base, base = [run |-> GejSetInfinity, r |-> a]
    PROVE  LET s == SumsFrom(base, top)
           IN  /\ Rep(1, s.run, SumTo(Running(b, top), top))
               /\ Rep(1, s.r, x + SumTo(RunningAfter(b, top), top))
<1> DEFINE D == CHOOSE d : d = [j \in 1 .. top + 1 |-> IF j = top + 1 THEN base
                                                       ELSE NextSums(d[j + 1], j)]
           f == Running(b, top)
           h == RunningAfter(b, top)
           A == [i \in Nat |-> {s \in [run : Gejs, r : Gejs] :
                    Rep(1, s.run, SumTo(f, i)) /\ Rep(1, s.r, x + SumTo(h, i))}]
<1>0. top \in Nat
  BY DEF BucketsHold
<1>1. SumsFrom(base, top) = D[1]
  BY DEF SumsFrom
<1>2. /\ f \in [Nat -> Int] /\ h \in [Nat -> Int]
      /\ \A i \in Nat : SumTo(f, i) \in Int /\ SumTo(h, i) \in Int
      /\ \A i \in Nat : h[i] = SumTo(f, i + 1)
      /\ \A i \in Nat : i <= top => f[i] = b[top - i]
  BY RunningInt DEF Running, RunningAfter
<1> HIDE DEF f, h
<1>3. base \in A[0]
  <2>1. SumTo(f, 0) = 0 /\ SumTo(h, 0) = 0 /\ x + 0 = x
    BY <1>2, SumZero
  <2>2. Rep(1, GejSetInfinity, 0)
    BY RepNothing, Ones
  <2>3. a \in Gejs /\ GejSetInfinity \in Gejs
    BY <2>2 DEF Rep
  <2>4. base.run = GejSetInfinity /\ base.r = a /\ base \in [run : Gejs, r : Gejs]
    BY <2>3
  <2>5. Rep(1, base.run, SumTo(f, 0)) /\ Rep(1, base.r, x + SumTo(h, 0))
    BY <2>1, <2>2, <2>4
  <2>6. QED
    BY <2>4, <2>5
<1>4. ASSUME NEW i \in 0 .. top - 1, NEW s \in A[i] PROVE NextSums(s, top - i) \in A[i + 1]
  <2>1. i \in Nat /\ i + 1 \in Nat /\ top - i \in 0 .. top /\ i <= top
    BY <1>0
  <2>2. PICK y \in Int, z \in Int : y = SumTo(f, i) /\ z = x + SumTo(h, i)
    BY <1>2, <2>1
  <2>3. Rep(1, s.run, y) /\ Rep(1, s.r, z)
    BY <2>1, <2>2
  <2>4. PICK v \in Int : v = b[top - i] /\ Rep(1, Bucket(top - i), v)
    BY <2>1 DEF BucketsHold
  <2> DEFINE run == GejAddVar(s.run, Bucket(top - i))
  <2>5. y + v \in Int /\ Rep(1, run, y + v)
    <3>1. PICK e : e = Bucket(top - i)
      OBVIOUS
    <3>2. Rep(1, e, v)
      BY <2>4, <3>1
    <3>3. Rep(1, GejAddVar(s.run, e), y + v)
      BY <2>3, <3>2, RepAddVar
    <3>4. QED
      BY <3>1, <3>3
  <2>6. SumTo(f, i + 1) = y + v
    BY <1>2, <2>1, <2>2, <2>4, SumStep
  <2>7. Rep(1, GejAddVar(s.r, run), z + (y + v))
    BY <2>3, <2>5, RepAddVar
  <2>8. x + SumTo(h, i + 1) = z + (y + v)
    <3>1. SumTo(h, i + 1) = SumTo(h, i) + h[i] /\ SumTo(h, i) \in Int
      BY <1>2, <2>1, SumStep
    <3>2. h[i] = y + v
      BY <1>2, <2>1, <2>6
    <3>3. QED
      BY <2>2, <2>5, <3>1, <3>2
  <2> HIDE DEF run
  <2>9. NextSums(s, top - i) = [run |-> run, r |-> GejAddVar(s.r, run)]
    BY DEF NextSums, run
  <2>10. run \in Gejs /\ GejAddVar(s.r, run) \in Gejs
    BY <2>5, <2>7 DEF Rep
  <2>11. PICK t : t = NextSums(s, top - i)
    OBVIOUS
  <2>12. t \in [run : Gejs, r : Gejs] /\ t.run = run /\ t.r = GejAddVar(s.r, run)
    BY <2>9, <2>10, <2>11
  <2>13. Rep(1, t.run, SumTo(f, i + 1)) /\ Rep(1, t.r, x + SumTo(h, i + 1))
    BY <2>5, <2>6, <2>7, <2>8, <2>12
  <2>14. t \in A[i + 1]
    BY <2>1, <2>12, <2>13
  <2>15. QED
    BY <2>11, <2>14
<1> HIDE DEF A
<1>5. D = [j \in 1 .. top + 1 |-> IF j = top + 1 THEN base ELSE NextSums(D[j + 1], j)]
  <2> DEFINE step == [i \in 0 .. top - 1 |-> [s \in A[i] |-> NextSums(s, top - i)]]
  <2>1. \A i \in 0 .. top - 1 : \A s \in A[i] : step[i][s] \in A[i + 1]
    BY <1>4
  <2>2. \A i \in 0 .. top - 1 : \A s \in A[i] : step[i][s] = NextSums(s, top - i)
    OBVIOUS
  <2> HIDE DEF step
  <2>3. PICK g : Walks(g, step, A, base, top)
    <3>1. Closed(step, A, top)
      BY <2>1 DEF Closed
    <3>2. QED
      BY <1>0, <1>3, <3>1, Iterated
  <2>4. /\ g[0] = base
        /\ \A i \in 0 .. top : g[i] \in A[i]
        /\ \A i \in 0 .. top - 1 : g[i + 1] = step[i][g[i]]
    BY <2>3 DEF Walks
  <2> DEFINE d == [j \in 1 .. top + 1 |-> g[top + 1 - j]]
  <2>5. ASSUME NEW j \in 1 .. top + 1
        PROVE  d[j] = IF j = top + 1 THEN base ELSE NextSums(d[j + 1], j)
    <3>1. CASE j = top + 1
      <4>1. top + 1 - j = 0
        BY <1>0, <3>1
      <4>2. QED
        BY <2>4, <3>1, <4>1
    <3>2. CASE j # top + 1
      <4>1. PICK i \in 0 .. top - 1 : i = top - j
        BY <1>0, <3>2
      <4>2. top + 1 - j = i + 1 /\ top + 1 - (j + 1) = i /\ top - i = j /\ j + 1 \in 1 .. top + 1
            /\ i \in 0 .. top
        BY <1>0, <3>2, <4>1
      <4>3. d[j] = g[i + 1] /\ d[j + 1] = g[i]
        BY <4>2
      <4>4. g[i + 1] = step[i][g[i]] /\ g[i] \in A[i]
        BY <2>4, <4>2
      <4>5. step[i][g[i]] = NextSums(g[i], top - i)
        BY <2>2, <4>4
      <4> HIDE DEF d
      <4>6. QED
        BY <3>2, <4>2, <4>3, <4>4, <4>5
    <3>3. QED
      BY <3>1, <3>2
  <2>6. d = [j \in 1 .. top + 1 |-> d[j]]
    OBVIOUS
  <2> HIDE DEF d
  <2>7. d = [j \in 1 .. top + 1 |-> IF j = top + 1 THEN base ELSE NextSums(d[j + 1], j)]
    BY <2>5, <2>6
  <2>8. QED
    BY <2>7
<1> HIDE DEF D
<1> DEFINE u == [i \in Nat |-> D[top + 1 - i]]
<1>6. \A i \in 0 .. top : u[i] \in A[i]
  <2>1. u[0] = base
    <3>1. top + 1 - 0 = top + 1 /\ top + 1 \in 1 .. top + 1
      BY <1>0
    <3>2. u[0] = D[top + 1]
      BY <3>1
    <3>3. QED
      BY <1>5, <3>1, <3>2
  <2>2. ASSUME NEW i \in 0 .. top - 1, u[i] \in A[i] PROVE u[i + 1] \in A[i + 1]
    <3>1. PICK j \in 1 .. top : j = top - i
      BY <1>0
    <3>2. top + 1 - (i + 1) = j /\ top + 1 - i = j + 1 /\ j \in 1 .. top + 1 /\ j # top + 1
          /\ i \in Nat /\ i + 1 \in Nat
      BY <1>0, <3>1
    <3>3. u[i + 1] = D[j] /\ u[i] = D[j + 1]
      BY <3>2
    <3>4. D[j] = NextSums(D[j + 1], j)
      BY <1>5, <3>2
    <3> HIDE DEF u
    <3>5. QED
      BY <1>4, <2>2, <3>1, <3>3, <3>4
  <2> HIDE DEF u
  <2>3. QED
    BY <1>0, <1>3, <2>1, <2>2, Kept
<1>7. u[top] = D[1] /\ top \in 0 .. top
  <2>1. top + 1 - top = 1
    BY <1>0
  <2>2. QED
    BY <1>0, <2>1
<1>8. D[1] \in A[top]
  BY <1>6, <1>7
<1>9. Rep(1, D[1].run, SumTo(f, top)) /\ Rep(1, D[1].r, x + SumTo(h, top))
  BY <1>0, <1>8 DEF A
<1>10. QED
  BY <1>1, <1>9 DEF f, h

\* With one window or two the sums are what the buckets count for.
LEMMA SumsAdd ==
    ASSUME NEW b, NEW top, BucketsHold(b, top), NEW x \in Int
    PROVE  LET y == SumTo(Running(b, top), top)
               z == x + SumTo(RunningAfter(b, top), top)
           IN  /\ y \in Int /\ z \in Int
               /\ top = 1 => 2 * z + (y + b[0]) = 2 * x + (b[0] + 3 * b[1])
               /\ top = 3 => 2 * z + (y + b[0])
                               = 2 * x + (b[0] + 3 * b[1] + 5 * b[2] + 7 * b[3])
<1> DEFINE f == Running(b, top)
           h == RunningAfter(b, top)
<1>1. /\ f \in [Nat -> Int] /\ h \in [Nat -> Int]
      /\ \A i \in Nat : SumTo(f, i) \in Int /\ SumTo(h, i) \in Int
      /\ \A i \in Nat : h[i] = SumTo(f, i + 1)
      /\ \A i \in Nat : i <= top => f[i] = b[top - i]
  BY RunningInt DEF Running, RunningAfter
<1>2. \A j \in 0 .. top : b[j] \in Int
  BY DEF BucketsHold
<1>3. top \in Nat
  BY DEF BucketsHold
<1> HIDE DEF f, h
<1>4. SumTo(f, 0) = 0 /\ SumTo(h, 0) = 0
  BY <1>1, SumZero
<1>5. \A i \in Nat : SumTo(f, i + 1) = SumTo(f, i) + f[i] /\ SumTo(h, i + 1) = SumTo(h, i) + h[i]
  BY <1>1, SumStep
<1>6. SumTo(f, 1) = f[0] /\ SumTo(h, 1) = h[0] /\ h[0] = SumTo(f, 1) /\ f[0] \in Int
  <2>1. 0 + 1 = 1 /\ 0 \in Nat
    OBVIOUS
  <2>2. SumTo(f, 0 + 1) = SumTo(f, 0) + f[0] /\ SumTo(h, 0 + 1) = SumTo(h, 0) + h[0]
        /\ h[0] = SumTo(f, 0 + 1) /\ f[0] \in Int /\ h[0] \in Int
    BY <1>1, <1>5, <2>1
  <2>3. QED
    BY <1>4, <2>1, <2>2
<1>7. CASE top = 1
  <2>1. f[0] = b[1] /\ b[1] \in Int /\ b[0] \in Int
    BY <1>1, <1>2, <1>7
  <2>2. SumTo(f, top) = b[1] /\ SumTo(h, top) = b[1]
    BY <1>6, <1>7, <2>1
  <2>3. QED
    BY <1>7, <2>1, <2>2 DEF f, h
<1>8. CASE top = 3
  <2>1. f[0] = b[3] /\ f[1] = b[2] /\ f[2] = b[1] /\ b[3] \in Int /\ b[2] \in Int
        /\ b[1] \in Int /\ b[0] \in Int
    BY <1>1, <1>2, <1>8
  <2>2. /\ SumTo(f, 2) = SumTo(f, 1) + f[1] /\ SumTo(h, 2) = SumTo(h, 1) + h[1]
        /\ h[1] = SumTo(f, 2)
    <3>1. 1 + 1 = 2 /\ 1 \in Nat
      OBVIOUS
    <3>2. SumTo(f, 1 + 1) = SumTo(f, 1) + f[1] /\ SumTo(h, 1 + 1) = SumTo(h, 1) + h[1]
          /\ h[1] = SumTo(f, 1 + 1)
      BY <1>1, <1>5, <3>1
    <3>3. QED
      BY <3>1, <3>2
  <2>3. /\ SumTo(f, 3) = SumTo(f, 2) + f[2] /\ SumTo(h, 3) = SumTo(h, 2) + h[2]
        /\ h[2] = SumTo(f, 3)
    <3>1. 2 + 1 = 3 /\ 2 \in Nat
      OBVIOUS
    <3>2. SumTo(f, 2 + 1) = SumTo(f, 2) + f[2] /\ SumTo(h, 2 + 1) = SumTo(h, 2) + h[2]
          /\ h[2] = SumTo(f, 2 + 1)
      BY <1>1, <1>5, <3>1
    <3>3. QED
      BY <3>1, <3>2
  <2>4. SumTo(f, top) = b[3] + b[2] + b[1] /\ SumTo(h, top) = b[3] + (b[3] + b[2]) + (b[3] + b[2] + b[1])
    <3>1. PICK u \in Int, v \in Int, t \in Int : u = b[1] /\ v = b[2] /\ t = b[3]
      BY <2>1
    <3>2. SumTo(f, 1) = t /\ SumTo(f, 2) = t + v /\ SumTo(f, 3) = t + v + u
      BY <1>6, <2>1, <2>2, <2>3, <3>1
    <3>3. SumTo(h, 1) = t /\ SumTo(h, 2) = t + (t + v) /\ SumTo(h, 3) = t + (t + v) + (t + v + u)
      BY <1>6, <2>2, <2>3, <3>1, <3>2
    <3>4. QED
      BY <1>8, <3>1, <3>2, <3>3
  <2>5. PICK y \in Int, z \in Int : y = SumTo(f, top) /\ z = SumTo(h, top)
    BY <1>1, <1>3
  <2>6. PICK u \in Int, v \in Int, t \in Int, s \in Int :
           u = b[1] /\ v = b[2] /\ t = b[3] /\ s = b[0]
    BY <2>1
  <2>7. y = t + v + u /\ z = t + (t + v) + (t + v + u)
    BY <2>4, <2>5, <2>6
  <2>8. x + z \in Int /\ 2 * (x + z) + (y + s) = 2 * x + (s + 3 * u + 5 * v + 7 * t)
    BY <2>7
  <2>9. 2 * (x + SumTo(h, top)) + (SumTo(f, top) + b[0])
              = 2 * x + (b[0] + 3 * b[1] + 5 * b[2] + 7 * b[3])
    BY <2>5, <2>6, <2>8
  <2>10. x + SumTo(h, top) \in Int /\ SumTo(f, top) \in Int
    BY <2>5, <2>8
  <2>11. top # 1
    BY <1>8
  <2>12. QED
    BY <2>9, <2>10, <2>11 DEF f, h
<1>9. SumTo(f, top) \in Int /\ SumTo(h, top) \in Int
  BY <1>1, <1>3
<1>10. QED
  BY <1>7, <1>8, <1>9 DEF f, h

---------------------------------------------------------------------------
(* Pippenger: all digits of all terms.                                     *)

LEMMA SizeShort ==
    ASSUME NEW w \in 1 .. Bits
    PROVE  /\ WnafSize(w) - 1 \in Nat /\ (WnafSize(w) - 1) + 1 = WnafSize(w) /\ WnafSize(w) \in Nat
           /\ Short(w, WnafSize(w)) /\ WnafSize(w) * w <= 2 * Bits + 1 /\ WnafSize(w) >= 1
<1>1. /\ WnafSize(w) \in 1 .. Bits /\ WnafSize(w) * w <= Bits + w - 1
      /\ (WnafSize(w) - 1) * w \in 0 .. Bits - 1
  BY WnafSizeRange
<1>2. PICK u \in Int, v \in Int : u = WnafSize(w) * w /\ v = (WnafSize(w) - 1) * w
  BY <1>1, SMT
<1>3. u <= 2 * Bits + 1 /\ v <= 2 * Bits + 1
  BY <1>1, <1>2, Two
<1>4. Short(w, WnafSize(w))
  BY <1>2, <1>3 DEF Short
<1>5. QED
  BY <1>1, <1>2, <1>3, <1>4

\* Without the skew the digits are the scalar.
LEMMA UnskewedRight ==
    ASSUME NEW w \in 1 .. Bits, NEW n \in Scalars, NEW d, FixedRecoded(d, w, n)
    PROVE  /\ \A i \in 0 .. WnafSize(w) - 1 :
                 /\ Unskewed(d)[i] \in Int
                 /\ Unskewed(d)[i] = d.digit[i] - (IF i = 0 THEN d.skew ELSE 0)
           /\ Low(Unskewed(d), w, WnafSize(w)) = n
<1> DEFINE last == WnafSize(w) - 1
           g == d.digit
           h == Unskewed(d)
<1>1. /\ d.skew \in {0, 1} /\ d.skew \in Int /\ g \in [0 .. last -> Int]
      /\ Low(g, w, last + 1) = n + d.skew
  BY DEF FixedRecoded
<1>2. last \in Nat /\ Short(w, last + 1) /\ last + 1 = WnafSize(w) /\ w \in Nat
  BY SizeShort
<1> HIDE DEF last
<1>3. h = [i \in 0 .. last |-> IF i = 0 THEN g[0] - d.skew ELSE g[i]]
  BY <1>1 DEF Unskewed
<1> HIDE DEF g
<1>4. 0 \in 0 .. last /\ \A i \in 0 .. last : g[i] \in Int
  BY <1>1, <1>2
<1>5. \A i \in 0 .. last : h[i] = IF i = 0 THEN g[0] - d.skew ELSE g[i]
  BY <1>3
<1> HIDE DEF h
<1>6. h[0] \in Int /\ h[0] = g[0] - d.skew
  BY <1>1, <1>4, <1>5
<1>7. Whole(g, last) /\ SameBut(g, h, last, 0)
  BY <1>4, <1>5, <1>6 DEF Whole, SameBut
<1>8. Low(h, w, last + 1) = Low(g, w, last + 1) + Change(g, h, w, 0)
  BY <1>2, <1>4, <1>7, DigitChange
<1>9. Change(g, h, w, 0) = -d.skew
  <2>1. 0 * w = 0
    BY <1>2, SMT
  <2>2. 2^0 = 1
    BY PowersAssumption
  <2>3. 2^(0 * w) = 1
    BY <2>1, <2>2, Zenon
  <2>4. (h[0] - g[0]) * 1 = -d.skew
    BY <1>1, <1>4, <1>6
  <2>5. QED
    BY <2>3, <2>4 DEF Change
<1>10. n \in Int
  BY Order
<1>11. Low(h, w, last + 1) = n
  BY <1>1, <1>8, <1>9, <1>10
<1>12. ASSUME NEW i \in 0 .. last
       PROVE  h[i] \in Int /\ h[i] = g[i] - (IF i = 0 THEN d.skew ELSE 0)
  BY <1>1, <1>4, <1>5
<1>13. QED
  BY <1>2, <1>11, <1>12 DEF last, g, h

\* G first, then the terms.
LEMMA AllShares ==
    ASSUME NEW ts, Asked(ts), NEW g \in Scalars \cup {NoScalar}
    PROVE  /\ SumTo(Shares(All(ts, g)), Len(All(ts, g))) = Wanted(g, ts)
           /\ Wanted(g, ts) \in Int
<1>1. ts \in Seq(TermRecords) /\ AllOK(ts) /\ Len(ts) \in Nat
  BY DEF Asked
<1>2. PICK f \in [Nat -> Int] : f = Shares(ts)
  BY <1>1, SharesInt
<1>3. PICK x \in Int : x = SumTo(f, Len(ts))
  BY <1>1, SumInt
<1>4. CASE g = NoScalar
  <2>1. All(ts, g) = ts /\ Given(g) = 0
    BY <1>4 DEF All, Given
  <2>2. Wanted(g, ts) = 0 + x
    BY <1>2, <1>3, <2>1 DEF Wanted
  <2>3. QED
    BY <1>2, <1>3, <2>1, <2>2
<1>5. CASE g # NoScalar
  <2> DEFINE t == [n |-> g, a |-> GejSetGe(ToGe(G))]
             q == <<t>> \o ts
  <2>1. t \in TermRecords /\ TermOK(t) /\ LogOf(t.a) = 1 /\ t.n = g /\ g \in Int
    BY <1>5, GeneratorTerm, Order
  <2>2. All(ts, g) = q
    BY <1>5 DEF All
  <2> HIDE DEF t
  <2>3. /\ q \in Seq(TermRecords) /\ Len(q) = 1 + Len(ts) /\ q[1] = t
        /\ \A i \in 1 .. Len(ts) : q[i + 1] = ts[i]
    BY <1>1, <2>1
  <2> HIDE DEF q
  <2>4. AllOK(q)
    BY <2>2, AllAsked
  <2>5. PICK h \in [Nat -> Int] : h = Shares(q)
    BY <2>3, <2>4, SharesInt
  <2>6. SumTo(h, 1 + Len(ts)) = SumTo(h, 1) + SumTo([i \in Nat |-> h[1 + i]], Len(ts))
    BY <1>1, SumSplit
  <2>7. SumTo(h, 1) = g
    <3>1. h[0] = g
      <4>1. h[0] = q[0 + 1].n * LogOf(q[0 + 1].a)
        BY <1>1, <2>3, <2>5 DEF Shares
      <4>2. 0 + 1 = 1 /\ g * 1 = g
        BY <2>1
      <4>3. QED
        BY <2>1, <2>3, <4>1, <4>2
    <3>2. SumTo(h, 0 + 1) = SumTo(h, 0) + h[0] /\ SumTo(h, 0) = 0 /\ 0 + 1 = 1
      BY SumStep, SumZero
    <3>3. QED
      BY <2>1, <3>1, <3>2
  <2> DEFINE k == [i \in Nat |-> h[1 + i]]
  <2>8. k \in [Nat -> Int] /\ \A i \in Nat : k[i] = h[1 + i]
    OBVIOUS
  <2> HIDE DEF k
  <2>9. ASSUME NEW i \in 0 .. Len(ts) - 1 PROVE k[i] = f[i]
    <3>1. i \in Nat /\ 1 + i \in Nat /\ 1 + i < Len(q) /\ (1 + i) + 1 = (i + 1) + 1
          /\ i + 1 \in 1 .. Len(ts) /\ i < Len(ts)
      BY <1>1, <2>3
    <3>2. h[1 + i] = q[(i + 1) + 1].n * LogOf(q[(i + 1) + 1].a)
      BY <2>5, <3>1 DEF Shares
    <3>3. f[i] = ts[i + 1].n * LogOf(ts[i + 1].a)
      BY <1>2, <3>1 DEF Shares
    <3>4. q[(i + 1) + 1] = ts[i + 1]
      BY <2>3, <3>1
    <3>5. QED
      BY <2>8, <3>1, <3>2, <3>3, <3>4
  <2>10. SumTo(k, Len(ts)) = SumTo(f, Len(ts))
    BY <1>1, <2>8, <2>9, SumEqual
  <2>11. SumTo(h, Len(q)) = g + x
    BY <1>3, <2>3, <2>6, <2>7, <2>10 DEF k
  <2>12. Wanted(g, ts) = g + x
    BY <1>2, <1>3, <1>5 DEF Wanted, Given
  <2>13. QED
    BY <1>3, <2>1, <2>2, <2>5, <2>11, <2>12
<1>6. QED
  BY <1>4, <1>5

\* What the digits of the terms are for.
Means(l, E, m, w, n, f) ==
    /\ f \in [Nat -> Int]
    /\ \A k \in 1 .. m : \E v \in Int : Cong(N, Low(E[k], w, n), v) /\ f[k - 1] = v * l[k]

LEMMA ColumnMeans ==
    ASSUME NEW w \in Nat, NEW n \in Nat, Short(w, n), NEW l, NEW E, NEW m, Family(l, E, m, n),
           NEW f, Means(l, E, m, w, n, f)
    PROVE  /\ Low(Column(l, E, m, m), w, n) \in Int /\ SumTo(f, m) \in Int
           /\ Cong(N, Low(Column(l, E, m, m), w, n), SumTo(f, m))
<1>1. m \in Nat /\ m \in 0 .. m
  BY DEF Family
<1>2. /\ Values(l, E, m, w, n) \in [Nat -> Int] /\ Low(Column(l, E, m, m), w, n) \in Int
      /\ Low(Column(l, E, m, m), w, n) = SumTo(Values(l, E, m, w, n), m)
  BY <1>1, ColumnSum
<1>3. PICK u \in [Nat -> Int] : u = Values(l, E, m, w, n)
  BY <1>2
<1>4. f \in [Nat -> Int]
  BY DEF Means
<1>5. ASSUME NEW i \in 0 .. m - 1 PROVE Cong(N, u[i], f[i])
  <2>1. i \in Nat /\ i < m /\ i + 1 \in 1 .. m /\ (i + 1) - 1 = i
    BY <1>1
  <2>2. PICK v \in Int : Cong(N, Low(E[i + 1], w, n), v) /\ f[(i + 1) - 1] = v * l[i + 1]
    BY <2>1 DEF Means
  <2>3. l[i + 1] \in Int /\ \A j \in 0 .. n - 1 : E[i + 1][j] \in Int
    BY <2>1 DEF Family
  <2>4. Low(E[i + 1], w, n) \in Int
    BY <2>3, WeighingInt
  <2>5. PICK x \in Int, y \in Int : x = l[i + 1] /\ y = Low(E[i + 1], w, n)
    BY <2>3, <2>4
  <2>6. u[i] = x * y
    BY <1>3, <2>1, <2>5 DEF Values
  <2>7. f[i] = x * v
    <3>1. x * v = v * x
      BY SMT
    <3>2. QED
      BY <2>1, <2>2, <2>5, <3>1
  <2>8. Cong(N, y, v)
    BY <2>2, <2>5
  <2>9. Cong(N, x, x)
    BY Order, CongRefl
  <2>10. Cong(N, x * y, x * v)
    BY <2>8, <2>9, Order, CongMul, Zenon
  <2>11. QED
    BY <2>6, <2>7, <2>10
<1>6. Cong(N, SumTo(u, m), SumTo(f, m))
  BY <1>1, <1>4, <1>5, SumCong
<1>7. SumTo(f, m) \in Int
  BY <1>1, <1>4, SumInt
<1>8. QED
  BY <1>2, <1>3, <1>6, <1>7

Logs(used) == [k \in 1 .. Len(used) |-> LogOf(used[k].a)]

\* The digits of pippenger_batch add up to what is wanted.
PippengerColumn(used, digs) ==
    Column(Logs(used), [k \in 1 .. Len(used) |-> Unskewed(digs[k])], Len(used), Len(used))

\* All digits, weighed, are the sum the call is for.
LEMMA PippengerTotal ==
    ASSUME NEW ts, Asked(ts), NEW g \in Scalars \cup {NoScalar}, NEW used, used = Used(All(ts, g)),
           NEW w, w + 1 \in 1 .. Bits, NEW digs, digs = PippengerDigits(used, w)
    PROVE  LET E == [k \in 1 .. Len(used) |-> Unskewed(digs[k])]
               n == WnafSize(w + 1)
               c == PippengerColumn(used, digs)
           IN  /\ Family(Logs(used), E, Len(used), n)
               /\ \A i \in 0 .. n - 1 : c[i] \in Int
               /\ Low(c, w + 1, n) \in Int
               /\ Cong(N, Low(c, w + 1, n), Wanted(g, ts))
<1> DEFINE E == [k \in 1 .. Len(used) |-> Unskewed(digs[k])]
           n == WnafSize(w + 1)
           m == Len(used)
           l == Logs(used)
           f == Shares(used)
           q == All(ts, g)
<1>1. q \in Seq(TermRecords) /\ AllOK(q)
  BY AllAsked
<1> HIDE DEF q
<1>2. UsedOK(used, Len(q)) /\ Cong(N, SumTo(f, m), SumTo(Shares(q), Len(q)))
  BY <1>1, UsedAsked DEF q
<1>3. used \in Seq(TermRecords) /\ AllOK(used) /\ m \in Nat /\ DOMAIN used = 1 .. m
  BY <1>2 DEF UsedOK
<1>4. \A k \in 1 .. m : FixedRecoded(digs[k], w + 1, used[k].n) /\ used[k].n \in Scalars
                        /\ LogOf(used[k].a) \in Int
  BY <1>2, <1>3, PippengerDigitsRight DEF AllOK, TermOK
<1>5. n \in Nat /\ Short(w + 1, n) /\ w + 1 \in Nat /\ n >= 1
  BY SizeShort
<1>6. ASSUME NEW k \in 1 .. m
      PROVE  /\ \A i \in 0 .. n - 1 : E[k][i] \in Int
             /\ Low(E[k], w + 1, n) = used[k].n /\ l[k] = LogOf(used[k].a)
  BY <1>4, UnskewedRight DEF Logs
<1>7. f \in [Nat -> Int] /\ \A i \in Nat : i < m => f[i] = used[i + 1].n * LogOf(used[i + 1].a)
  BY <1>3, SharesInt DEF Shares
<1> HIDE DEF E, n, l, f
<1>8. Family(l, E, m, n)
  BY <1>3, <1>4, <1>6 DEF Family
<1>9. Means(l, E, m, w + 1, n, f)
  <2>1. ASSUME NEW k \in 1 .. m
        PROVE  \E v \in Int : Cong(N, Low(E[k], w + 1, n), v) /\ f[k - 1] = v * l[k]
    <3>1. used[k].n \in Int
      BY <1>4, Order
    <3>2. Cong(N, used[k].n, used[k].n)
      BY <3>1, Order, CongRefl
    <3>3. k - 1 \in Nat /\ k - 1 < m /\ (k - 1) + 1 = k
      BY <1>3
    <3>4. f[k - 1] = used[k].n * LogOf(used[k].a)
      BY <1>7, <3>3
    <3>5. QED
      BY <1>6, <3>1, <3>2, <3>4
  <2>2. QED
    BY <1>7, <2>1 DEF Means
<1>10. PippengerColumn(used, digs) = Column(l, E, m, m)
  BY DEF PippengerColumn, l, E
<1>11. /\ Low(Column(l, E, m, m), w + 1, n) \in Int /\ SumTo(f, m) \in Int
       /\ Cong(N, Low(Column(l, E, m, m), w + 1, n), SumTo(f, m))
  BY <1>5, <1>8, <1>9, ColumnMeans
<1>12. SumTo(Shares(q), Len(q)) = Wanted(g, ts) /\ Wanted(g, ts) \in Int
  BY AllShares DEF q
<1>13. Cong(N, Low(Column(l, E, m, m), w + 1, n), Wanted(g, ts))
  BY <1>2, <1>11, <1>12, Order, CongTrans
<1>14. \A i \in 0 .. n - 1 : Column(l, E, m, m)[i] \in Int
  BY <1>3, <1>8, CellInt
<1>15. QED
  BY <1>8, <1>10, <1>11, <1>13, <1>14 DEF l, E, n

---------------------------------------------------------------------------
(* Pippenger: from the first position to the last.                         *)

\* Affine operands.
Flat(t) == t.a.infinity \/ t.a.z = 1

LEMMA InputFlat == ASSUME NEW n, NEW t \in Terms PROVE Flat([n |-> n, a |-> ToGej(t.p, 1)])
<1>1. t.p \in Points
  BY InputAssumption
<1>2. /\ ToGej(t.p, 1).infinity <=> t.p = Infinity
      /\ t.p # Infinity => ToGej(t.p, 1).z = 1
      /\ Stands(ToGej(t.p, 1), t.p)
  BY <1>1, Ones, OperandStands
<1>3. ToGej(t.p, 1).infinity \in BOOLEAN
  BY <1>2 DEF Stands, Gejs
<1>4. QED
  BY <1>2, <1>3 DEF Flat

LEMMA BatchFlat == ASSUME NEW ts \in Batches PROVE \A i \in DOMAIN ts : Flat(ts[i])
<1>1. CASE \E n \in Scalars, t \in Terms : ts = << [n |-> n, a |-> ToGej(t.p, 1)] >>
  <2>1. PICK n \in Scalars, t \in Terms : ts = << [n |-> n, a |-> ToGej(t.p, 1)] >>
    BY <1>1
  <2>2. PICK e : e = [n |-> n, a |-> ToGej(t.p, 1)] /\ Flat(e)
    BY InputFlat
  <2>3. \A i \in DOMAIN <<e>> : <<e>>[i] = e
    OBVIOUS
  <2>4. QED
    BY <2>1, <2>2, <2>3
<1>2. CASE \E n \in Scalars, m \in BatchScalars, t \in Terms, u \in Terms :
             ts = << [n |-> n, a |-> ToGej(t.p, 1)], [n |-> m, a |-> ToGej(u.p, 1)] >>
  <2>1. PICK n \in Scalars, m \in BatchScalars, t \in Terms, u \in Terms :
             ts = << [n |-> n, a |-> ToGej(t.p, 1)], [n |-> m, a |-> ToGej(u.p, 1)] >>
    BY <1>2
  <2>2. PICK e : e = [n |-> n, a |-> ToGej(t.p, 1)] /\ Flat(e)
    BY InputFlat
  <2>3. PICK d : d = [n |-> m, a |-> ToGej(u.p, 1)] /\ Flat(d)
    BY InputFlat
  <2>4. \A i \in DOMAIN <<e, d>> : <<e, d>>[i] = e \/ <<e, d>>[i] = d
    OBVIOUS
  <2>5. QED
    BY <2>1, <2>2, <2>3, <2>4
<1>3. QED
  BY <1>1, <1>2 DEF Batches

LEMMA AllFlat ==
    ASSUME NEW ts, Asked(ts), \A i \in DOMAIN ts : Flat(ts[i]), NEW g \in Scalars \cup {NoScalar}
    PROVE  \A i \in DOMAIN All(ts, g) : Flat(All(ts, g)[i])
<1>1. CASE g = NoScalar
  BY <1>1 DEF All
<1>2. CASE g # NoScalar
  <2> DEFINE t == [n |-> g, a |-> GejSetGe(ToGe(G))]
             q == <<t>> \o ts
  <2>1. t \in TermRecords /\ Flat(t) /\ ts \in Seq(TermRecords)
    BY <1>2, GeneratorTerm DEF Flat, GejSetGe, Asked
  <2>2. All(ts, g) = q
    BY <1>2 DEF All
  <2> HIDE DEF t
  <2>3. /\ Len(q) = 1 + Len(ts) /\ q[1] = t /\ DOMAIN q = 1 .. 1 + Len(ts) /\ Len(ts) \in Nat
        /\ \A i \in 1 .. Len(ts) : q[i + 1] = ts[i]
    BY <2>1
  <2> HIDE DEF q
  <2>4. ASSUME NEW i \in DOMAIN q PROVE Flat(q[i])
    <3>1. CASE i = 1
      BY <2>1, <2>3, <3>1
    <3>2. CASE i # 1
      <4>1. i - 1 \in 1 .. Len(ts) /\ (i - 1) + 1 = i /\ i - 1 \in DOMAIN ts
        BY <2>1, <2>3, <3>2
      <4>2. QED
        BY <2>3, <4>1
    <3>3. QED
      BY <3>1, <3>2
  <2>5. QED
    BY <2>2, <2>4
<1>3. QED
  BY <1>1, <1>2

LEMMA EntryOfFlat ==
    ASSUME NEW t, TermOK(t), Flat(t), ~t.a.infinity
    PROVE  Entry(1, [x |-> t.a.x, y |-> t.a.y, infinity |-> FALSE], LogOf(t.a))
<1> DEFINE a == t.a
           e == [x |-> a.x, y |-> a.y, infinity |-> FALSE]
<1>1. a \in Gejs /\ Stands(a, TimesOf(LogOf(a))) /\ a.z = 1 /\ a.infinity = FALSE
  BY RepIsStands DEF TermOK, Flat, Rep, Gejs
<1>2. a = [x |-> a.x, y |-> a.y, z |-> a.z, infinity |-> a.infinity] /\ a.x \in Field /\ a.y \in Field
  BY <1>1 DEF Gejs
<1>3. Gej(a.x, a.y, 1) = a
  BY <1>1, <1>2 DEF Gej
<1>4. e.x = a.x /\ e.y = a.y /\ e.infinity = FALSE
  OBVIOUS
<1> HIDE DEF e, a
<1>5. Entry(1, e, LogOf(a))
  BY <1>1, <1>2, <1>3, <1>4 DEF Entry
<1>6. QED
  BY <1>5 DEF e, a

PippengerRight(ts, g, digs, tab, p, acc) ==
    LET used == Used(All(ts, g))
        w    == BucketWindow(Len(ts))
        c    == PippengerColumn(used, digs)
        size == WnafSize(w + 1)
    IN  /\ digs = PippengerDigits(used, w) /\ p \in Done .. size - 1
        /\ \A k \in 1 .. Len(used) :
              Entry(1, [x |-> tab[k].x, y |-> tab[k].y, infinity |-> FALSE], LogOf(used[k].a))
        /\ \E x \in Int : Rep(1, acc, x) /\ Horner(x, c, w + 1, p + 1, Low(c, w + 1, size))

\* pippenger_wnaf starts with the whole sum still to come.
LEMMA PippengerStarts ==
    ASSUME NEW ts \in Batches, NEW g \in Scalars \cup {NoScalar}, NEW used, used = Used(All(ts, g)),
           NEW w, w = BucketWindow(Len(ts)), NEW tab, tab = [k \in DOMAIN used |-> used[k].a],
           NEW p, p = IF used = << >> THEN Done ELSE WnafSize(w + 1) - 1
    PROVE  PippengerRight(ts, g, PippengerDigits(used, w), tab, p, GejSetInfinity)
<1> DEFINE digs == PippengerDigits(used, w)
           c == PippengerColumn(used, digs)
           size == WnafSize(w + 1)
           E == [k \in 1 .. Len(used) |-> Unskewed(digs[k])]
<1>1. Asked(ts) /\ \A i \in DOMAIN ts : Flat(ts[i])
  BY BatchAsked, BatchFlat
<1>2. /\ UsedOK(used, Len(All(ts, g)))
      /\ \A k \in 1 .. Len(used) : \E i \in DOMAIN All(ts, g) : used[k] = All(ts, g)[i]
  BY <1>1, AllAsked, UsedAsked
<1>3. used \in Seq(TermRecords) /\ Len(used) \in Nat /\ DOMAIN used = 1 .. Len(used) /\ AllOK(used)
      /\ \A k \in 1 .. Len(used) : Taken(used[k])
  BY <1>2 DEF UsedOK
<1>4. w + 1 \in 1 .. Bits
  BY BucketWindowSize
<1>5. /\ size - 1 \in Nat /\ size \in Nat /\ size * (w + 1) <= 2 * Bits + 1 /\ w + 1 \in Nat
  BY <1>4, SizeShort
<1>6. /\ Family(Logs(used), E, Len(used), size) /\ \A i \in 0 .. size - 1 : c[i] \in Int
  BY <1>1, <1>4, PippengerTotal
<1>7. ASSUME NEW k \in 1 .. Len(used)
      PROVE  Entry(1, [x |-> tab[k].x, y |-> tab[k].y, infinity |-> FALSE], LogOf(used[k].a))
  <2>1. TermOK(used[k]) /\ Flat(used[k]) /\ ~used[k].a.infinity /\ tab[k] = used[k].a
    BY <1>1, <1>2, <1>3, AllFlat DEF AllOK, Taken
  <2>2. QED
    BY <2>1, EntryOfFlat
<1>8. p \in Done .. size - 1
  BY <1>5 DEF Done
<1> HIDE DEF size, E, c, digs
<1>9. \A i \in p + 1 .. size - 1 : c[i] = 0
  <2>1. CASE used = << >>
    <3>1. Len(used) = 0
      BY <2>1
    <3>2. ASSUME NEW i \in p + 1 .. size - 1 PROVE c[i] = 0
      <4>1. i \in 0 .. size - 1
        BY <1>8, <3>2 DEF Done
      <4>2. PICK m, l : m = Len(used) /\ l = Logs(used)
        OBVIOUS
      <4>3. Family(l, E, m, size) /\ m \in Nat /\ m = 0
        BY <1>3, <1>6, <3>1, <4>2
      <4>4. /\ Cell(l, E, m, i) \in [Nat -> Int]
            /\ Column(l, E, m, m)[i] = SumTo(Cell(l, E, m, i), m)
        BY <4>1, <4>3, CellInt
      <4>5. SumTo(Cell(l, E, m, i), m) = 0
        BY <4>3, <4>4, SumZero
      <4>6. c = Column(l, E, m, m)
        BY <4>2 DEF PippengerColumn, c, E
      <4>7. QED
        BY <4>4, <4>5, <4>6
    <3>3. QED
      BY <3>2
  <2>2. CASE used # << >>
    <3>1. p + 1 = size
      BY <1>5, <2>2 DEF size
    <3>2. QED
      BY <1>5, <3>1
  <2>3. QED
    BY <2>1, <2>2
<1>10. Horner(0, c, w + 1, p + 1, Low(c, w + 1, size))
  <2>1. p + 1 \in 0 .. size
    BY <1>5, <1>8 DEF Done
  <2>2. QED
    BY <1>5, <1>6, <1>9, <2>1, HornerStart
<1>11. Rep(1, GejSetInfinity, 0) /\ 0 \in Int
  BY RepNothing, Ones
<1>12. QED
  BY <1>7, <1>8, <1>10, <1>11 DEF PippengerRight, c, digs, size

LEMMA BucketsOf ==
    ASSUME NEW l, NEW m, NEW w, BucketsFilled(l, m, w), NEW top, top \in 0 .. 3
    PROVE  BucketsHold([j \in Nat |-> SumTo(Given4(l, m, j), m)], top)
<1> DEFINE b == [j \in Nat |-> SumTo(Given4(l, m, j), m)]
<1>1. ASSUME NEW j \in 0 .. top PROVE b[j] \in Int /\ Rep(1, Bucket(j), b[j])
  <2>1. j \in Nat
    OBVIOUS
  <2>2. /\ SumTo(Given4(l, m, j), m) \in Int
        /\ Rep(1, Bucket(j), SumTo(Given4(l, m, j), m))
    BY <2>1, BucketRight
  <2>3. b[j] = SumTo(Given4(l, m, j), m)
    BY <2>1
  <2>4. QED
    BY <2>2, <2>3
<1>2. top \in Nat
  OBVIOUS
<1>3. QED
  BY <1>1, <1>2 DEF BucketsHold

\* One position: the accumulator takes its digits.
LEMMA PositionRight ==
    ASSUME NEW l, NEW m, NEW w, BucketsFilled(l, m, w), NEW E, NEW n, pos \in 0 .. n - 1,
           Family(l, E, m, n),
           \A k \in 1 .. m : E[k][pos] = digits[k].digit[pos] - (IF pos = 0 THEN digits[k].skew ELSE 0),
           NEW x \in Int, Rep(1, r, x), NEW s,
           s = SumsFrom([run |-> GejSetInfinity, r |-> DoubleTimes(r, w)], 2^w - 1)
    PROVE  Rep(1, GejAddVar(GejDouble(s.r), GejAddVar(s.run, Bucket(0))),
               2^(w + 1) * x + Column(l, E, m, m)[pos])
<1>1. w \in {1, 2} /\ w \in Nat /\ w <= 2 * Bits + 1
  BY WindowSizes DEF BucketsFilled
<1> DEFINE top == 2^w - 1
<1>2. /\ w = 1 => top = 1 /\ 2^w = 2 /\ 2^(w + 1) = 4
      /\ w = 2 => top = 3 /\ 2^w = 4 /\ 2^(w + 1) = 8
  <2>1. 2^1 = 2 /\ 2^2 = 4 /\ 2^3 = 8 /\ 1 + 1 = 2 /\ 2 + 1 = 3
    BY SmallPowers
  <2>2. CASE w = 1
    <3>1. 2^w = 2 /\ 2^(w + 1) = 4
      BY <2>1, <2>2, Zenon
    <3>2. QED
      BY <2>2, <3>1
  <2>3. CASE w = 2
    <3>1. 2^w = 4 /\ 2^(w + 1) = 8
      BY <2>1, <2>3, Zenon
    <3>2. QED
      BY <2>3, <3>1
  <2>4. QED
    BY <1>1, <2>2, <2>3
<1>3. top \in 0 .. 3
  BY <1>1, <1>2
<1> DEFINE b == [j \in Nat |-> SumTo(Given4(l, m, j), m)]
<1>4. BucketsHold(b, top)
  BY <1>3, BucketsOf
<1>5. /\ \A j \in 0 .. 3 : b[j] \in Int
      /\ w = 1 => b[2] = 0 /\ b[3] = 0
      /\ b[0] + 3 * b[1] + 5 * b[2] + 7 * b[3] = Column(l, E, m, m)[pos]
  BY BucketsDigit
<1> HIDE DEF b, top
<1>6. PICK a : a = DoubleTimes(r, w)
  OBVIOUS
<1>7. PICK z \in Int : z = 2^w * x /\ Rep(1, a, z)
  BY <1>1, <1>6, Ones, RepDoubleTimes
<1> DEFINE base == [run |-> GejSetInfinity, r |-> a]
<1>8. s = SumsFrom(base, top)
  BY <1>6 DEF top
<1>9. base = [run |-> GejSetInfinity, r |-> a]
  OBVIOUS
<1> HIDE DEF base
<1>10. /\ Rep(1, s.run, SumTo(Running(b, top), top))
       /\ Rep(1, s.r, z + SumTo(RunningAfter(b, top), top))
  BY <1>4, <1>7, <1>8, <1>9, SumsRight
<1>11. PICK u \in Int, v \in Int :
          /\ u = SumTo(Running(b, top), top) /\ v = z + SumTo(RunningAfter(b, top), top)
          /\ top = 1 => 2 * v + (u + b[0]) = 2 * z + (b[0] + 3 * b[1])
          /\ top = 3 => 2 * v + (u + b[0]) = 2 * z + (b[0] + 3 * b[1] + 5 * b[2] + 7 * b[3])
  BY <1>4, SumsAdd
<1>12. Rep(1, s.run, u) /\ Rep(1, s.r, v)
  BY <1>10, <1>11
<1>13. PICK d \in Int : d = b[0] /\ Rep(1, Bucket(0), d)
  <2>1. 0 \in 0 .. top
    BY <1>3
  <2>2. QED
    BY <1>4, <2>1 DEF BucketsHold
<1>14. PICK e : e = Bucket(0)
  OBVIOUS
<1>15. u + d \in Int /\ Rep(1, GejAddVar(s.run, e), u + d)
  <2>1. Rep(1, e, d) /\ u + d \in Int
    BY <1>13, <1>14
  <2>2. Rep(1, GejAddVar(s.run, e), u + d)
    BY <1>12, <2>1, RepAddVar
  <2>3. QED
    BY <2>1, <2>2
<1>16. 2 * v \in Int /\ Rep(1, GejDouble(s.r), 2 * v)
  BY <1>12, Ones, RepDouble
<1>17. Rep(1, GejAddVar(GejDouble(s.r), GejAddVar(s.run, e)), 2 * v + (u + d))
  BY <1>15, <1>16, RepAddVar
<1>18. PICK f \in Int, g \in Int, h \in Int : f = b[1] /\ g = b[2] /\ h = b[3]
  BY <1>5
<1>19. 2 * v + (u + d) = 2 * z + (d + 3 * f + 5 * g + 7 * h)
  <2>1. CASE w = 1
    BY <1>2, <1>5, <1>11, <1>13, <1>18, <2>1 DEF top
  <2>2. CASE w = 2
    BY <1>2, <1>11, <1>13, <1>18, <2>2 DEF top
  <2>3. QED
    BY <1>1, <2>1, <2>2
<1>20. 2 * z = 2^(w + 1) * x
  <2>1. CASE w = 1
    <3>1. z = 2 * x /\ 2^(w + 1) * x = 4 * x
      BY <1>2, <1>7, <2>1
    <3>2. QED
      BY <3>1
  <2>2. CASE w = 2
    <3>1. z = 4 * x /\ 2^(w + 1) * x = 8 * x
      BY <1>2, <1>7, <2>2
    <3>2. QED
      BY <3>1
  <2>3. QED
    BY <1>1, <2>1, <2>2
<1>21. 2 * v + (u + d) = 2^(w + 1) * x + Column(l, E, m, m)[pos]
  BY <1>5, <1>13, <1>18, <1>19, <1>20
<1>22. QED
  BY <1>14, <1>17, <1>21

\* Every position leaves less to come, in the accumulator instead.
LEMMA PippengerSteps ==
    ASSUME Asked(terms), ng \in Scalars \cup {NoScalar},
           PippengerRight(terms, ng, digits, table, pos, r), PippengerStep
    PROVE  PippengerRight(terms, ng, digits, table, pos', r')
<1> DEFINE used == Used(All(terms, ng))
           w == BucketWindow(Len(terms))
           c == PippengerColumn(used, digits)
           size == WnafSize(w + 1)
           l == Logs(used)
           m == Len(used)
           E == [k \in 1 .. Len(used) |-> Unskewed(digits[k])]
           s == SumsFrom([run |-> GejSetInfinity, r |-> DoubleTimes(r, w)], 2^w - 1)
<1>1. /\ digits = PippengerDigits(used, w) /\ pos \in Done .. size - 1
      /\ \A k \in 1 .. m :
              Entry(1, [x |-> table[k].x, y |-> table[k].y, infinity |-> FALSE], LogOf(used[k].a))
  BY DEF PippengerRight
<1>2. PICK x \in Int : Rep(1, r, x) /\ Horner(x, c, w + 1, pos + 1, Low(c, w + 1, size))
  BY DEF PippengerRight
<1>3. /\ pos >= 0 /\ pos' = pos - 1
      /\ r' = GejAddVar(GejDouble(s.r), GejAddVar(s.run, Bucket(0)))
  BY DEF PippengerStep, SumsFrom, NextSums
<1>4. w \in {1, 2} /\ w + 1 \in 1 .. Bits /\ (w + 1) + 1 = w + 2
  BY BucketWindowSize
<1>5. All(terms, ng) \in Seq(TermRecords) /\ AllOK(All(terms, ng))
  BY AllAsked
<1>6. UsedOK(used, Len(All(terms, ng)))
  BY <1>5, UsedAsked
<1> HIDE DEF used, w
<1>7. m = Len(digits) /\ m \in Nat /\ \A k \in 1 .. m : FixedRecoded(digits[k], w + 1, used[k].n)
                                         /\ used[k].n \in Scalars /\ LogOf(used[k].a) \in Int
  <2>1. /\ Len(digits) = m /\ m \in Nat
        /\ \A k \in 1 .. m : FixedRecoded(digits[k], w + 1, used[k].n)
    BY <1>1, <1>4, <1>6, PippengerDigitsRight
  <2>2. \A k \in 1 .. m : used[k].n \in Scalars /\ LogOf(used[k].a) \in Int
    BY <1>6, <2>1 DEF UsedOK, AllOK, TermOK
  <2>3. QED
    BY <2>1, <2>2
<1>8. size \in Nat /\ size >= 1 /\ pos \in 0 .. size - 1
  BY <1>1, <1>3, <1>4, SizeShort DEF Done
<1>9. BucketsFilled(l, m, w)
  <2>1. ASSUME NEW k \in 1 .. m
        PROVE  /\ l[k] \in Int /\ digits[k].skew \in {0, 1}
               /\ Fit(digits[k].digit[pos], w + 2) /\ Entry(1, BareOf(k), l[k])
    <3>1. l[k] = LogOf(used[k].a)
      BY DEF Logs
    <3>2. FixedRecoded(digits[k], w + 1, used[k].n) /\ l[k] \in Int
      BY <1>7, <3>1
    <3>3. Entry(1, BareOf(k), l[k])
      BY <1>1, <3>1 DEF BareOf
    <3>4. Fit(digits[k].digit[pos], (w + 1) + 1) /\ digits[k].skew \in {0, 1}
      BY <1>8, <3>2 DEF FixedRecoded
    <3> HIDE DEF l, m
    <3>5. QED
      BY <1>4, <3>2, <3>3, <3>4
  <2>2. QED
    BY <1>4, <1>7, <2>1 DEF BucketsFilled
<1>10. /\ Family(l, E, m, size) /\ \A i \in 0 .. size - 1 : c[i] \in Int
  BY <1>1, <1>4, PippengerTotal DEF used
<1>11. ASSUME NEW k \in 1 .. m
       PROVE  E[k][pos] = digits[k].digit[pos] - (IF pos = 0 THEN digits[k].skew ELSE 0)
  <2>1. Unskewed(digits[k])[pos] = digits[k].digit[pos] - (IF pos = 0 THEN digits[k].skew ELSE 0)
    BY <1>4, <1>7, <1>8, UnskewedRight
  <2>2. QED
    BY <2>1
<1>12. c = Column(l, E, m, m)
  BY DEF PippengerColumn
<1> HIDE DEF s, E, l, m, c, size
<1>13. Rep(1, GejAddVar(GejDouble(s.r), GejAddVar(s.run, Bucket(0))),
           2^(w + 1) * x + Column(l, E, m, m)[pos])
  <2>1. s = SumsFrom([run |-> GejSetInfinity, r |-> DoubleTimes(r, w)], 2^w - 1)
    BY DEF s
  <2>2. QED
    BY <1>2, <1>8, <1>9, <1>10, <1>11, <2>1, PositionRight
<1>14. /\ 2^(w + 1) * x + c[pos] \in Int
       /\ Horner(2^(w + 1) * x + c[pos], c, w + 1, pos, Low(c, w + 1, size))
  <2>1. pos \in Nat /\ w + 1 \in Nat
    BY <1>4, <1>8
  <2>2. QED
    BY <1>2, <2>1, HornerStep
<1>15. pos' + 1 = pos /\ pos' \in Done .. size - 1
  BY <1>3, <1>8 DEF Done
<1>16. \E y \in Int : Rep(1, r', y) /\ Horner(y, c, w + 1, pos' + 1, Low(c, w + 1, size))
  BY <1>3, <1>12, <1>13, <1>14, <1>15
<1>17. QED
  BY <1>1, <1>15, <1>16 DEF PippengerRight, used, w, c, size, m

\* When nothing is left to come the accumulator is the product.
LEMMA PippengerEnds ==
    ASSUME Asked(terms), ng \in Scalars \cup {NoScalar}, alg = "pippenger", pos = Done,
           PippengerRight(terms, ng, digits, table, pos, r)
    PROVE  Affine(Finish) = Expected
<1> DEFINE used == Used(All(terms, ng))
           w == BucketWindow(Len(terms))
           c == PippengerColumn(used, digits)
           size == WnafSize(w + 1)
<1>1. digits = PippengerDigits(used, w)
  BY DEF PippengerRight
<1>2. PICK x \in Int : Rep(1, r, x) /\ Horner(x, c, w + 1, pos + 1, Low(c, w + 1, size))
  BY DEF PippengerRight
<1>3. w + 1 \in 1 .. Bits /\ w + 1 \in Nat
  BY BucketWindowSize
<1>4. Low(c, w + 1, size) \in Int /\ Cong(N, Low(c, w + 1, size), Wanted(ng, terms))
  BY <1>1, <1>3, PippengerTotal
<1> HIDE DEF c, size, w, used
<1>5. x = Low(c, w + 1, size)
  <2>1. pos + 1 = 0
    BY DEF Done
  <2>2. Horner(x, c, w + 1, 0, Low(c, w + 1, size))
    BY <1>2, <2>1
  <2>3. QED
    BY <1>3, <2>2, HornerEnd
<1>6. Finish = r
  BY DEF Finish
<1>7. terms \in Seq(TermRecords) /\ AllOK(terms)
  BY DEF Asked
<1>8. Cong(N, x, Wanted(ng, terms)) /\ Rep(1, Finish, x)
  BY <1>2, <1>4, <1>5, <1>6
<1>9. QED
  BY <1>7, <1>8, ProductIs

---------------------------------------------------------------------------
(* ecmult_gen: the offsets of the rows of its table.                       *)

\* The offsets of the rows, in multiples of G: u is the logarithm of Nums.
Offset(u, count) ==
    [j \in Nat |-> IF j + 1 < count THEN 2^j * u
                   ELSE IF j + 1 = count THEN -(2^j * u) + u ELSE 0]

LEMMA OffsetInt ==
    ASSUME NEW u \in Int, NEW count \in Nat, count <= Bits
    PROVE  Offset(u, count) \in [Nat -> Int]
<1>1. ASSUME NEW j \in Nat PROVE Offset(u, count)[j] \in Int
  <2>1. CASE j + 1 <= count
    <3>1. j \in 0 .. 2 * Bits + 1
      BY <2>1, BitsAssumption
    <3>2. PICK m \in Nat : m = 2^j
      BY <3>1, Power
    <3>3. m * u \in Int
      BY SMT
    <3>4. -(m * u) + u \in Int
      BY <3>3
    <3>5. QED
      BY <3>2, <3>3, <3>4 DEF Offset
  <2>2. CASE ~(j + 1 <= count)
    <3>1. ~(j + 1 < count) /\ ~(j + 1 = count)
      BY <2>2
    <3>2. QED
      BY <3>1 DEF Offset
  <2>3. QED
    BY <2>1, <2>2
<1>2. \A j \in Nat : Offset(u, count)[j] \in Int
  BY <1>1
<1>3. Offset(u, count) = [j \in Nat |-> Offset(u, count)[j]]
  BY DEF Offset
<1> QED
  BY <1>2, <1>3

\* Together they are nothing.
LEMMA OffsetsSum ==
    ASSUME NEW u \in Int, NEW count \in Nat, count <= Bits, count >= 1
    PROVE  SumTo(Offset(u, count), count) = 0
<1> DEFINE f == Offset(u, count)
           S == {n \in Nat : n + 1 <= count => SumTo(f, n) = 2^n * u - u}
<1>0. f \in [Nat -> Int] /\ Bits \in Nat
  BY OffsetInt, BitsAssumption
<1>1. 0 \in S
  <2>1. SumTo(f, 0) = 0
    BY <1>0, SumZero
  <2>2. 2^0 * u - u = 0
    BY PowersAssumption
  <2> HIDE DEF f
  <2>3. QED
    BY <2>1, <2>2
<1>2. ASSUME NEW n \in Nat, n \in S PROVE n + 1 \in S
  <2> SUFFICES ASSUME (n + 1) + 1 <= count PROVE SumTo(f, n + 1) = 2^(n + 1) * u - u
    BY <1>2
  <2>1. n + 1 < count /\ n + 1 <= count /\ n \in 0 .. 2 * Bits + 1 /\ n \in 0 .. 2 * Bits
    BY <1>0
  <2>2. PICK m \in Nat : m = 2^n /\ 2^(n + 1) = 2 * m
    BY <2>1, Power, PowersAssumption
  <2>3. SumTo(f, n) = m * u - u
    BY <1>2, <2>1, <2>2
  <2>4. f[n] = m * u
    BY <2>1, <2>2 DEF Offset
  <2> HIDE DEF f
  <2>5. SumTo(f, n + 1) = SumTo(f, n) + f[n]
    BY <1>0, SumStep
  <2>6. PICK p \in Int : p = m * u /\ (2 * m) * u = 2 * p
    <3>1. m * u \in Int /\ (2 * m) * u = 2 * (m * u)
      BY SMT
    <3>2. QED
      BY <3>1
  <2>7. SumTo(f, n + 1) = (p - u) + p
    BY <2>3, <2>4, <2>5, <2>6
  <2>8. (p - u) + p = 2 * p - u
    OBVIOUS
  <2>9. QED
    BY <2>2, <2>6, <2>7, <2>8
<1> HIDE DEF S
<1>3. \A n \in Nat : n \in S
  BY <1>1, <1>2, Induction
<1>4. PICK n \in Nat : n + 1 = count /\ n = count - 1
  OBVIOUS
<1>5. n \in 0 .. 2 * Bits + 1
  BY <1>0, <1>4
<1>6. PICK m \in Nat : m = 2^n
  BY <1>5, Power
<1>7. SumTo(f, n) = m * u - u
  BY <1>3, <1>4, <1>6 DEF S
<1>8. f[n] = -(m * u) + u
  <2>1. ~(n + 1 < count)
    BY <1>4
  <2>2. QED
    BY <1>4, <1>6, <2>1 DEF Offset
<1> HIDE DEF f
<1>9. SumTo(f, n + 1) = SumTo(f, n) + f[n]
  BY <1>0, SumStep
<1>10. PICK p \in Int : p = m * u
  <2>1. m * u \in Int
    BY SMT
  <2>2. QED
    BY <2>1
<1>11. SumTo(f, n + 1) = (p - u) + (-p + u)
  BY <1>7, <1>8, <1>9, <1>10
<1>12. QED
  BY <1>4, <1>11 DEF f

\* One row: base, base + g, base + 2g, ...
RowOf(base, g, n) ==
    LET Prec_[i \in 0 .. n - 1] ==
            IF i = 0 THEN base ELSE GejAddVar(Prec_[i - 1], g)
    IN  [i \in 1 .. n |-> Prec_[i - 1]]

\* A row counts the multiples of its power of G, from its offset on.
LEMMA RowRight ==
    ASSUME NEW base, NEW x \in Int, Rep(1, base, x), NEW g, NEW y \in Int, Rep(1, g, y),
           NEW n \in Nat, n >= 1, NEW i \in 0 .. n - 1
    PROVE  x + i * y \in Int /\ Rep(1, RowOf(base, g, n)[i + 1], x + i * y)
<1> DEFINE A == {a \in Gejs : \E z \in Int : Rep(1, a, z)}
           f == [k \in Nat |-> [a \in A |-> GejAddVar(a, g)]]
<1>1. base \in A
  BY DEF Rep
<1>2. ASSUME NEW a \in A PROVE GejAddVar(a, g) \in A
  <2>1. PICK z \in Int : Rep(1, a, z)
    OBVIOUS
  <2>2. Rep(1, GejAddVar(a, g), z + y) /\ z + y \in Int
    BY <2>1, RepAddVar
  <2>3. GejAddVar(a, g) \in Gejs
    BY <2>2 DEF Rep
  <2>4. QED
    BY <2>2, <2>3
<1>3. f \in [Nat -> [A -> A]]
  BY <1>2
<1> HIDE DEF A
<1>4. PICK h : Iterates(h, n - 1, A, base, f)
  <2> HIDE DEF f
  <2>1. n - 1 \in Nat
    OBVIOUS
  <2>2. QED
    BY <1>1, <1>3, <2>1, Recursion
<1>5. h \in [0 .. n - 1 -> A] /\ h[0] = base /\ \A k \in 0 .. (n - 1) - 1 : h[k + 1] = f[k][h[k]]
  BY <1>4 DEF Iterates
<1>6. h = [k \in 0 .. n - 1 |-> IF k = 0 THEN base ELSE GejAddVar(h[k - 1], g)]
  <2>1. ASSUME NEW k \in 0 .. n - 1, k # 0 PROVE h[k] = GejAddVar(h[k - 1], g)
    <3>1. k - 1 \in 0 .. (n - 1) - 1 /\ k - 1 \in Nat /\ (k - 1) + 1 = k /\ k - 1 \in 0 .. n - 1
      BY <2>1
    <3>2. h[k - 1] \in A
      BY <1>5, <3>1
    <3>3. h[(k - 1) + 1] = f[k - 1][h[k - 1]]
      BY <1>5, <3>1
    <3>4. QED
      BY <3>1, <3>2, <3>3
  <2>2. QED
    BY <1>5, <2>1
<1> DEFINE D == CHOOSE d : d = [k \in 0 .. n - 1 |-> IF k = 0 THEN base ELSE GejAddVar(d[k - 1], g)]
<1>7. D = [k \in 0 .. n - 1 |-> IF k = 0 THEN base ELSE GejAddVar(D[k - 1], g)]
  BY <1>6
<1>8. RowOf(base, g, n)[i + 1] = D[i]
  <2>1. RowOf(base, g, n) = [k \in 1 .. n |-> D[k - 1]]
    BY DEF RowOf
  <2> HIDE DEF D
  <2>2. i + 1 \in 1 .. n /\ (i + 1) - 1 = i
    OBVIOUS
  <2>3. QED
    BY <2>1, <2>2
<1> HIDE DEF D
<1> DEFINE S == {k \in Nat : k < n => x + k * y \in Int /\ Rep(1, D[k], x + k * y)}
<1>9. 0 \in S
  <2>1. D[0] = base /\ 0 * y = 0 /\ x + 0 = x
    BY <1>7
  <2>2. x + 0 * y = x
    BY <2>1
  <2>3. QED
    BY <2>1, <2>2
<1>10. ASSUME NEW k \in Nat, k \in S PROVE k + 1 \in S
  <2> SUFFICES ASSUME k + 1 < n
               PROVE  x + (k + 1) * y \in Int /\ Rep(1, D[k + 1], x + (k + 1) * y)
    BY <1>10
  <2>1. D[k + 1] = GejAddVar(D[k], g)
    <3>1. k + 1 \in 0 .. n - 1 /\ (k + 1) - 1 = k /\ k + 1 # 0
      OBVIOUS
    <3>2. D[k + 1] = IF k + 1 = 0 THEN base ELSE GejAddVar(D[(k + 1) - 1], g)
      BY <1>7, <3>1
    <3>3. QED
      BY <3>1, <3>2
  <2>2. x + k * y \in Int /\ Rep(1, D[k], x + k * y)
    BY <1>10
  <2>3. Rep(1, GejAddVar(D[k], g), (x + k * y) + y)
    <3>1. PICK z \in Int : z = x + k * y
      BY <2>2
    <3>2. Rep(1, GejAddVar(D[k], g), z + y)
      BY <2>2, <3>1, RepAddVar
    <3>3. QED
      BY <3>1, <3>2
  <2>4. (x + k * y) + y = x + (k + 1) * y /\ x + (k + 1) * y \in Int
    BY SMT
  <2>5. QED
    BY <2>1, <2>3, <2>4
<1> HIDE DEF S
<1>11. \A k \in Nat : k \in S
  BY <1>9, <1>10, Induction
<1>12. QED
  BY <1>8, <1>11 DEF S

---------------------------------------------------------------------------
(* ecmult_gen: the entries of its table.                                   *)

\* The multiple of G in a cell of the table.
CellOf(u, j, i) == Offset(u, GenCount)[j] + i * 2^(j * GenBits)

LEMMA GenSizes ==
    /\ GenBits \in Nat /\ GenBits >= 1 /\ GenCount \in Nat /\ GenCount >= 1
    /\ GenCount * GenBits = Bits /\ GenCount <= Bits /\ Bits \in Nat
    /\ 2^GenBits \in Nat /\ 2^GenBits >= 1
    /\ \A j \in 0 .. GenCount : j * GenBits \in 0 .. Bits /\ GenBits * j = j * GenBits
<1>1. Bits \in Nat /\ Bits > 1 /\ GenBits \in 1 .. Bits /\ Bits % GenBits = 0
  BY Two, WindowAssumption
<1>2. GenBits \in Nat /\ GenBits > 0 /\ GenBits \in 0 .. 2 * Bits + 1
  BY <1>1
<1>3. Bits = GenCount * GenBits + (Bits % GenBits) /\ GenCount \in Nat
  BY <1>1, <1>2, Division DEF GenCount
<1>4. PICK c \in Nat, w \in Nat : c = GenCount /\ w = GenBits
  BY <1>2, <1>3
<1>5. Bits = c * w /\ w >= 1
  <2>1. c * w \in Nat
    BY SMT
  <2>2. QED
    BY <1>1, <1>2, <1>3, <1>4, <2>1
<1>6. c >= 1 /\ c <= Bits
  <2>1. c # 0
    <3>1. 0 * w = 0
      BY SMT
    <3>2. QED
      BY <1>1, <1>5, <3>1
  <2>2. c <= c * w
    BY <1>5, SMT
  <2>3. QED
    BY <1>5, <2>1, <2>2
<1>7. ASSUME NEW j \in 0 .. c PROVE j * w \in 0 .. Bits /\ w * j = j * w
  <2>1. j * w <= c * w /\ j * w >= 0 /\ j * w \in Int /\ w * j = j * w
    BY SMT
  <2>2. QED
    BY <1>5, <2>1
<1>8. 2^GenBits \in Nat /\ 2^GenBits >= 1
  BY <1>2, Power
<1> HIDE DEF GenCount
<1>9. QED
  BY <1>1, <1>2, <1>4, <1>5, <1>6, <1>7, <1>8

LEMMA CellInts ==
    ASSUME NEW u \in Int, NEW j \in 0 .. GenCount - 1, NEW i \in Int
    PROVE  /\ CellOf(u, j, i) \in Int /\ 2^(j * GenBits) \in Nat /\ j * GenBits \in Nat
           /\ Offset(u, GenCount)[j] \in Int
<1>1. j * GenBits \in 0 .. Bits /\ Bits \in Nat /\ GenCount \in Nat /\ j \in Nat
  BY GenSizes
<1>2. j * GenBits \in 0 .. 2 * Bits + 1 /\ j * GenBits \in Nat
  BY <1>1
<1>3. PICK m \in Nat : m = 2^(j * GenBits)
  BY <1>2, Power
<1>4. i * m \in Int
  BY SMT
<1>5. Offset(u, GenCount)[j] \in Int
  <2>1. Offset(u, GenCount) \in [Nat -> Int]
    BY GenSizes, OffsetInt
  <2>2. QED
    BY <1>1, <2>1
<1>6. QED
  BY <1>2, <1>3, <1>4, <1>5 DEF CellOf

\* numsbase in every iteration.
LEMMA NumsBaseRight ==
    ASSUME NEW nums, NEW u \in Int, Rep(1, nums, u), NEW count \in Nat, count <= Bits,
           NEW j \in 0 .. count - 1
    PROVE  Rep(1, NumsBase(nums, count)[j + 1], Offset(u, count)[j])
<1>1. j \in Nat /\ j <= 2 * Bits + 1 /\ j \in 0 .. 2 * Bits + 1 /\ j + 1 \in 1 .. count
      /\ (j + 1) - 1 = j /\ 1 \in Field
  BY BitsAssumption, Prime
<1>2. PICK m \in Nat : m = 2^j
  BY <1>1, Power
<1>3. PICK y \in Int : y = m * u
  <2>1. m * u \in Int
    BY SMT
  <2>2. QED
    BY <2>1
<1>4. Rep(1, DoubleTimes(nums, j), y)
  BY <1>1, <1>2, <1>3, RepDoubleTimes
<1>5. CASE j + 1 < count
  <2>1. NumsBase(nums, count)[j + 1] = DoubleTimes(nums, j)
    BY <1>1, <1>5 DEF NumsBase
  <2>2. Offset(u, count)[j] = y
    BY <1>1, <1>2, <1>3, <1>5 DEF Offset
  <2>3. QED
    BY <1>4, <2>1, <2>2
<1>6. CASE j + 1 = count
  <2>1. NumsBase(nums, count)[j + 1] = GejAddVar(GejNeg(DoubleTimes(nums, j)), nums)
    <3>1. ~(j + 1 < count)
      BY <1>6
    <3>2. QED
      BY <1>1, <3>1 DEF NumsBase
  <2>2. Offset(u, count)[j] = -y + u
    <3>1. ~(j + 1 < count)
      BY <1>6
    <3>2. QED
      BY <1>1, <1>2, <1>3, <1>6, <3>1 DEF Offset
  <2>3. Rep(1, GejNeg(DoubleTimes(nums, j)), -y) /\ -y \in Int
    BY <1>4, RepNeg
  <2>4. Rep(1, GejAddVar(GejNeg(DoubleTimes(nums, j)), nums), -y + u)
    BY <2>3, RepAddVar
  <2>5. QED
    BY <2>1, <2>2, <2>4
<1>7. QED
  BY <1>5, <1>6

\* The rows one after the other.
FlatOf(nums, w, count) ==
    [k \in 1 .. count * 2^w |->
        RowOf(NumsBase(nums, count)[(k - 1) \div 2^w + 1],
              DoubleTimes(GejSetGe(ToGe(G)), w * (((k - 1) \div 2^w + 1) - 1)),
              2^w)[((k - 1) % 2^w) + 1]]

LEMMA GenTableIs ==
    ASSUME NEW nums, NEW w, NEW count
    PROVE  GenTable(nums, w, count) =
              [j \in 0 .. count - 1 |-> [i \in 0 .. 2^w - 1 |->
                  SetAll(FlatOf(nums, w, count))[j * 2^w + i + 1]]]
BY Zenon DEF GenTable, FlatOf, RowOf

LEMMA GeneratorRep == Rep(1, GejSetGe(ToGe(G)), 1)
<1>1. Stands(GejSetGe(ToGe(G)), TimesOf(1))
  BY GeneratorIsOne, GeStands, TimesOfOne
<1>2. QED
  BY <1>1, RepIsStands

LEMMA CellRight ==
    ASSUME NEW nums, NEW u \in Int, Rep(1, nums, u), NEW j \in 0 .. GenCount - 1,
           NEW i \in 0 .. 2^GenBits - 1
    PROVE  Rep(1, RowOf(NumsBase(nums, GenCount)[j + 1],
                        DoubleTimes(GejSetGe(ToGe(G)), GenBits * ((j + 1) - 1)),
                        2^GenBits)[i + 1],
               CellOf(u, j, i))
<1>1. /\ GenCount \in Nat /\ GenCount <= Bits /\ Bits \in Nat /\ 2^GenBits \in Nat
      /\ 2^GenBits >= 1 /\ GenBits \in Nat /\ 1 \in Field
  BY GenSizes, Prime
<1>2. j \in 0 .. GenCount /\ (j + 1) - 1 = j
  BY <1>1
<1>3. j * GenBits \in 0 .. Bits /\ GenBits * j = j * GenBits
  BY <1>2, GenSizes
<1>4. PICK k \in Nat : k = GenBits * ((j + 1) - 1) /\ k = j * GenBits /\ k <= 2 * Bits + 1
  BY <1>1, <1>2, <1>3
<1>5. PICK m \in Nat : m = 2^k
  <2>1. k \in 0 .. 2 * Bits + 1
    BY <1>1, <1>4
  <2>2. QED
    BY <2>1, Power
<1>6. m * 1 = m
  OBVIOUS
<1>7. Rep(1, DoubleTimes(GejSetGe(ToGe(G)), k), m)
  <2>1. Rep(1, DoubleTimes(GejSetGe(ToGe(G)), k), 2^k * 1)
    BY <1>1, <1>4, GeneratorRep, RepDoubleTimes
  <2>2. QED
    BY <1>5, <1>6, <2>1
<1>8. PICK o \in Int : o = Offset(u, GenCount)[j]
  BY CellInts
<1>9. Rep(1, NumsBase(nums, GenCount)[j + 1], o)
  BY <1>1, <1>8, NumsBaseRight
<1>10. PICK base, g : /\ base = NumsBase(nums, GenCount)[j + 1]
                      /\ g = DoubleTimes(GejSetGe(ToGe(G)), k)
  OBVIOUS
<1>11. Rep(1, RowOf(base, g, 2^GenBits)[i + 1], o + i * m)
  <2>1. Rep(1, base, o) /\ Rep(1, g, m) /\ m \in Int
    BY <1>7, <1>9, <1>10
  <2>2. PICK n \in Nat : n = 2^GenBits /\ n >= 1
    BY <1>1
  <2>3. i \in 0 .. n - 1
    BY <2>2
  <2>4. Rep(1, RowOf(base, g, n)[i + 1], o + i * m)
    BY <2>1, <2>2, <2>3, RowRight
  <2>5. QED
    BY <2>2, <2>4
<1>12. CellOf(u, j, i) = o + i * m
  BY <1>4, <1>5, <1>8 DEF CellOf
<1>13. QED
  BY <1>4, <1>10, <1>11, <1>12

\* The table of ecmult_gen_context_build.
LEMMA GenTableRight ==
    ASSUME NEW u \in Int, u = Log[Nums], NEW j \in 0 .. GenCount - 1,
           NEW i \in 0 .. 2^GenBits - 1
    PROVE  Prec[j][i] = ToGe(TimesOf(CellOf(u, j, i)))
<1> DEFINE nums == GejSetGe(ToGe(Nums))
           gs == FlatOf(nums, GenBits, GenCount)
<1>1. Rep(1, nums, u)
  <2>1. Stands(nums, TimesOf(u))
    BY InputAssumption, GeStands, TimesOfLog
  <2>2. QED
    BY <2>1, RepIsStands
<1>2. PICK m \in Nat, c \in Nat : m = 2^GenBits /\ m >= 1 /\ c = GenCount
  BY GenSizes
<1>3. c * m \in Nat
  BY SMT
<1> DEFINE row(k) == (k - 1) \div m
           col(k) == (k - 1) % m
           ps == [k \in 1 .. c * m |-> TimesOf(CellOf(u, row(k), col(k)))]
<1>4. ASSUME NEW k \in 1 .. c * m
      PROVE  row(k) \in 0 .. c - 1 /\ col(k) \in 0 .. m - 1
  <2>1. k - 1 \in Nat /\ k - 1 < c * m /\ m > 0
    BY <1>2, <1>3
  <2>2. row(k) < c /\ row(k) \in Nat /\ col(k) \in 0 .. m - 1
    BY <2>1, Division, DivisionBelow
  <2> HIDE DEF row, col
  <2>3. QED
    BY <2>2
<1> HIDE DEF nums
<1>5. gs = [k \in 1 .. c * m |->
              RowOf(NumsBase(nums, GenCount)[row(k) + 1],
                    DoubleTimes(GejSetGe(ToGe(G)), GenBits * ((row(k) + 1) - 1)),
                    2^GenBits)[col(k) + 1]]
  BY <1>2 DEF FlatOf
<1> HIDE DEF gs
<1>6. ASSUME NEW k \in 1 .. c * m
      PROVE  gs[k] \in Gejs /\ Stands(gs[k], ps[k])
  <2>1. row(k) \in 0 .. c - 1 /\ col(k) \in 0 .. m - 1
    BY <1>4
  <2>2. PICK a, b : a = row(k) /\ b = col(k)
    OBVIOUS
  <2>3. Rep(1, RowOf(NumsBase(nums, GenCount)[a + 1],
                     DoubleTimes(GejSetGe(ToGe(G)), GenBits * ((a + 1) - 1)),
                     2^GenBits)[b + 1], CellOf(u, a, b))
    <3>1. a \in 0 .. GenCount - 1 /\ b \in 0 .. 2^GenBits - 1
      BY <1>2, <2>1, <2>2
    <3>2. QED
      BY <1>1, <3>1, CellRight
  <2> HIDE DEF row, col
  <2>4. ps[k] = TimesOf(CellOf(u, a, b))
    BY <2>2
  <2>5. gs[k] = RowOf(NumsBase(nums, GenCount)[a + 1],
                     DoubleTimes(GejSetGe(ToGe(G)), GenBits * ((a + 1) - 1)),
                     2^GenBits)[b + 1]
    BY <1>5, <2>2
  <2>6. Rep(1, gs[k], CellOf(u, a, b))
    BY <2>3, <2>5
  <2>7. Stands(gs[k], TimesOf(CellOf(u, a, b))) /\ gs[k] \in Gejs
    BY <2>6, RepIsStands DEF Rep
  <2>8. QED
    BY <2>4, <2>7
<1> HIDE DEF ps
<1>7. gs \in Seq(Gejs) /\ Len(gs) = c * m
  <2>1. PICK n \in Nat : n = c * m
    BY <1>3
  <2>2. gs = [k \in 1 .. n |-> gs[k]] /\ \A k \in 1 .. n : gs[k] \in Gejs
    BY <1>5, <1>6, <2>1
  <2>3. gs \in [1 .. n -> Gejs]
    BY <2>2
  <2>4. gs \in Seq(Gejs) /\ Len(gs) = n
    BY <2>3
  <2>5. QED
    BY <2>1, <2>4
<1>8. SetAll(gs) = [k \in 1 .. Len(gs) |-> ToGe(ps[k])]
  <2>1. \A k \in 1 .. Len(gs) : Stands(gs[k], ps[k])
    BY <1>6, <1>7
  <2>2. QED
    BY <1>7, <2>1, AllSet
<1>9. PICK q \in Int : q = j * m + i + 1
  <2>1. j \in Int /\ i \in Int
    BY <1>2
  <2>2. j * m \in Int
    BY <2>1, SMT
  <2>3. QED
    BY <2>1, <2>2
<1>10. q \in 1 .. c * m /\ row(q) = j /\ col(q) = i
  <2>1. j \in 0 .. c - 1 /\ i \in 0 .. m - 1
    BY <1>2
  <2>2. j * m >= 0 /\ j * m <= (c - 1) * m /\ (c - 1) * m = c * m - m /\ j * m \in Int
    BY <1>2, <2>1, SMT
  <2>3. q - 1 = j * m + i
    BY <1>9, <2>1, <2>2
  <2>4. q \in 1 .. c * m
    BY <1>3, <1>9, <2>1, <2>2
  <2>5. (j * m + i) \div m = j /\ (j * m + i) % m = i
    <3>1. m > 0 /\ j \in Int
      BY <1>2, <2>1
    <3> HIDE DEF row, col
    <3>2. QED
      BY <2>1, <3>1, DivUnique, Zenon
  <2>6. QED
    BY <2>3, <2>4, <2>5
<1>11. Prec[j][i] = SetAll(gs)[q]
  <2>1. Prec = GenTable(nums, GenBits, GenCount)
    BY DEF Prec, nums
  <2>2. GenTable(nums, GenBits, GenCount) =
          [jj \in 0 .. GenCount - 1 |-> [ii \in 0 .. 2^GenBits - 1 |->
                  SetAll(gs)[jj * 2^GenBits + ii + 1]]]
    BY GenTableIs, Zenon DEF gs
  <2>3. QED
    BY <1>2, <1>9, <2>1, <2>2
<1>12. ps[q] = TimesOf(CellOf(u, j, i))
  <2> HIDE DEF row, col
  <2>1. QED
    BY <1>10 DEF ps
<1>13. QED
  BY <1>7, <1>8, <1>10, <1>11, <1>12

LEMMA GenEntry ==
    ASSUME NEW u \in Int, u = Log[Nums], NEW j \in 0 .. GenCount - 1,
           NEW i \in 0 .. 2^GenBits - 1
    PROVE  Entry(1, Prec[j][i], CellOf(u, j, i))
<1>1. Prec[j][i] = ToGe(TimesOf(CellOf(u, j, i)))
  BY GenTableRight
<1>2. ~Prec[j][i].infinity
  BY NumsAssumption
<1>3. TimesOf(CellOf(u, j, i)) # Infinity
  BY <1>1, <1>2 DEF ToGe
<1>4. CellOf(u, j, i) \in Int
  <2>1. i \in Int
    BY GenSizes
  <2>2. QED
    BY <2>1, CellInts
<1>5. QED
  BY <1>1, <1>3, <1>4, EntryOfPoint

---------------------------------------------------------------------------
(* ecmult_gen: from the first window to the last.                          *)

\* What ecmult_gen keeps: the accumulator stands for -b, the windows taken
\* so far and the offsets of their rows.
GenDigits(v) == [j \in 0 .. GenCount - 1 |-> GetBits(v, j * GenBits, GenBits)]

Reached(p) == IF p = Done THEN GenCount ELSE p

GenSum(v, b, p) ==
    -b + Low(GenDigits(v), GenBits, Reached(p))
       + SumTo(Offset(Log[Nums], GenCount), Reached(p))

GenRight(ts, digs, p, acc) ==
    /\ p \in {Done} \cup 0 .. GenCount - 1
    /\ \E n \in Scalars, b \in Scalars :
          /\ ts = << [n |-> n, a |-> GejSetGe(ToGe(G))] >>
          /\ digs = << GenDigits((n + b) % N) >>
          /\ Rep(1, acc, GenSum((n + b) % N, b, p))

LEMMA GenWindows ==
    ASSUME NEW v \in Nat
    PROVE  /\ WindowsOf(GenDigits(v), v, GenBits, GenCount)
           /\ \A j \in 0 .. GenCount - 1 : /\ GenDigits(v)[j] \in 0 .. 2^GenBits - 1
                                           /\ GenDigits(v)[j] \in Int
<1>1. /\ Bits \in Nat /\ GenCount * GenBits = Bits /\ GenBits \in Nat /\ GenCount \in Nat
      /\ \A j \in 0 .. GenCount : j * GenBits \in 0 .. Bits /\ GenBits * j = j * GenBits
  BY GenSizes
<1>2. ASSUME NEW j \in 0 .. GenCount - 1
      PROVE  /\ GenDigits(v)[j] = GetBits(v, j * GenBits, GenBits)
             /\ GenDigits(v)[j] \in 0 .. 2^GenBits - 1 /\ GenDigits(v)[j] \in Int
  <2>1. j * GenBits \in 0 .. Bits
    BY <1>1
  <2>2. PICK k \in Nat : k = j * GenBits /\ k + GenBits <= 2 * Bits + 1
    <3>1. GenBits <= Bits
      BY WindowAssumption
    <3>2. QED
      BY <1>1, <2>1, <3>1
  <2>3. GetBits(v, k, GenBits) \in 0 .. 2^GenBits - 1 /\ 2^GenBits \in Nat
    BY <1>1, <2>2, GetBitsSplit, GenSizes
  <2>4. GenDigits(v)[j] = GetBits(v, j * GenBits, GenBits)
    BY DEF GenDigits
  <2>5. QED
    BY <2>2, <2>3, <2>4
<1>3. GenCount * GenBits <= 2 * Bits + 1
  BY <1>1
<1>4. QED
  BY <1>2, <1>3 DEF WindowsOf

LEMMA GenSumStep ==
    ASSUME NEW v \in Nat, NEW b \in Int, NEW p \in 0 .. GenCount - 1, NEW q,
           q = IF p = GenCount - 1 THEN Done ELSE p + 1
    PROVE  LET d == GenDigits(v)[p] IN
           /\ GenSum(v, b, p) \in Int /\ CellOf(Log[Nums], p, d) \in Int
           /\ GenSum(v, b, q) = GenSum(v, b, p) + CellOf(Log[Nums], p, d)
<1> DEFINE d == GenDigits(v)
           f == Offset(Log[Nums], GenCount)
<1>1. /\ Bits \in Nat /\ GenBits \in Nat /\ GenCount \in Nat /\ GenCount <= Bits /\ p \in Nat
  BY GenSizes
<1>2. Log[Nums] \in Int
  BY InputAssumption, TimesOfLog
<1>3. f \in [Nat -> Int]
  BY <1>1, <1>2, OffsetInt
<1>4. d[p] \in Int /\ \A i \in 0 .. p : d[i] \in Int
  <2>1. \A i \in 0 .. GenCount - 1 : d[i] \in Int
    BY GenWindows
  <2>2. QED
    BY <1>1, <2>1
<1>5. p * GenBits <= 2 * Bits + 1
  <2>1. p \in 0 .. GenCount
    BY <1>1
  <2>2. p * GenBits \in 0 .. Bits
    BY <2>1, GenSizes
  <2>3. QED
    BY <1>1, <2>2
<1> HIDE DEF d, f
<1>6. /\ Low(d, GenBits, p) \in Int /\ 2^(p * GenBits) \in Nat
      /\ Low(d, GenBits, p + 1) = Low(d, GenBits, p) + d[p] * 2^(p * GenBits)
  BY <1>1, <1>4, <1>5, LowStep
<1>7. SumTo(f, p) \in Int /\ SumTo(f, p + 1) = SumTo(f, p) + f[p] /\ f[p] \in Int
  BY <1>1, <1>3, SumStep
<1>8. Reached(p) = p /\ Reached(q) = p + 1
  BY <1>1 DEF Reached, Done
<1>9. PICK t \in Int : t = d[p] * 2^(p * GenBits)
  <2>1. d[p] * 2^(p * GenBits) \in Int
    BY <1>4, <1>6, SMT
  <2>2. QED
    BY <2>1
<1>10. CellOf(Log[Nums], p, d[p]) = f[p] + t
  BY <1>9 DEF CellOf, f
<1>11. GenSum(v, b, p) = -b + Low(d, GenBits, p) + SumTo(f, p)
  BY <1>8 DEF GenSum, d, f
<1>12. GenSum(v, b, q) = -b + Low(d, GenBits, p + 1) + SumTo(f, p + 1)
  BY <1>8 DEF GenSum, d, f
<1>13. GenSum(v, b, q) = -b + (Low(d, GenBits, p) + t) + (SumTo(f, p) + f[p])
  BY <1>6, <1>7, <1>9, <1>12
<1>14. /\ GenSum(v, b, p) \in Int /\ CellOf(Log[Nums], p, d[p]) \in Int
       /\ GenSum(v, b, q) = GenSum(v, b, p) + CellOf(Log[Nums], p, d[p])
  BY <1>6, <1>7, <1>10, <1>11, <1>13
<1>15. QED
  BY <1>14 DEF d

\* ecmult_gen starts with -b.
LEMMA GenStarts ==
    ASSUME NEW n \in Scalars, NEW b \in Scalars, NEW z \in Field, z # 0,
           NEW p, p = 0
    PROVE  GenRight(<< [n |-> n, a |-> GejSetGe(ToGe(G))] >>, << GenDigits((n + b) % N) >>,
                    p, ToGej(Times[ScalarNeg(b)], z))
<1>1. b \in Int /\ -b \in Int /\ GenCount >= 1 /\ GenCount \in Nat /\ GenCount <= Bits
      /\ 0 \in 0 .. GenCount - 1 /\ GenBits \in Nat
  BY Order, GenSizes
<1>2. Times[ScalarNeg(b)] = TimesOf(-b) /\ TimesOf(-b) \in Points
  BY <1>1, TimesOfPoint DEF TimesOf, ScalarNeg
<1>3. Rep(1, ToGej(Times[ScalarNeg(b)], z), -b)
  <2>1. Stands(ToGej(TimesOf(-b), z), TimesOf(-b))
    BY <1>2, OperandStands
  <2>2. QED
    BY <1>2, <2>1, RepIsStands
<1> DEFINE v == (n + b) % N
<1>4. Reached(0) = 0
  BY DEF Reached, Done
<1>5. Log[Nums] \in Int
  BY InputAssumption, TimesOfLog
<1>6. SumTo(Offset(Log[Nums], GenCount), 0) = 0 /\ Low(GenDigits(v), GenBits, 0) = 0
  <2>1. Offset(Log[Nums], GenCount) \in [Nat -> Int]
    BY <1>1, <1>5, OffsetInt
  <2>2. SumTo(Offset(Log[Nums], GenCount), 0) = 0
    BY <2>1, SumZero
  <2>3. Low(GenDigits(v), GenBits, 0) = 0
    BY <1>1, LowZero
  <2>4. QED
    BY <2>2, <2>3
<1>7. GenSum(v, b, 0) = -b
  <2>1. GenSum(v, b, 0) = -b + 0 + 0
    BY <1>4, <1>6 DEF GenSum
  <2>2. QED
    BY <1>1, <2>1
<1> HIDE DEF v
<1>8. Rep(1, ToGej(Times[ScalarNeg(b)], z), GenSum(v, b, p))
  BY <1>3, <1>7
<1>9. QED
  BY <1>1, <1>8 DEF GenRight, v

\* Every window adds its entry: the multiple and the row's offset.
LEMMA GenSteps ==
    ASSUME GenRight(terms, digits, pos, r), GenStep
    PROVE  GenRight(terms, digits, pos', r')
<1>1. PICK n \in Scalars, b \in Scalars :
          /\ terms = << [n |-> n, a |-> GejSetGe(ToGe(G))] >>
          /\ digits = << GenDigits((n + b) % N) >>
          /\ Rep(1, r, GenSum((n + b) % N, b, pos))
  BY DEF GenRight
<1>2. pos \in 0 .. GenCount - 1
  BY GenSizes DEF GenRight, GenStep, Done
<1>3. PICK v \in Nat : v = (n + b) % N
  BY Order
<1> DEFINE d == GenDigits(v)[pos]
           q == IF pos = GenCount - 1 THEN Done ELSE pos + 1
<1>4. d \in 0 .. 2^GenBits - 1 /\ b \in Int
  BY <1>2, GenWindows, Order
<1>5. /\ GenSum(v, b, pos) \in Int /\ CellOf(Log[Nums], pos, d) \in Int
      /\ GenSum(v, b, q) = GenSum(v, b, pos) + CellOf(Log[Nums], pos, d)
  BY <1>2, <1>4, GenSumStep
<1>6. Entry(1, Prec[pos][d], CellOf(Log[Nums], pos, d))
  <2>1. Log[Nums] \in Int
    BY InputAssumption, TimesOfLog
  <2> HIDE DEF d
  <2>2. QED
    BY <1>2, <1>4, <2>1, GenEntry
<1>7. r' = GejAddGe(r, Prec[pos][d]) /\ pos' = q
  <2>1. digits[1] = GenDigits(v)
    BY <1>1, <1>3
  <2>2. r' = GejAddGe(r, Prec[pos][digits[1][pos]]) /\ pos' = q
    BY DEF GenStep
  <2>3. QED
    BY <2>1, <2>2
<1>8. q \in {Done} \cup 0 .. GenCount - 1
  BY <1>2, GenSizes
<1> HIDE DEF d, q
<1>9. Rep(1, r', GenSum(v, b, q))
  <2>1. PICK e : e = Prec[pos][d]
    OBVIOUS
  <2>2. PICK x \in Int, y \in Int : x = GenSum(v, b, pos) /\ y = CellOf(Log[Nums], pos, d)
    BY <1>5
  <2>3. Rep(1, r, x) /\ Entry(1, e, y) /\ 1 \in Field
    BY <1>1, <1>3, <1>6, <2>1, <2>2, Ones
  <2>4. Rep(1, GejAddGe(r, e), x + y)
    BY <2>3, RepAddGe
  <2>5. QED
    BY <1>5, <1>7, <2>1, <2>2, <2>4
<1>10. QED
  BY <1>1, <1>3, <1>7, <1>8, <1>9 DEF GenRight

\* After the last window the offsets have cancelled out, and so has b.
LEMMA GenEnds ==
    ASSUME alg = "gen", pos = Done, ng = NoScalar, GenRight(terms, digits, pos, r)
    PROVE  Affine(Finish) = Expected
<1>1. PICK n \in Scalars, b \in Scalars :
          /\ terms = << [n |-> n, a |-> GejSetGe(ToGe(G))] >>
          /\ Rep(1, r, GenSum((n + b) % N, b, pos))
  BY DEF GenRight
<1>2. PICK v \in Scalars : v = (n + b) % N
  BY Order
<1>3. n \in Int /\ b \in Int /\ v \in Nat /\ N \in Nat /\ v < N
  BY Order
<1>4. GenCount \in Nat /\ GenCount >= 1 /\ GenCount <= Bits /\ GenBits \in Nat
      /\ GenCount * GenBits = Bits /\ Bits \in Nat
  BY GenSizes
<1>5. GenSum(v, b, pos) = -b + v
  <2>1. SumTo(Offset(Log[Nums], GenCount), GenCount) = 0
    <3>1. Log[Nums] \in Int
      BY InputAssumption, TimesOfLog
    <3>2. QED
      BY <1>4, <3>1, OffsetsSum
  <2>2. v \div 2^(GenCount * GenBits) = 0
    <3>1. v < 2^Bits /\ Bits \in 0 .. 2 * Bits + 1
      <4>1. 2^Bits \in Nat
        BY <1>4, Power
      <4>2. QED
        BY <1>3, <1>4, <4>1, BitsAssumption
    <3>2. v \div 2^Bits = 0
      BY <1>3, <3>1, NothingAbove
    <3>3. QED
      BY <1>4, <3>2
  <2>3. /\ v = Low(GenDigits(v), GenBits, GenCount)
                 + (v \div 2^(GenCount * GenBits)) * 2^(GenCount * GenBits)
        /\ Low(GenDigits(v), GenBits, GenCount) \in Int
        /\ 2^(GenCount * GenBits) \in Nat
    BY <1>3, <1>4, GenWindows, WindowsSum
  <2>4. v = Low(GenDigits(v), GenBits, GenCount)
    <3>1. PICK m \in Nat : m = 2^(GenCount * GenBits)
      BY <2>3
    <3>2. v = Low(GenDigits(v), GenBits, GenCount) + 0 * m
      BY <2>2, <2>3, <3>1
    <3>3. 0 * m = 0
      BY SMT
    <3>4. QED
      BY <2>3, <3>2, <3>3
  <2>5. Reached(pos) = GenCount
    BY DEF Reached
  <2>6. GenSum(v, b, pos) = -b + v + 0
    BY <2>1, <2>4, <2>5 DEF GenSum
  <2>7. QED
    BY <1>3, <2>6
<1>6. Finish = r
  BY DEF Finish
<1>7. Rep(1, Finish, -b + v) /\ -b + v \in Int
  BY <1>1, <1>2, <1>3, <1>5, <1>6
<1>8. /\ terms \in Seq(TermRecords) /\ AllOK(terms) /\ Len(terms) = 1
      /\ terms[1].n = n /\ LogOf(terms[1].a) = 1
  <2>1. PICK t : t = [n |-> n, a |-> GejSetGe(ToGe(G))]
    OBVIOUS
  <2>2. TermOK(t) /\ t \in TermRecords /\ LogOf(t.a) = 1 /\ t.n = n
    BY <2>1, GeneratorTerm
  <2>3. terms = <<t>>
    BY <1>1, <2>1
  <2>4. Asked(<<t>>) /\ Len(<<t>>) = 1
    BY <2>2, AskedOne
  <2>5. <<t>>[1] = t
    OBVIOUS
  <2>6. QED
    BY <2>2, <2>3, <2>4, <2>5 DEF Asked
<1>9. Wanted(ng, terms) = n
  <2>1. Shares(terms) \in [Nat -> Int]
    BY <1>8, SharesInt
  <2>2. Shares(terms)[0] = n
    <3>1. Shares(terms)[0] = terms[0 + 1].n * LogOf(terms[0 + 1].a)
      BY <1>8 DEF Shares
    <3>2. 0 + 1 = 1
      OBVIOUS
    <3>3. Shares(terms)[0] = terms[1].n * LogOf(terms[1].a)
      BY <3>1, <3>2, Zenon
    <3>4. n * 1 = n
      BY <1>3
    <3>5. QED
      BY <1>8, <3>3, <3>4, Zenon
  <2>3. SumTo(Shares(terms), 0) = 0 /\ SumTo(Shares(terms), 0 + 1) = SumTo(Shares(terms), 0) + Shares(terms)[0]
    BY <2>1, SumZero, SumStep
  <2>4. 0 + 1 = 1
    OBVIOUS
  <2>5. SumTo(Shares(terms), 1) = n
    BY <1>3, <2>2, <2>3, <2>4
  <2>6. Given(ng) = 0
    BY DEF Given
  <2>7. Wanted(ng, terms) = 0 + n
    BY <1>8, <2>5, <2>6 DEF Wanted
  <2>8. QED
    BY <1>3, <2>7
<1>10. Cong(N, -b + v, n)
  <2>1. n + b \in Int /\ Cong(N, v, n + b)
    <3>1. n + b \in Int
      BY <1>3
    <3>2. Cong(N, (n + b) % N, n + b)
      BY <1>3, <3>1, Order, CongMod
    <3>3. QED
      BY <1>2, <3>1, <3>2
  <2>2. PICK k \in Int : v = (n + b) + k * N
    BY <2>1 DEF Cong
  <2>3. PICK m \in Int : m = k * N
    <3>1. k * N \in Int
      BY <1>3, SMT
    <3>2. QED
      BY <3>1
  <2>4. -b + v = n + m
    BY <1>3, <2>2, <2>3
  <2>5. QED
    BY <2>3, <2>4 DEF Cong
<1>11. ng \in Scalars \cup {NoScalar}
  OBVIOUS
<1>12. QED
  BY <1>7, <1>8, <1>9, <1>10, <1>11, ProductIs

---------------------------------------------------------------------------
(* Looking digits up.                                                      *)

\* The odd multiples of the wanted window are fewer than the order.
LEMMA TableSizes ==
    ASSUME NEW w \in 3 .. Bits
    PROVE  /\ TableSize(w) \in Nat /\ TableSize(w) >= 1 /\ 2^(w - 1) = 2 * TableSize(w)
           /\ 2 * TableSize(w) - 1 < N
<1>0. Bits \in Nat /\ w \in Nat /\ N \in Nat
  BY BitsAssumption, Order
<1>1. 2^(w - 1) = 2 * 2^((w - 1) - 1) /\ 2^((w - 1) - 1) \in Nat /\ 2^((w - 1) - 1) >= 1
  <2>1. w - 1 \in 1 .. 2 * Bits + 1
    BY <1>0
  <2>2. QED
    BY <2>1, PowerEven
<1>2. (w - 1) - 1 = w - 2
  BY <1>0
<1>3. PICK n \in Nat : n = 2^(w - 2) /\ n >= 1 /\ 2^(w - 1) = 2 * n
  BY <1>1, <1>2
<1>4. 2^(w - 1) <= 2^(Bits - 1)
  <2>1. w - 1 \in Nat /\ Bits - 1 \in Nat /\ w - 1 <= Bits - 1 /\ Bits - 1 <= 2 * Bits + 1
    BY <1>0
  <2>2. QED
    BY <2>1, PowerMonotone
<1>5. 2^Bits = 2 * 2^(Bits - 1) /\ 2^(Bits - 1) \in Nat
  <2>1. Bits \in 1 .. 2 * Bits + 1
    BY <1>0
  <2>2. QED
    BY <2>1, PowerEven
<1>6. PICK m \in Nat, h \in Nat : m = 2^Bits /\ h = 2^(Bits - 1)
  BY <1>5
<1>7. m = 2 * h /\ m < 2 * N /\ 2 * n <= h
  BY <1>3, <1>4, <1>5, <1>6, BitsAssumption
<1>8. 2 * n - 1 < N
  BY <1>0, <1>7
<1>9. QED
  BY <1>3, <1>8 DEF TableSize

\* Where a digit is found.
LEMMA LookupIndex ==
    ASSUME NEW w \in 3 .. Bits, NEW d, Fit(d, w), d # 0
    PROVE  /\ d \in Int
           /\ d > 0 => (d - 1) \div 2 + 1 \in 1 .. TableSize(w) /\ 2 * ((d - 1) \div 2 + 1) - 1 = d
           /\ ~(d > 0) => /\ (-d - 1) \div 2 + 1 \in 1 .. TableSize(w)
                          /\ 2 * ((-d - 1) \div 2 + 1) - 1 = -d
<1>1. PICK n \in Nat : n = TableSize(w) /\ n >= 1 /\ 2^(w - 1) = 2 * n
  BY TableSizes
<1>2. d \in Int /\ d % 2 = 1 /\ d < 2 * n /\ -d < 2 * n
  BY <1>1 DEF Fit
<1>3. CASE d > 0
  <2>1. PICK k \in Nat : d = 2 * k + 1
    BY <1>2, <1>3
  <2>2. (d - 1) \div 2 = k
    BY <2>1
  <2>3. QED
    BY <1>1, <1>2, <1>3, <2>1, <2>2
<1>4. CASE ~(d > 0)
  <2>1. PICK k \in Nat : -d = 2 * k + 1
    <3>1. PICK q \in Int : d = 2 * q + 1
      BY <1>2
    <3>2. -q - 1 \in Nat /\ -d = 2 * (-q - 1) + 1
      BY <1>4, <3>1
    <3>3. QED
      BY <3>2
  <2>2. (-d - 1) \div 2 = k
    BY <2>1
  <2>3. QED
    BY <1>1, <1>2, <1>4, <2>1, <2>2
<1>5. QED
  BY <1>3, <1>4

\* A table of the odd multiples of l.
Serves(tab, Z, l, n) == \A i \in 1 .. n : Entry(Z, tab[i], Odds(l, n)[i])

LEMMA OddsAt ==
    ASSUME NEW l, NEW n, NEW i \in 1 .. n
    PROVE  Odds(l, n)[i] = (2 * i - 1) * l
BY DEF Odds

\* An odd digit finds its multiple, a negative one the negated one.
LEMMA TableGetRight ==
    ASSUME NEW Z \in Field, NEW tab, NEW l \in Int, NEW w \in 3 .. Bits,
           Serves(tab, Z, l, TableSize(w)), NEW d, Fit(d, w), d # 0
    PROVE  d * l \in Int /\ Entry(Z, TableGet(tab, d), d * l)
<1>0. PICK n \in Nat : n = TableSize(w)
  BY TableSizes
<1>1. d \in Int
  BY LookupIndex
<1>2. CASE d > 0
  <2>1. PICK i \in 1 .. n : i = (d - 1) \div 2 + 1 /\ 2 * i - 1 = d
    BY <1>0, <1>2, LookupIndex
  <2>2. Entry(Z, tab[i], Odds(l, n)[i])
    BY <1>0 DEF Serves
  <2>3. Odds(l, n)[i] = (2 * i - 1) * l
    BY OddsAt
  <2>4. TableGet(tab, d) = tab[i]
    BY <1>2, <2>1 DEF TableGet
  <2>5. d * l \in Int
    BY <1>1, SMT
  <2>6. QED
    BY <2>1, <2>2, <2>3, <2>4, <2>5
<1>3. CASE ~(d > 0)
  <2>1. PICK i \in 1 .. n : i = (-d - 1) \div 2 + 1 /\ 2 * i - 1 = -d
    BY <1>0, <1>3, LookupIndex
  <2>2. Entry(Z, tab[i], Odds(l, n)[i])
    BY <1>0 DEF Serves
  <2>3. Odds(l, n)[i] = (2 * i - 1) * l
    BY OddsAt
  <2>4. TableGet(tab, d) = GeNeg(tab[i])
    BY <1>3, <2>1 DEF TableGet
  <2>5. d * l \in Int /\ (-d) * l \in Int /\ -((-d) * l) = d * l
    BY <1>1, SMT
  <2>6. Entry(Z, tab[i], (-d) * l)
    BY <2>1, <2>2, <2>3
  <2>7. PICK x \in Int : x = (-d) * l
    BY <2>5
  <2>8. Entry(Z, GeNeg(tab[i]), -x)
    BY <2>6, <2>7, EntryNeg
  <2>9. QED
    BY <2>4, <2>5, <2>7, <2>8
<1>4. QED
  BY <1>2, <1>3

\* Affine points are negated in their y.
LEMMA ToGeNeg ==
    ASSUME NEW x \in Int, TimesOf(x) # Infinity
    PROVE  GeNeg(ToGe(TimesOf(x))) = ToGe(TimesOf(-x)) /\ TimesOf(-x) # Infinity
<1>1. PICK p : p = TimesOf(x)
  OBVIOUS
<1>2. PointNeg(p) = TimesOf(-x) /\ p # Infinity
  BY <1>1, TimesOfNeg
<1>3. PointNeg(p) = <<p[1], F(-p[2])>>
  BY <1>2 DEF PointNeg, F
<1>4. PointNeg(p) # Infinity
  BY <1>3 DEF Infinity
<1>5. ToGe(p) = Ge(p[1], p[2])
  BY <1>2 DEF ToGe
<1>6. ToGe(PointNeg(p)) = Ge(p[1], F(-p[2]))
  BY <1>3, <1>4 DEF ToGe
<1>7. GeNeg(Ge(p[1], p[2])) = Ge(p[1], F(-p[2]))
  BY DEF GeNeg, Ge
<1>8. QED
  BY <1>1, <1>2, <1>4, <1>5, <1>6, <1>7

\* ctx->pre_g: the odd multiples of G.
LEMMA PreGRight ==
    ASSUME NEW d, Fit(d, WINDOW_G), d # 0
    PROVE  d \in Int /\ TableGet(PreG, d) = ToGe(TimesOf(d)) /\ TimesOf(d) # Infinity
<1>0. WINDOW_G \in 3 .. Bits
  BY WindowAssumption
<1>1. PICK n \in Nat : n = TableSize(WINDOW_G) /\ n >= 1 /\ 2 * n - 1 < N
  BY <1>0, TableSizes
<1>2. PICK g : g = GejSetGe(ToGe(G))
  OBVIOUS
<1>3. Rep(1, g, 1) /\ 1 \in Int
  BY <1>2, GeneratorRep
<1>4. ~g.infinity
  <2>1. g.infinity = FALSE
    BY <1>2, GeneratorIsOne DEF GejSetGe, ToGe, Ge
  <2>2. QED
    BY <2>1
<1>5. PICK t : t = OddMultiples(n, g)
  OBVIOUS
<1>6. PICK z : Chain(t, z, Odds(1, n), n)
  BY <1>1, <1>3, <1>4, <1>5, OddChain
<1>7. PreG = SetTable(t)
  BY <1>1, <1>2, <1>5 DEF PreG
<1>8. ASSUME NEW i \in 1 .. n
      PROVE  PreG[i] = ToGe(TimesOf(2 * i - 1)) /\ TimesOf(2 * i - 1) # Infinity
  <2>1. SetTable(t)[i] = ToGe(TimesOf(Odds(1, n)[i])) /\ TimesOf(Odds(1, n)[i]) # Infinity
    BY <1>1, <1>6, SetTableRight
  <2>2. Odds(1, n)[i] = (2 * i - 1) * 1
    BY OddsAt
  <2>3. (2 * i - 1) * 1 = 2 * i - 1
    OBVIOUS
  <2>4. QED
    BY <1>7, <2>1, <2>2, <2>3
<1>9. d \in Int
  BY <1>0, LookupIndex
<1>10. CASE d > 0
  <2>1. PICK i \in 1 .. n : i = (d - 1) \div 2 + 1 /\ 2 * i - 1 = d
    BY <1>0, <1>1, <1>10, LookupIndex
  <2>2. TableGet(PreG, d) = PreG[i]
    BY <1>10, <2>1 DEF TableGet
  <2>3. QED
    BY <1>8, <1>9, <2>1, <2>2
<1>11. CASE ~(d > 0)
  <2>1. PICK i \in 1 .. n : i = (-d - 1) \div 2 + 1 /\ 2 * i - 1 = -d
    BY <1>0, <1>1, <1>11, LookupIndex
  <2>2. TableGet(PreG, d) = GeNeg(PreG[i])
    BY <1>11, <2>1 DEF TableGet
  <2>3. PICK x \in Int : x = -d /\ -x = d
    BY <1>9
  <2>4. PreG[i] = ToGe(TimesOf(x)) /\ TimesOf(x) # Infinity
    BY <1>8, <2>1, <2>3
  <2>5. GeNeg(ToGe(TimesOf(x))) = ToGe(TimesOf(-x)) /\ TimesOf(-x) # Infinity
    BY <2>4, ToGeNeg
  <2>6. QED
    BY <1>9, <2>2, <2>3, <2>4, <2>5
<1>12. QED
  BY <1>10, <1>11

---------------------------------------------------------------------------
(* ecmult_const: from the top digit to the skew.                           *)

LEMMA OneServes ==
    ASSUME NEW a, NEW l \in Int, Rep(1, a, l), ~a.infinity, NEW w \in 3 .. Bits,
           NEW t, t = OddMultiples(TableSize(w), a)
    PROVE  Last(t.prej).z \in Field /\ Serves(Globalz(t), Last(t.prej).z, l, TableSize(w))
<1>1. PICK n \in Nat : n = TableSize(w) /\ n >= 1 /\ 2 * n - 1 < N
  BY TableSizes
<1>2. PICK z : Chain(t, z, Odds(l, n), n)
  BY <1>1, OddChain
<1>3. /\ Len(t.prej) = n /\ t.prej[n].z = z[n] /\ z[n] \in Field
  <2>1. n \in 1 .. n
    BY <1>1
  <2>2. QED
    BY <1>1, <1>2, <2>1, ChainEntries
<1>4. \A i \in 1 .. n : Entry(z[n], Globalz(t)[i], Odds(l, n)[i])
  BY <1>1, <1>2, GlobalzRight
<1>5. Last(t.prej).z = z[n]
  BY <1>3 DEF Last
<1>6. QED
  BY <1>1, <1>3, <1>4, <1>5 DEF Serves

\* A finite point twice, normalized.
LEMMA NormalizedEntry ==
    ASSUME NEW b, NEW x \in Int, Rep(1, b, x), ~b.infinity
    PROVE  LET c == GejNormalize(b)
           IN  Entry(1, Ge(c.x, F(-c.y)), -x)
<1> DEFINE s == FieldInverse[b.z]
           g == GeSetGejZinv(b, s)
           c == GejNormalize(b)
<1>1. b \in Gejs /\ Stands(b, TimesOf(x)) /\ b.z \in Field /\ b.z # 0
  BY RepIsStands DEF Rep, Stands, Gejs
<1>2. F(b.z * 1) = b.z
  <2>1. PICK k \in Field : k = b.z /\ k \in Int
    BY <1>1, Prime
  <2>2. k * 1 = k
    BY <2>1
  <2>3. F(k) = k
    BY <2>1, FieldFixed
  <2>4. QED
    BY <2>1, <2>2, <2>3
<1>3. Entry(b.z, b, x)
  <2>1. Entry(F(b.z * 1), b, x)
    BY Ones, EntryOfRep
  <2>2. QED
    BY <1>2, <2>1
<1>4. s \in Field /\ Is(b.z * s, 1)
  <2>1. PICK k \in Field : k = b.z /\ k # 0 /\ k \in Int
    BY <1>1, Prime
  <2>2. FieldInverse[k] \in Field /\ Cong(P, k * FieldInverse[k], 1)
    BY <2>1, FieldInverses
  <2>3. PICK m \in Field : m = FieldInverse[k] /\ m \in Int
    BY <2>2, Prime
  <2>4. k * m \in Int
    BY <2>1, <2>3, SMT
  <2>5. Is(k * m, 1)
    BY <2>2, <2>3, <2>4 DEF Is
  <2>6. QED
    BY <2>1, <2>3, <2>5
<1>5. g = ToGe(TimesOf(x)) /\ TimesOf(x) # Infinity
  <2> HIDE DEF s
  <2>1. QED
    BY <1>1, <1>3, <1>4, EntryAffine
<1>6. c = GejSetGe(g)
  BY DEF GejNormalize
<1>7. Ge(c.x, F(-c.y)) = GeNeg(g)
  <2> HIDE DEF c
  <2>1. g.infinity = FALSE
    BY <1>5 DEF ToGe, Ge
  <2> HIDE DEF g
  <2>2. QED
    BY <1>6, <2>1 DEF GejSetGe, Ge, GeNeg
<1>8. GeNeg(ToGe(TimesOf(x))) = ToGe(TimesOf(-x)) /\ TimesOf(-x) # Infinity
  BY <1>5, ToGeNeg
<1>9. Entry(1, ToGe(TimesOf(-x)), -x)
  <2>1. -x \in Int
    OBVIOUS
  <2>2. QED
    BY <1>8, <2>1, EntryOfPoint
<1> HIDE DEF g
<1>10. QED
  BY <1>5, <1>7, <1>8, <1>9

LEMMA FlatNeg ==
    ASSUME NEW a, NEW l \in Int, Rep(1, a, l), ~a.infinity, a.z = 1
    PROVE  Entry(1, Ge(a.x, F(-a.y)), -l)
<1>1. a \in Gejs /\ Stands(a, TimesOf(l)) /\ a.infinity = FALSE
  BY RepIsStands DEF Rep, Gejs
<1>2. a = Gej(a.x, a.y, 1) /\ a.x \in Field /\ a.y \in Field
  BY <1>1 DEF Gej, Gejs
<1>3. PICK e : e = Ge(a.x, a.y)
  OBVIOUS
<1>4. e.x = a.x /\ e.y = a.y /\ e.infinity = FALSE
  BY <1>3 DEF Ge
<1>5. Entry(1, e, l)
  BY <1>1, <1>2, <1>4 DEF Entry
<1>6. Entry(1, GeNeg(e), -l)
  BY <1>5, Ones, EntryNeg
<1>7. GeNeg(e) = Ge(a.x, F(-a.y))
  BY <1>4 DEF GeNeg, Ge
<1>8. QED
  BY <1>6, <1>7

\* The share of a single term.
LEMMA WantedOne ==
    ASSUME NEW t, t \in TermRecords, TermOK(t)
    PROVE  Wanted(NoScalar, <<t>>) = t.n * LogOf(t.a) /\ t.n * LogOf(t.a) \in Int
<1>0. PICK ts : ts = <<t>>
  OBVIOUS
<1>1. ts \in Seq(TermRecords) /\ AllOK(ts) /\ Len(ts) = 1 /\ ts[1] = t
  <2>1. Asked(<<t>>) /\ Len(<<t>>) = 1
    BY AskedOne
  <2>2. <<t>>[1] = t
    OBVIOUS
  <2>3. QED
    BY <1>0, <2>1, <2>2 DEF Asked
<1>2. PICK n \in Int, l \in Int : n = t.n /\ l = LogOf(t.a)
  BY Order DEF TermOK
<1>3. PICK m \in Int : m = n * l
  <2>1. n * l \in Int
    BY <1>2, SMT
  <2>2. QED
    BY <2>1
<1>4. Shares(ts) \in [Nat -> Int]
  BY <1>1, SharesInt
<1>5. Shares(ts)[0] = m
  <2>1. Shares(ts)[0] = ts[0 + 1].n * LogOf(ts[0 + 1].a)
    BY <1>1 DEF Shares
  <2>2. 0 + 1 = 1
    OBVIOUS
  <2>3. Shares(ts)[0] = ts[1].n * LogOf(ts[1].a)
    BY <2>1, <2>2, Zenon
  <2>4. QED
    BY <1>1, <1>2, <1>3, <2>3, Zenon
<1>6. SumTo(Shares(ts), 0) = 0 /\ SumTo(Shares(ts), 0 + 1) = SumTo(Shares(ts), 0) + Shares(ts)[0]
  BY <1>4, SumZero, SumStep
<1>7. SumTo(Shares(ts), 1) = m
  BY <1>3, <1>5, <1>6
<1>8. Wanted(NoScalar, ts) = m
  <2>1. Given(NoScalar) = 0
    BY DEF Given
  <2>2. Wanted(NoScalar, ts) = 0 + m
    BY <1>1, <1>7, <2>1 DEF Wanted
  <2>3. QED
    BY <1>3, <2>2
<1>9. QED
  BY <1>0, <1>2, <1>3, <1>8

ConstRight(ts, digs, tab, Z, p, acc) ==
    LET w == WINDOW_A - 1
        size == WnafSize(w)
    IN  \E n \in Scalars \ {0}, a \in Gejs :
          LET l == LogOf(a)
              c == WnafConst(n, w).digit
          IN  /\ ts = << [n |-> n, a |-> a] >> /\ digs = << c >>
              /\ ~a.infinity /\ a.z = 1 /\ l \in Int /\ Rep(1, a, l)
              /\ Z \in Field /\ Serves(tab, Z, l, TableSize(WINDOW_A))
              /\ p \in Done .. size - 1
              /\ \E x \in Int : Rep(Z, acc, x * l) /\ Horner(x, c, w, p + 1, Low(c, w, size + 1))

\* ecmult_const starts with the top digit, which is not zero.
LEMMA ConstStarts ==
    ASSUME NEW n \in Scalars \ {0}, NEW t \in Terms, t.p # Infinity,
           NEW a, a = ToGej(t.p, 1), NEW m, m = OddMultiples(TableSize(WINDOW_A), a),
           NEW c, c = WnafConst(n, WINDOW_A - 1).digit,
           NEW top, top = WnafSize(WINDOW_A - 1), NEW p, p = top - 1
    PROVE  ConstRight(<< [n |-> n, a |-> a] >>, << c >>, Globalz(m), Last(m.prej).z, p,
                      GejSetGe(TableGet(Globalz(m), c[top])))
<1> DEFINE w == WINDOW_A - 1
           l == LogOf(a)
           Z == Last(m.prej).z
<1>1. a \in Gejs /\ ~a.infinity /\ a.z = 1 /\ l \in Int /\ Rep(1, a, l)
  <2>1. t.p \in Points /\ 1 \in Field /\ 1 # 0
    BY InputAssumption, Ones
  <2>2. Stands(a, t.p) /\ (a.infinity <=> t.p = Infinity) /\ a.z = 1
    BY <2>1, OperandStands
  <2>3. TermOK([n |-> n, a |-> a])
    BY <2>1, <2>2, StandsTerm
  <2>4. QED
    BY <2>2, <2>3 DEF TermOK, Stands
<1>2. WINDOW_A \in 3 .. Bits
  BY WindowAssumption
<1> HIDE DEF l
<1>3. Z \in Field /\ Serves(Globalz(m), Z, l, TableSize(WINDOW_A))
  BY <1>1, <1>2, OneServes
<1>4. PICK skew : ConstRecoded(c, skew, w, n)
  BY ConstDigitsRight
<1> HIDE DEF Z
<1>5. /\ top \in Nat /\ top >= 1 /\ Short(w, top + 1) /\ c[top] # 0 /\ Fit(c[top], w + 1)
      /\ \A i \in 0 .. top : c[i] \in Int
  BY <1>4 DEF ConstRecoded
<1>6. w + 1 = WINDOW_A /\ w \in Nat
  BY <1>2, BitsAssumption
<1>7. c[top] * l \in Int /\ Entry(Z, TableGet(Globalz(m), c[top]), c[top] * l)
  BY <1>1, <1>2, <1>3, <1>5, <1>6, TableGetRight
<1>8. Rep(Z, GejSetGe(TableGet(Globalz(m), c[top])), c[top] * l)
  BY <1>3, <1>7, RepOfEntry
<1>9. top * w <= 2 * Bits + 1
  BY <1>5 DEF Short
<1>10. /\ Low(c, w, top) \in Int /\ 2^(top * w) \in Nat
       /\ Low(c, w, top + 1) = Low(c, w, top) + c[top] * 2^(top * w)
  BY <1>5, <1>6, <1>9, LowStep
<1>11. p + 1 = top /\ p \in Done .. top - 1 /\ c[top] \in Int
  BY <1>5 DEF Done
<1>12. Horner(c[top], c, w, p + 1, Low(c, w, top + 1))
  <2>1. PICK d \in Int, k \in Nat : d = c[top] /\ k = 2^(top * w)
    BY <1>10, <1>11
  <2>2. d * k \in Int
    BY SMT
  <2>3. c[top] * 2^(top * w) + Low(c, w, top) = Low(c, w, top + 1)
    BY <1>10, <2>1, <2>2
  <2>4. QED
    BY <1>5, <1>9, <1>11, <2>3 DEF Horner
<1>13. \E x \in Int : Rep(Z, GejSetGe(TableGet(Globalz(m), c[top])), x * l)
                      /\ Horner(x, c, w, p + 1, Low(c, w, top + 1))
  BY <1>8, <1>11, <1>12
<1> HIDE DEF w
<1>14. QED
  BY <1>1, <1>3, <1>11, <1>13 DEF ConstRight, w, l, Z

\* Every position doubles and adds, without a case of its own.
LEMMA ConstSteps ==
    ASSUME ConstRight(terms, digits, table, bigZ, pos, r), ConstStep
    PROVE  ConstRight(terms, digits, table, bigZ, pos', r')
<1> DEFINE w == WINDOW_A - 1
           size == WnafSize(w)
<1>1. PICK n \in Scalars \ {0}, a \in Gejs :
        LET l == LogOf(a)
            c == WnafConst(n, w).digit
        IN  /\ terms = << [n |-> n, a |-> a] >> /\ digits = << c >>
            /\ ~a.infinity /\ a.z = 1 /\ l \in Int /\ Rep(1, a, l)
            /\ bigZ \in Field /\ Serves(table, bigZ, l, TableSize(WINDOW_A))
            /\ pos \in Done .. size - 1
            /\ \E x \in Int : Rep(bigZ, r, x * l) /\ Horner(x, c, w, pos + 1, Low(c, w, size + 1))
  BY DEF ConstRight
<1> DEFINE l == LogOf(a)
           c == WnafConst(n, w).digit
<1>2. PICK x \in Int : Rep(bigZ, r, x * l) /\ Horner(x, c, w, pos + 1, Low(c, w, size + 1))
  BY <1>1
<1>3. WINDOW_A \in 3 .. Bits /\ w + 1 = WINDOW_A /\ w \in Nat /\ w <= 2 * Bits + 1
  BY WindowAssumption, BitsAssumption
<1>4. /\ pos >= 0 /\ pos' = pos - 1
      /\ r' = GejAddGe(DoubleTimes(r, w), TableGet(table, c[pos]))
  <2>1. digits[1] = c
    BY <1>1
  <2>2. /\ pos >= 0 /\ pos' = pos - 1
        /\ r' = GejAddGe(DoubleTimes(r, w), TableGet(table, digits[1][pos]))
    BY DEF ConstStep
  <2>3. QED
    BY <2>1, <2>2
<1>5. /\ terms = << [n |-> n, a |-> a] >> /\ digits = << c >> /\ pos \in Done .. size - 1
      /\ ~a.infinity /\ a.z = 1 /\ l \in Int /\ Rep(1, a, l)
      /\ bigZ \in Field /\ Serves(table, bigZ, l, TableSize(WINDOW_A))
  BY <1>1
<1>6. PICK skew : ConstRecoded(c, skew, w, n)
  BY ConstDigitsRight
<1> HIDE DEF l, c, w, size
<1>7. size \in Nat /\ pos \in 0 .. size - 1 /\ pos \in 0 .. size /\ pos \in Nat
  BY <1>4, <1>5, <1>6 DEF ConstRecoded, size, Done
<1>8. c[pos] # 0 /\ Fit(c[pos], WINDOW_A) /\ c[pos] \in Int
  BY <1>3, <1>6, <1>7 DEF ConstRecoded, size
<1>9. c[pos] * l \in Int /\ Entry(bigZ, TableGet(table, c[pos]), c[pos] * l)
  BY <1>3, <1>5, <1>8, TableGetRight
<1>10. PICK d \in Int, k \in Int, y \in Int, b \in Int :
          d = c[pos] /\ k = l /\ y = d * k /\ b = x * k
  <2>1. x * l \in Int
    BY <1>5, SMT
  <2>2. QED
    BY <1>5, <1>8, <1>9, <2>1
<1>11. PICK g, e : g = DoubleTimes(r, w) /\ e = TableGet(table, c[pos])
  OBVIOUS
<1>12. 2^w * b \in Int /\ Rep(bigZ, g, 2^w * b)
  BY <1>2, <1>3, <1>5, <1>10, <1>11, RepDoubleTimes
<1>13. PICK h \in Nat : h = 2^w
  BY <1>3, Power
<1>14. PICK u \in Int : u = h * b
  BY <1>12, <1>13
<1>15. Rep(bigZ, GejAddGe(g, e), u + y)
  BY <1>5, <1>9, <1>10, <1>11, <1>12, <1>13, <1>14, RepAddGe
<1>16. u + y = (h * x + d) * k
  BY <1>10, <1>14, SMT
<1>17. h * x + d \in Int
  BY SMT
<1>18. Horner(h * x + d, c, w, pos, Low(c, w, size + 1))
  BY <1>2, <1>3, <1>7, <1>10, <1>13, HornerStep
<1>19. pos' + 1 = pos /\ pos' \in Done .. size - 1
  BY <1>4, <1>7 DEF Done
<1>20. \E v \in Int : Rep(bigZ, r', v * l) /\ Horner(v, c, w, pos' + 1, Low(c, w, size + 1))
  BY <1>4, <1>10, <1>11, <1>15, <1>16, <1>17, <1>18, <1>19
<1>21. QED
  BY <1>5, <1>19, <1>20 DEF ConstRight, w, l, c, size

\* Off the isomorphic curve, the skew is taken back.
LEMMA ConstEnds ==
    ASSUME alg = "const", pos = Done, ng = NoScalar, Asked(terms),
           ConstRight(terms, digits, table, bigZ, pos, r)
    PROVE  Affine(Finish) = Expected
<1> DEFINE w == WINDOW_A - 1
           size == WnafSize(w)
<1>1. PICK n \in Scalars \ {0}, a \in Gejs :
        LET l == LogOf(a)
            c == WnafConst(n, w).digit
        IN  /\ terms = << [n |-> n, a |-> a] >>
            /\ ~a.infinity /\ a.z = 1 /\ l \in Int /\ Rep(1, a, l)
            /\ bigZ \in Field
            /\ \E x \in Int : Rep(bigZ, r, x * l) /\ Horner(x, c, w, pos + 1, Low(c, w, size + 1))
  BY DEF ConstRight
<1> DEFINE l == LogOf(a)
           c == WnafConst(n, w).digit
           skew == WnafConst(n, w).skew
<1>2. PICK x \in Int : Rep(bigZ, r, x * l) /\ Horner(x, c, w, pos + 1, Low(c, w, size + 1))
  BY <1>1
<1>3. terms = << [n |-> n, a |-> a] >> /\ ~a.infinity /\ a.z = 1 /\ l \in Int /\ Rep(1, a, l)
  BY <1>1
<1>4. ConstRecoded(c, skew, w, n)
  BY ConstDigitsRight
<1>5. skew \in {1, 2} /\ Low(c, w, size + 1) \in Int /\ Cong(N, Low(c, w, size + 1), n + skew)
  BY <1>4 DEF ConstRecoded
<1>6. w \in Nat
  BY WindowSizes
<1> DEFINE b == GejNormalize(GejDouble(a))
           q == IF skew = 2 THEN b ELSE a
<1>7. Finish = GejAddGe(On(bigZ, r), Ge(q.x, F(-q.y)))
  <2>1. terms[1].a = a /\ terms[1].n = n
    BY <1>3
  <2>2. Finish = LET p == IF WnafConst(terms[1].n, WINDOW_A - 1).skew = 2
                          THEN GejNormalize(GejDouble(terms[1].a)) ELSE terms[1].a
                 IN  GejAddGe(On(bigZ, r), Ge(p.x, F(-p.y)))
    BY DEF Finish, On
  <2>3. QED
    BY <2>1, <2>2
<1> HIDE DEF c, skew, size, l, w
<1>8. x = Low(c, w, size + 1)
  <2>1. pos + 1 = 0
    BY DEF Done
  <2>2. Horner(x, c, w, 0, Low(c, w, size + 1))
    BY <1>2, <2>1
  <2>3. QED
    BY <1>6, <2>2, HornerEnd
<1>9. PICK v \in Int, k \in Int : v = x * l /\ k = skew * l
  <2>1. x * l \in Int /\ skew * l \in Int
    <3>1. skew \in Int
      BY <1>5
    <3>2. QED
      BY <1>3, <3>1, SMT
  <2>2. QED
    BY <2>1
<1>10. Rep(1, On(bigZ, r), v)
  <2>1. Stands(On(bigZ, r), TimesOf(v))
    BY <1>2, <1>9 DEF Rep
  <2>2. QED
    BY <2>1, RepIsStands
<1>11. Entry(1, Ge(q.x, F(-q.y)), -k)
  <2>1. CASE skew = 1
    <3>1. q = a /\ k = l
      BY <1>3, <1>9, <2>1
    <3>2. Entry(1, Ge(a.x, F(-a.y)), -l)
      BY <1>3, FlatNeg
    <3> HIDE DEF q
    <3>3. QED
      BY <3>1, <3>2
  <2>2. CASE skew = 2
    <3>1. q = b /\ k = 2 * l
      BY <1>3, <1>9, <2>2
    <3>2. Rep(1, GejDouble(a), k)
      <4>1. Rep(1, GejDouble(a), 2 * l)
        BY <1>3, Ones, RepDouble
      <4>2. QED
        BY <3>1, <4>1
    <3>3. GejDouble(a).infinity = FALSE
      BY <1>3 DEF GejDouble, Gej
    <3>4. PICK d : d = GejDouble(a)
      OBVIOUS
    <3>5. Rep(1, d, k) /\ ~d.infinity
      BY <3>2, <3>3, <3>4
    <3>6. Entry(1, Ge(GejNormalize(d).x, F(-GejNormalize(d).y)), -k)
      BY <3>5, NormalizedEntry
    <3>7. q = GejNormalize(d)
      BY <3>1, <3>4
    <3> HIDE DEF q
    <3>8. QED
      BY <3>6, <3>7
  <2>3. QED
    BY <1>5, <2>1, <2>2
<1>12. Rep(1, Finish, v + (-k)) /\ v + (-k) \in Int
  <2>2. PICK e : e = Ge(q.x, F(-q.y))
    OBVIOUS
  <2>3. PICK g : g = On(bigZ, r)
    OBVIOUS
  <2>4. Rep(1, g, v) /\ Entry(1, e, -k) /\ -k \in Int
    BY <1>10, <1>11, <2>2, <2>3
  <2>5. Rep(1, GejAddGe(g, e), v + (-k))
    BY <2>4, Ones, RepAddGe
  <2>6. QED
    BY <1>7, <2>2, <2>3, <2>5
<1>13. PICK t : t = [n |-> n, a |-> a]
  OBVIOUS
<1>14. /\ terms = <<t>> /\ t \in TermRecords /\ TermOK(t) /\ t.n = n /\ LogOf(t.a) = l
  <2>1. terms = <<t>> /\ t.n = n /\ t.a = a
    BY <1>3, <1>13
  <2>2. LogOf(t.a) = l
    BY <2>1 DEF l
  <2>3. TermOK(t)
    BY <1>3, <2>1, <2>2 DEF TermOK
  <2>4. t \in TermRecords
    BY <1>13 DEF TermRecords
  <2>5. QED
    BY <2>1, <2>2, <2>3, <2>4
<1>15. Wanted(ng, terms) = n * l /\ n * l \in Int
  <2>1. Wanted(NoScalar, <<t>>) = t.n * LogOf(t.a) /\ t.n * LogOf(t.a) \in Int
    BY <1>14, WantedOne
  <2>2. QED
    BY <1>14, <2>1
<1>16. Cong(N, v + (-k), n * l)
  <2>1. PICK s \in Int : Low(c, w, size + 1) = (n + skew) + s * N
    BY <1>5 DEF Cong
  <2>2. PICK h \in Int, i \in Int, j \in Int : h = n /\ i = skew /\ j = l
    BY <1>3, <1>5, Order
  <2>3. x = (h + i) + s * N /\ v = x * j /\ k = i * j /\ N \in Int
    BY <1>8, <1>9, <2>1, <2>2, Order
  <2>4. v = h * j + i * j + (s * j) * N
    BY <2>3, SMT
  <2>5. h * j \in Int /\ i * j \in Int /\ s * j \in Int
    BY SMT
  <2>6. PICK m \in Int, o \in Int, u \in Int : m = h * j /\ o = i * j /\ u = s * j
    BY <2>5
  <2>7. PICK y \in Int : y = u * N
    <3>1. u * N \in Int
      BY <2>3, SMT
    <3>2. QED
      BY <3>1
  <2>8. v + (-k) = m + y
    BY <2>3, <2>4, <2>6, <2>7
  <2>9. Cong(N, v + (-k), m)
    BY <2>7, <2>8 DEF Cong
  <2>10. QED
    BY <2>2, <2>6, <2>9
<1>17. terms \in Seq(TermRecords) /\ AllOK(terms) /\ ng \in Scalars \cup {NoScalar}
  BY DEF Asked
<1>18. QED
  BY <1>12, <1>15, <1>16, <1>17, ProductIs

---------------------------------------------------------------------------
(* Strauss: the tables of all terms, one after the other.                  *)

\* The odd multiples of one point after the other.
Rows(v, used, k, n) ==
    \A j \in 1 .. k : \A i \in 1 .. n : v[(j - 1) * n + i] = Odds(LogOf(used[j].a), n)[i]

TablesRight(t, used, k, n) == \E z, v : Chain(t, z, v, k * n) /\ Rows(v, used, k, n)

LEMMA TablesEmpty ==
    ASSUME NEW used, NEW n \in Nat
    PROVE  TablesRight([prej |-> << >>, zr |-> << >>], used, 0, n)
<1>1. PICK t : t = [prej |-> << >>, zr |-> << >>]
  OBVIOUS
<1>2. t.prej \in Seq(Gejs) /\ t.zr \in Seq(Field) /\ Len(t.prej) = 0 /\ Len(t.zr) = 0
  BY <1>1
<1>3. 0 * n = 0
  OBVIOUS
<1>4. Chain(t, << >>, << >>, 0)
  BY <1>2 DEF Chain
<1>5. Rows(<< >>, used, 0, n)
  BY DEF Rows
<1>6. QED
  BY <1>1, <1>3, <1>4, <1>5 DEF TablesRight

LEMMA TablesStep ==
    ASSUME NEW used, NEW k \in Nat, NEW n \in Nat, n >= 1, 2 * n - 1 < N,
           NEW t, TablesRight(t, used, k, n), NEW a, a = used[k + 1].a,
           LogOf(a) \in Int, Rep(1, a, LogOf(a)), ~a.infinity
    PROVE  TablesRight(AppendOddMultiples(t, n, a), used, k + 1, n)
<1>1. PICK z, v : Chain(t, z, v, k * n) /\ Rows(v, used, k, n)
  BY DEF TablesRight
<1>2. PICK l \in Int : l = LogOf(a)
  OBVIOUS
<1>3. PICK m \in Nat : m = k * n
  <2>1. k * n \in Nat
    BY SMT
  <2>2. QED
    BY <2>1
<1>4. PICK y : Chain(AppendOddMultiples(t, n, a), y, Joined(v, m, Odds(l, n)), m + n)
  <2>1. Chain(t, z, v, m) /\ Rep(1, a, l)
    BY <1>1, <1>2, <1>3
  <2>2. QED
    BY <2>1, ChainAppend
<1>5. m + n = (k + 1) * n
  BY <1>3, SMT
<1>6. PICK u : u = Joined(v, m, Odds(l, n))
  OBVIOUS
<1>7. ASSUME NEW j \in 1 .. k + 1, NEW i \in 1 .. n
      PROVE  u[(j - 1) * n + i] = Odds(LogOf(used[j].a), n)[i]
  <2>1. PICK h \in Nat : h = (j - 1) * n
    <3>1. (j - 1) * n \in Nat
      BY SMT
    <3>2. QED
      BY <3>1
  <2>2. CASE j = k + 1
    <3>1. h = m
      BY <1>3, <2>1, <2>2
    <3>2. u[m + i] = Odds(l, n)[(m + i) - m]
      <4>1. m + i \in Nat /\ ~(m + i <= m)
        OBVIOUS
      <4>2. QED
        BY <1>6, <4>1 DEF Joined
    <3>3. (m + i) - m = i
      OBVIOUS
    <3>4. QED
      BY <1>2, <2>1, <2>2, <3>1, <3>2, <3>3
  <2>3. CASE j # k + 1
    <3>1. j \in 1 .. k
      BY <2>3
    <3>2. h + i <= m
      <4>1. j * n <= k * n
        BY <3>1, SMT
      <4>2. h + n = j * n
        BY <2>1, SMT
      <4>3. PICK g \in Nat : g = j * n
        BY <4>2
      <4>4. QED
        BY <1>3, <4>1, <4>2, <4>3
    <3>3. u[h + i] = v[h + i]
      BY <1>6, <3>2 DEF Joined
    <3>4. v[(j - 1) * n + i] = Odds(LogOf(used[j].a), n)[i]
      BY <1>1, <3>1 DEF Rows
    <3>5. QED
      BY <2>1, <3>3, <3>4
  <2>4. QED
    BY <2>2, <2>3
<1>8. Rows(u, used, k + 1, n)
  BY <1>7 DEF Rows
<1>9. QED
  BY <1>4, <1>5, <1>6, <1>8 DEF TablesRight

\* The tables of all terms are right, on one z coordinate.
LEMMA StraussTablesRight ==
    ASSUME NEW used, NEW max, UsedOK(used, max), NEW n, n = TableSize(WINDOW_A)
    PROVE  TablesRight(StraussTables(used), used, Len(used), n)
<1>0. Len(used) \in Nat /\ n \in Nat /\ n >= 1 /\ 2 * n - 1 < N
  <2>1. WINDOW_A \in 3 .. Bits
    BY WindowAssumption
  <2>2. QED
    BY <2>1, TableSizes DEF UsedOK
<1> DEFINE m == Len(used)
           e == [prej |-> << >>, zr |-> << >>]
           T == CHOOSE d : d = [k \in 0 .. m |-> IF k = 0 THEN e
                                  ELSE AppendOddMultiples(d[k - 1], n, used[k].a)]
           A == [k \in Nat |-> {t \in [prej : Seq(Gejs), zr : Seq(Field)] : TablesRight(t, used, k, n)}]
<1>1. StraussTables(used) = T[m]
  BY DEF StraussTables
<1>2. e \in A[0]
  <2>1. TablesRight(e, used, 0, n)
    BY <1>0, TablesEmpty
  <2>2. e \in [prej : Seq(Gejs), zr : Seq(Field)]
    OBVIOUS
  <2>3. QED
    BY <2>1, <2>2
<1>3. ASSUME NEW i \in 0 .. m - 1, NEW t \in A[i]
      PROVE  AppendOddMultiples(t, n, used[i + 1].a) \in A[i + 1]
  <2>1. i \in Nat /\ i + 1 \in Nat /\ i + 1 \in 1 .. m /\ i + 1 \in DOMAIN used
    BY <1>0 DEF UsedOK
  <2>2. TablesRight(t, used, i, n)
    BY <2>1
  <2>3. PICK a : a = used[i + 1].a
    OBVIOUS
  <2>4. LogOf(a) \in Int /\ Rep(1, a, LogOf(a)) /\ ~a.infinity
    BY <2>1, <2>3 DEF UsedOK, AllOK, TermOK, Taken
  <2> HIDE DEF A
  <2>5. TablesRight(AppendOddMultiples(t, n, a), used, i + 1, n)
    BY <1>0, <2>1, <2>2, <2>3, <2>4, TablesStep
  <2>6. PICK g : g = AppendOddMultiples(t, n, a)
    OBVIOUS
  <2>7. g.prej \in Seq(Gejs) /\ g.zr \in Seq(Field)
    BY <2>5, <2>6 DEF TablesRight, Chain
  <2>8. g = [prej |-> g.prej, zr |-> g.zr]
    BY <2>6 DEF AppendOddMultiples, OddMultiples
  <2>9. g \in [prej : Seq(Gejs), zr : Seq(Field)]
    BY <2>7, <2>8
  <2>10. QED
    BY <2>1, <2>3, <2>5, <2>6, <2>9 DEF A
<1> HIDE DEF A, e
<1>4. T = [k \in 0 .. m |-> IF k = 0 THEN e ELSE AppendOddMultiples(T[k - 1], n, used[k].a)]
  <2> DEFINE step == [i \in 0 .. m - 1 |-> [t \in A[i] |-> AppendOddMultiples(t, n, used[i + 1].a)]]
  <2>1. \A i \in 0 .. m - 1 : \A t \in A[i] : step[i][t] \in A[i + 1]
    BY <1>3
  <2>2. \A i \in 0 .. m - 1 : \A t \in A[i] : step[i][t] = AppendOddMultiples(t, n, used[i + 1].a)
    OBVIOUS
  <2> HIDE DEF step
  <2>3. PICK g : Walks(g, step, A, e, m)
    <3>1. Closed(step, A, m)
      BY <2>1 DEF Closed
    <3>2. QED
      BY <1>0, <1>2, <3>1, Iterated
  <2>4. /\ g = [i \in 0 .. m |-> g[i]] /\ g[0] = e
        /\ \A i \in 0 .. m : g[i] \in A[i]
        /\ \A i \in 0 .. m - 1 : g[i + 1] = step[i][g[i]]
    BY <2>3 DEF Walks
  <2>5. ASSUME NEW i \in 0 .. m, i # 0
        PROVE  g[i] = AppendOddMultiples(g[i - 1], n, used[i].a)
    <3>1. i - 1 \in 0 .. m - 1 /\ (i - 1) + 1 = i /\ i - 1 \in 0 .. m
      BY <1>0, <2>5
    <3>2. g[(i - 1) + 1] = step[i - 1][g[i - 1]] /\ g[i - 1] \in A[i - 1]
      BY <2>4, <3>1
    <3>3. step[i - 1][g[i - 1]] = AppendOddMultiples(g[i - 1], n, used[(i - 1) + 1].a)
      BY <2>2, <3>1, <3>2
    <3>4. QED
      BY <3>1, <3>2, <3>3
  <2>6. \A i \in 0 .. m : g[i] = IF i = 0 THEN e ELSE AppendOddMultiples(g[i - 1], n, used[i].a)
    BY <2>4, <2>5
  <2>7. g = [k \in 0 .. m |-> IF k = 0 THEN e ELSE AppendOddMultiples(g[k - 1], n, used[k].a)]
    BY <2>4, <2>6
  <2>8. QED
    BY <2>7
<1> HIDE DEF T
<1>5. T[0] \in A[0]
  <2>1. T[0] = e
    BY <1>0, <1>4
  <2>2. QED
    BY <1>2, <2>1
<1>6. ASSUME NEW i \in 0 .. m - 1, T[i] \in A[i] PROVE T[i + 1] \in A[i + 1]
  <2>1. i + 1 \in 0 .. m /\ i + 1 # 0 /\ (i + 1) - 1 = i
    BY <1>0
  <2>2. T[i + 1] = AppendOddMultiples(T[i], n, used[i + 1].a)
    BY <1>4, <2>1
  <2>3. QED
    BY <1>3, <1>6, <2>2
<1>7. T[m] \in A[m]
  <2>1. \A i \in 0 .. m : T[i] \in A[i]
    BY <1>0, <1>5, <1>6, Kept
  <2>2. QED
    BY <1>0, <2>1
<1>8. QED
  BY <1>0, <1>1, <1>7 DEF A

\* The slices of the table all sit on the z coordinate of the last entry.
SliceOf(tab, k) ==
    SubSeq(tab, (k - 1) * TableSize(WINDOW_A) + 1, k * TableSize(WINDOW_A))

Slices(tab, used, Z) ==
    /\ Z \in Field /\ Z # 0
    /\ \A k \in 1 .. Len(used) :
          Serves(SliceOf(tab, k), Z, LogOf(used[k].a), TableSize(WINDOW_A))

\* After Globalz every slice serves its term.
LEMMA SlicesRight ==
    ASSUME NEW used, NEW max, UsedOK(used, max), NEW t, t = StraussTables(used),
           NEW Z, Z = IF used = << >> THEN 1 ELSE Last(t.prej).z
    PROVE  Slices(Globalz(t), used, Z)
<1>1. PICK m \in Nat, n \in Nat : m = Len(used) /\ n = TableSize(WINDOW_A) /\ n >= 1
  <2>1. WINDOW_A \in 3 .. Bits
    BY WindowAssumption
  <2>2. QED
    BY <2>1, TableSizes DEF UsedOK
<1>2. CASE used = << >>
  BY <1>2, Ones DEF Slices
<1>3. CASE used # << >>
  <2>1. m >= 1
    BY <1>1, <1>3 DEF UsedOK
  <2>2. PICK z, v : Chain(t, z, v, m * n) /\ Rows(v, used, m, n)
    BY <1>1, StraussTablesRight DEF TablesRight
  <2>3. PICK h \in Nat : h = m * n /\ h >= 1
    <3>1. m * n \in Nat /\ m * n >= 1
      BY <1>1, <2>1, SMT
    <3>2. QED
      BY <3>1
  <2>4. Z = z[h] /\ Z \in Field /\ Z # 0
    <3>1. Chain(t, z, v, h) /\ h \in 1 .. h
      BY <2>2, <2>3
    <3>2. /\ Len(t.prej) = h /\ \A i \in 1 .. h : z[i] \in Field /\ z[i] # 0
          /\ h > 0 => t.prej[h].z = z[h]
      BY <3>1, ChainEntries
    <3>3. QED
      BY <1>3, <2>3, <3>1, <3>2 DEF Last
  <2>5. PICK g : g = Globalz(t)
    OBVIOUS
  <2>6. /\ Len(g) = h /\ DOMAIN g = 1 .. h
        /\ \A i \in 1 .. h : Entry(Z, g[i], v[i])
    <3>1. Chain(t, z, v, h)
      BY <2>2, <2>3
    <3>2. QED
      BY <2>3, <2>4, <2>5, <3>1, GlobalzRight
  <2>7. ASSUME NEW k \in 1 .. m, NEW i \in 1 .. n
        PROVE  Entry(Z, SliceOf(g, k)[i], Odds(LogOf(used[k].a), n)[i])
    <3>1. PICK b \in Nat, c \in Nat : b = (k - 1) * n /\ c = k * n /\ c = b + n /\ c <= h
      <4>1. (k - 1) * n \in Nat /\ k * n \in Nat /\ k * n = (k - 1) * n + n /\ k * n <= m * n
        BY <1>1, SMT
      <4>2. QED
        BY <2>3, <4>1
    <3>2. SliceOf(g, k) = SubSeq(g, b + 1, c)
      BY <1>1, <3>1 DEF SliceOf
    <3>3. b + i \in 1 .. h
      BY <3>1
    <3>4. SubSeq(g, b + 1, c)[i] = g[b + i]
      <4>1. SubSeq(g, b + 1, c) = [j \in 1 .. (1 + c - (b + 1)) |-> g[(j + (b + 1)) - 1]]
        BY DEF SubSeq
      <4>2. i \in 1 .. (1 + c - (b + 1)) /\ (i + (b + 1)) - 1 = b + i
        BY <3>1
      <4>3. QED
        BY <4>1, <4>2
    <3>5. v[b + i] = Odds(LogOf(used[k].a), n)[i]
      BY <2>2, <3>1 DEF Rows
    <3>6. Entry(Z, g[b + i], v[b + i])
      BY <2>6, <3>3
    <3>7. QED
      BY <3>2, <3>4, <3>5, <3>6
  <2>8. QED
    BY <1>1, <2>4, <2>5, <2>7 DEF Slices, Serves
<1>4. QED
  BY <1>2, <1>3

---------------------------------------------------------------------------
(* Strauss: all digits of all terms.                                       *)

\* G is one more point, whose logarithm is 1.
StraussLogs(used) ==
    [k \in 1 .. Len(used) + 1 |-> IF k <= Len(used) THEN LogOf(used[k].a) ELSE 1]

StraussColumn(used, digs) ==
    Column(StraussLogs(used), digs, Len(used) + 1, Len(used) + 1)

StraussShares(used, g) ==
    [i \in Nat |-> IF i = Len(used) THEN Given(g) ELSE Shares(used)[i]]

LEMMA StraussSharesSum ==
    ASSUME NEW ts, Asked(ts), NEW g \in Scalars \cup {NoScalar}, NEW used, used = Used(ts)
    PROVE  /\ StraussShares(used, g) \in [Nat -> Int]
           /\ SumTo(StraussShares(used, g), Len(used) + 1) \in Int /\ Wanted(g, ts) \in Int
           /\ Cong(N, SumTo(StraussShares(used, g), Len(used) + 1), Wanted(g, ts))
<1> DEFINE f == Shares(used)
           h == StraussShares(used, g)
           m == Len(used)
<1>1. ts \in Seq(TermRecords) /\ AllOK(ts) /\ Len(ts) \in Nat
  BY DEF Asked
<1>2. UsedOK(used, Len(ts)) /\ Cong(N, SumTo(f, m), SumTo(Shares(ts), Len(ts)))
  BY <1>1, UsedAsked
<1>3. f \in [Nat -> Int] /\ m \in Nat /\ Shares(ts) \in [Nat -> Int]
  BY <1>1, <1>2, SharesInt DEF UsedOK
<1>4. Given(g) \in Int
  BY GRecoded, Order
<1>5. h \in [Nat -> Int] /\ h[m] = Given(g) /\ \A i \in 0 .. m - 1 : h[i] = f[i]
  <2>1. h = [i \in Nat |-> IF i = m THEN Given(g) ELSE f[i]]
    BY DEF StraussShares
  <2> HIDE DEF h, f, m
  <2>2. QED
    BY <1>3, <1>4, <2>1
<1> HIDE DEF h, f, m
<1>6. SumTo(h, m) = SumTo(f, m)
  BY <1>3, <1>5, SumEqual
<1>7. SumTo(h, m + 1) = SumTo(f, m) + Given(g)
  <2>1. SumTo(h, m + 1) = SumTo(h, m) + h[m]
    BY <1>3, <1>5, SumStep
  <2>2. QED
    BY <1>5, <1>6, <2>1
<1>8. PICK a \in Int, b \in Int : a = SumTo(f, m) /\ b = SumTo(Shares(ts), Len(ts))
  BY <1>1, <1>3, SumInt
<1>9. Cong(N, a + Given(g), b + Given(g))
  BY <1>2, <1>4, <1>8, Order, CongRefl, CongAdd
<1>10. Wanted(g, ts) = b + Given(g)
  BY <1>4, <1>8 DEF Wanted
<1>11. QED
  BY <1>4, <1>5, <1>7, <1>8, <1>9, <1>10 DEF h, m

\* All digits, weighed, are the sum the call is for.
LEMMA StraussTotal ==
    ASSUME NEW ts, Asked(ts), NEW g \in Scalars \cup {NoScalar}, NEW used, used = Used(ts),
           NEW digs, digs = StraussDigits(used, g)
    PROVE  LET c == StraussColumn(used, digs)
           IN  /\ Family(StraussLogs(used), digs, Len(used) + 1, Bits)
               /\ \A i \in 0 .. Bits - 1 : c[i] \in Int
               /\ Low(c, 1, Bits) \in Int
               /\ Cong(N, Low(c, 1, Bits), Wanted(g, ts))
<1> DEFINE m == Len(used)
           l == StraussLogs(used)
           f == StraussShares(used, g)
<1>1. ts \in Seq(TermRecords) /\ AllOK(ts)
  BY DEF Asked
<1>2. UsedOK(used, Len(ts))
  BY <1>1, UsedAsked
<1>3. used \in Seq(TermRecords) /\ AllOK(used) /\ m \in Nat /\ DOMAIN used = 1 .. m
  BY <1>2 DEF UsedOK
<1>4. \A k \in 1 .. m : /\ Recoded(digs[k], WINDOW_A, used[k].n) /\ used[k].n \in Scalars
                        /\ LogOf(used[k].a) \in Int
  BY <1>2, <1>3, StraussDigitsRight DEF AllOK, TermOK
<1>5. Recoded(digs[m + 1], WINDOW_G, Given(g)) /\ Given(g) \in Scalars
  BY <1>2, StraussDigitsRight, GRecoded
<1>6. Bits \in Nat /\ Short(1, Bits) /\ 1 \in Nat
  BY Two DEF Short
<1>7. /\ f \in [Nat -> Int] /\ SumTo(f, m + 1) \in Int /\ Wanted(g, ts) \in Int
      /\ Cong(N, SumTo(f, m + 1), Wanted(g, ts))
  BY StraussSharesSum
<1>8. ASSUME NEW k \in 1 .. m
      PROVE  l[k] = LogOf(used[k].a) /\ f[k - 1] = used[k].n * LogOf(used[k].a)
  <2>1. k \in 1 .. m + 1 /\ k <= m /\ k - 1 \in Nat /\ k - 1 # m /\ k - 1 < m /\ (k - 1) + 1 = k
    BY <1>3
  <2>2. l[k] = LogOf(used[k].a)
    BY <2>1 DEF StraussLogs
  <2>3. f[k - 1] = Shares(used)[k - 1]
    BY <2>1 DEF StraussShares
  <2>4. Shares(used)[k - 1] = used[(k - 1) + 1].n * LogOf(used[(k - 1) + 1].a)
    BY <2>1 DEF Shares
  <2>5. QED
    BY <2>1, <2>2, <2>3, <2>4, Zenon
<1>9. l[m + 1] = 1 /\ f[m] = Given(g)
  BY <1>3 DEF StraussLogs, StraussShares
<1> HIDE DEF l, f, m
<1>10. Family(l, digs, m + 1, Bits)
  <2>1. ASSUME NEW k \in 1 .. m + 1
        PROVE  l[k] \in Int /\ \A i \in 0 .. Bits - 1 : digs[k][i] \in Int
    <3>1. CASE k \in 1 .. m
      BY <1>4, <1>8, <3>1 DEF Recoded
    <3>2. CASE k = m + 1
      <4>1. \A i \in 0 .. Bits - 1 : digs[m + 1][i] \in Int
        BY <1>5 DEF Recoded
      <4>2. l[m + 1] \in Int
        BY <1>9
      <4>3. QED
        BY <3>2, <4>1, <4>2
    <3>3. QED
      BY <1>3, <3>1, <3>2
  <2>2. QED
    BY <1>3, <2>1 DEF Family
<1>11. Means(l, digs, m + 1, 1, Bits, f)
  <2>1. ASSUME NEW k \in 1 .. m + 1
        PROVE  \E v \in Int : Cong(N, Low(digs[k], 1, Bits), v) /\ f[k - 1] = v * l[k]
    <3>1. CASE k \in 1 .. m
      BY <1>4, <1>8, <3>1, Order DEF Recoded
    <3>2. CASE k = m + 1
      <4>1. Given(g) \in Int /\ Given(g) * 1 = Given(g)
        BY <1>5, Order
      <4>2. k - 1 = m
        BY <1>3, <3>2
      <4>3. f[k - 1] = Given(g) * l[k]
        BY <1>9, <3>2, <4>1, <4>2
      <4>4. QED
        BY <1>5, <3>2, <4>1, <4>3 DEF Recoded
    <3>3. QED
      BY <1>3, <3>1, <3>2
  <2>2. QED
    BY <1>7, <2>1 DEF Means
<1>12. StraussColumn(used, digs) = Column(l, digs, m + 1, m + 1)
  BY DEF StraussColumn, l, m
<1>13. m + 1 \in Nat
  BY <1>3
<1>14. /\ Low(Column(l, digs, m + 1, m + 1), 1, Bits) \in Int
       /\ Cong(N, Low(Column(l, digs, m + 1, m + 1), 1, Bits), SumTo(f, m + 1))
  BY <1>6, <1>7, <1>10, <1>11, <1>13, ColumnMeans
<1>15. Cong(N, Low(Column(l, digs, m + 1, m + 1), 1, Bits), Wanted(g, ts))
  BY <1>7, <1>14, Order, CongTrans
<1>16. \A i \in 0 .. Bits - 1 : Column(l, digs, m + 1, m + 1)[i] \in Int
  BY <1>10, <1>13, CellInt
<1>17. QED
  BY <1>10, <1>12, <1>14, <1>15, <1>16 DEF l, m

\* The highest last bit.
LEMMA Highest ==
    ASSUME NEW m \in Nat, NEW last, \A k \in 0 .. m : last[k] \in 0 .. Bits,
           NEW gw, last[0] = LastBit(gw), NEW W, \A k \in 1 .. m : last[k] = LastBit(W[k]),
           NEW D, D = CHOOSE d : d = [k \in 0 .. m |-> IF k = 0 THEN LastBit(gw)
                                                       ELSE Max2(LastBit(W[k]), d[k - 1])]
    PROVE  D[m] \in 0 .. Bits /\ \A k \in 0 .. m : last[k] <= D[m]
<1> DEFINE A == [k \in Nat |-> {b \in 0 .. Bits : \A j \in 0 .. k : j <= m => last[j] <= b}]
<1>0. Bits \in Nat
  BY Two
<1>1. last[0] \in A[0]
  <2>1. \A j \in 0 .. 0 : last[j] <= last[0]
    <3>1. 0 \in 0 .. m
      OBVIOUS
    <3>2. last[0] <= last[0]
      BY <1>0, <3>1
    <3>3. QED
      BY <3>2
  <2>2. QED
    BY <2>1
<1>2. ASSUME NEW i \in 0 .. m - 1, NEW b \in A[i]
      PROVE  Max2(last[i + 1], b) \in A[i + 1]
  <2>1. i + 1 \in 0 .. m /\ i \in Nat /\ b \in 0 .. Bits /\ last[i + 1] \in 0 .. Bits
    OBVIOUS
  <2>2. \A j \in 0 .. i : j <= m => last[j] <= b
    BY <2>1
  <2>3. PICK c : c = Max2(last[i + 1], b)
    OBVIOUS
  <2>4. c \in 0 .. Bits /\ c >= b /\ c >= last[i + 1]
    BY <1>0, <2>1, <2>3 DEF Max2
  <2>5. ASSUME NEW j \in 0 .. i + 1, j <= m PROVE last[j] <= c
    <3>1. last[j] \in 0 .. Bits
      BY <2>5
    <3>2. CASE j = i + 1
      BY <2>4, <3>2
    <3>3. CASE j # i + 1
      <4>1. j \in 0 .. i
        BY <2>1, <3>3
      <4>2. last[j] <= b
        BY <2>2, <2>5, <4>1
      <4>3. QED
        BY <1>0, <2>1, <2>4, <3>1, <4>2
    <3>4. QED
      BY <3>2, <3>3
  <2>6. QED
    BY <2>1, <2>3, <2>4, <2>5
<1> HIDE DEF A
<1>3. D = [k \in 0 .. m |-> IF k = 0 THEN LastBit(gw) ELSE Max2(LastBit(W[k]), D[k - 1])]
  <2> DEFINE step == [i \in 0 .. m - 1 |-> [b \in A[i] |-> Max2(last[i + 1], b)]]
  <2>1. \A i \in 0 .. m - 1 : \A b \in A[i] : step[i][b] \in A[i + 1]
    BY <1>2
  <2>2. \A i \in 0 .. m - 1 : \A b \in A[i] : step[i][b] = Max2(last[i + 1], b)
    OBVIOUS
  <2> HIDE DEF step
  <2>3. PICK g : Walks(g, step, A, last[0], m)
    <3>1. Closed(step, A, m)
      BY <2>1 DEF Closed
    <3>2. QED
      BY <1>0, <1>1, <3>1, Iterated
  <2>4. /\ g = [i \in 0 .. m |-> g[i]] /\ g[0] = last[0]
        /\ \A i \in 0 .. m : g[i] \in A[i]
        /\ \A i \in 0 .. m - 1 : g[i + 1] = step[i][g[i]]
    BY <2>3 DEF Walks
  <2>5. ASSUME NEW i \in 0 .. m, i # 0 PROVE g[i] = Max2(last[i], g[i - 1])
    <3>1. i - 1 \in 0 .. m - 1 /\ (i - 1) + 1 = i /\ i - 1 \in 0 .. m
      BY <2>5
    <3>2. g[(i - 1) + 1] = step[i - 1][g[i - 1]] /\ g[i - 1] \in A[i - 1]
      BY <2>4, <3>1
    <3>3. step[i - 1][g[i - 1]] = Max2(last[(i - 1) + 1], g[i - 1])
      BY <2>2, <3>1, <3>2
    <3>4. QED
      BY <3>1, <3>2, <3>3
  <2>6. ASSUME NEW i \in 0 .. m
        PROVE  g[i] = IF i = 0 THEN LastBit(gw) ELSE Max2(LastBit(W[i]), g[i - 1])
    <3>1. CASE i = 0
      BY <2>4, <3>1
    <3>2. CASE i # 0
      <4>1. i \in 1 .. m /\ last[i] = LastBit(W[i])
        BY <3>2
      <4>2. QED
        BY <2>5, <3>2, <4>1
    <3>3. QED
      BY <3>1, <3>2
  <2>7. g = [k \in 0 .. m |-> IF k = 0 THEN LastBit(gw) ELSE Max2(LastBit(W[k]), g[k - 1])]
    BY <2>4, <2>6
  <2>8. QED
    BY <2>7
<1>4. D[0] \in A[0]
  <2>1. D[0] = last[0]
    <3>1. PICK X : X = D
      OBVIOUS
    <3>2. X = [k \in 0 .. m |-> IF k = 0 THEN LastBit(gw) ELSE Max2(LastBit(W[k]), D[k - 1])]
      BY <1>3, <3>1
    <3>3. 0 \in 0 .. m
      OBVIOUS
    <3>4. X[0] = last[0]
      BY <3>2, <3>3
    <3>5. QED
      BY <3>1, <3>4
  <2>2. QED
    BY <1>1, <2>1
<1>5. ASSUME NEW i \in 0 .. m - 1, D[i] \in A[i] PROVE D[i + 1] \in A[i + 1]
  <2>1. i + 1 \in 0 .. m /\ i + 1 # 0 /\ (i + 1) - 1 = i /\ i + 1 \in 1 .. m
    OBVIOUS
  <2>2. D[i + 1] = Max2(last[i + 1], D[i])
    <3>1. D[i + 1] = Max2(LastBit(W[i + 1]), D[(i + 1) - 1])
      BY <1>3, <2>1
    <3>2. QED
      BY <2>1, <3>1
  <2>3. QED
    BY <1>2, <1>5, <2>2
<1>6. D[m] \in A[m]
  <2>1. \A i \in 0 .. m : D[i] \in A[i]
    BY <1>4, <1>5, Kept
  <2>2. QED
    BY <2>1
<1>7. PICK b : b = D[m]
  OBVIOUS
<1>8. b \in 0 .. Bits /\ \A j \in 0 .. m : j <= m => last[j] <= b
  <2>1. b \in A[m]
    BY <1>6, <1>7
  <2>2. A[m] = {c \in 0 .. Bits : \A j \in 0 .. m : j <= m => last[j] <= c}
    BY DEF A
  <2> HIDE DEF A
  <2>3. QED
    BY <2>1, <2>2
<1>9. \A j \in 0 .. m : last[j] <= b
  BY <1>8
<1>10. QED
  BY <1>7, <1>8, <1>9

---------------------------------------------------------------------------
(* Strauss: from the highest last bit down.                                *)

StraussRight(ts, g, digs, tab, Z, p, acc) ==
    LET used == Used(ts)
        c    == StraussColumn(used, digs)
    IN  /\ digs = StraussDigits(used, g) /\ Slices(tab, used, Z) /\ p \in Done .. Bits - 1
        /\ \E x \in Int : Rep(Z, acc, x) /\ Horner(x, c, 1, p + 1, Low(c, 1, Bits))

\* Above the highest last bit all digits are zero.
LEMMA ColumnZero ==
    ASSUME NEW l, NEW D, NEW m, NEW n, Family(l, D, m, n), NEW i \in 0 .. n - 1,
           \A k \in 1 .. m : D[k][i] = 0
    PROVE  Column(l, D, m, m)[i] = 0
<1>1. m \in Nat /\ \A k \in 1 .. m : l[k] \in Int
  BY DEF Family
<1>2. /\ Cell(l, D, m, i) \in [Nat -> Int]
      /\ Column(l, D, m, m)[i] = SumTo(Cell(l, D, m, i), m)
  BY <1>1, CellInt
<1>3. ASSUME NEW k \in 0 .. m - 1 PROVE Cell(l, D, m, i)[k] = 0
  <2>1. k \in Nat /\ k < m /\ k + 1 \in 1 .. m
    BY <1>1
  <2>2. Cell(l, D, m, i)[k] = l[k + 1] * D[k + 1][i]
    BY <2>1 DEF Cell
  <2>3. D[k + 1][i] = 0 /\ l[k + 1] \in Int
    BY <1>1, <2>1
  <2>4. PICK x \in Int : x = l[k + 1]
    BY <2>3
  <2>5. x * 0 = 0
    OBVIOUS
  <2>6. QED
    BY <2>2, <2>3, <2>4, <2>5
<1>4. SumTo(Cell(l, D, m, i), m) = 0
  BY <1>1, <1>2, <1>3, SumOfZeros
<1>5. QED
  BY <1>2, <1>4

\* strauss_wnaf starts with the whole sum still to come: above the
\* highest last bit there is no digit.
LEMMA StraussStarts ==
    ASSUME NEW name, NEW ts, Asked(ts), NEW g \in Scalars \cup {NoScalar},
           StartStrauss(name, ts, g)
    PROVE  StraussRight(ts, g, digits', table', bigZ', pos', r')
<1> DEFINE used == Used(ts)
           t == StraussTables(used)
           W == [k \in DOMAIN used |-> EcmultWnaf(used[k].n, WINDOW_A)]
           gw == GDigits(g)
           m == Len(used)
           digs == StraussDigits(used, g)
           B_ == CHOOSE d : d = [k \in 0 .. m |-> IF k = 0 THEN LastBit(gw)
                                                  ELSE Max2(LastBit(W[k]), d[k - 1])]
           Z == IF used = << >> THEN 1 ELSE Last(t.prej).z
<1>1. /\ digits' = digs /\ table' = Globalz(t) /\ bigZ' = Z /\ pos' = B_[m] - 1
      /\ r' = GejSetInfinity
  BY Zenon DEF StartStrauss, StraussDigits, GDigits
<1>2. UsedOK(used, Len(ts))
  BY UsedAsked DEF Asked
<1>3. Slices(Globalz(t), used, Z)
  BY <1>2, SlicesRight
<1>4. m \in Nat /\ DOMAIN used = 1 .. m
  BY <1>2 DEF UsedOK
<1>5. /\ \A k \in 1 .. m : digs[k] = EcmultWnaf(used[k].n, WINDOW_A) /\ Recoded(digs[k], WINDOW_A, used[k].n)
      /\ digs[m + 1] = gw
  BY <1>2, StraussDigitsRight
<1>6. \A k \in 1 .. m : W[k] = digs[k]
  BY <1>4, <1>5
<1>7. /\ \A i \in 0 .. Bits - 1 : gw[i] \in Int
      /\ \A k \in 1 .. m : \A i \in 0 .. Bits - 1 : W[k][i] \in Int
  BY <1>5, <1>6, GRecoded DEF Recoded
<1> HIDE DEF used, t, W, gw, digs, Z
<1>8. /\ LastBit(gw) \in 0 .. Bits /\ \A i \in LastBit(gw) .. Bits - 1 : gw[i] = 0
      /\ \A k \in 1 .. m : /\ LastBit(W[k]) \in 0 .. Bits
                           /\ \A i \in LastBit(W[k]) .. Bits - 1 : W[k][i] = 0
  <2>1. LastBit(gw) \in 0 .. Bits /\ \A i \in LastBit(gw) .. Bits - 1 : gw[i] = 0
    BY <1>7, LastBitRight
  <2>2. ASSUME NEW k \in 1 .. m
        PROVE  LastBit(W[k]) \in 0 .. Bits /\ \A i \in LastBit(W[k]) .. Bits - 1 : W[k][i] = 0
    <3>1. PICK w : w = W[k]
      OBVIOUS
    <3>2. \A i \in 0 .. Bits - 1 : w[i] \in Int
      BY <1>7, <3>1
    <3>3. LastBit(w) \in 0 .. Bits /\ \A i \in LastBit(w) .. Bits - 1 : w[i] = 0
      BY <3>2, LastBitRight
    <3>4. QED
      BY <3>1, <3>3
  <2>3. QED
    BY <2>1, <2>2
<1>9. B_[m] \in 0 .. Bits /\ LastBit(gw) <= B_[m] /\ \A k \in 1 .. m : LastBit(W[k]) <= B_[m]
  <2>1. PICK D : D = B_
    OBVIOUS
  <2>2. D = CHOOSE d : d = [k \in 0 .. m |-> IF k = 0 THEN LastBit(gw)
                                             ELSE Max2(LastBit(W[k]), d[k - 1])]
    BY <2>1
  <2> DEFINE last == [k \in 0 .. m |-> IF k = 0 THEN LastBit(gw) ELSE LastBit(W[k])]
  <2>3. last[0] = LastBit(gw) /\ \A k \in 1 .. m : last[k] = LastBit(W[k])
    BY <1>4
  <2>4. \A k \in 0 .. m : last[k] \in 0 .. Bits
    BY <1>4, <1>8
  <2> HIDE DEF last, B_, m
  <2>5. D[m] \in 0 .. Bits /\ \A k \in 0 .. m : last[k] <= D[m]
    BY <1>4, <2>2, <2>3, <2>4, Highest
  <2>6. 0 \in 0 .. m /\ \A k \in 1 .. m : k \in 0 .. m
    BY <1>4
  <2>7. QED
    BY <2>1, <2>3, <2>5, <2>6
<1>10. PICK b \in 0 .. Bits : b = B_[m]
  BY <1>9
<1> HIDE DEF B_
<1> DEFINE c == StraussColumn(used, digs)
<1>11. /\ Family(StraussLogs(used), digs, m + 1, Bits)
       /\ \A i \in 0 .. Bits - 1 : c[i] \in Int
  BY StraussTotal DEF used, digs
<1>12. ASSUME NEW i \in b .. Bits - 1 PROVE c[i] = 0
  <2>1. i \in 0 .. Bits - 1
    BY <1>10
  <2>2. ASSUME NEW k \in 1 .. m + 1 PROVE digs[k][i] = 0
    <3>1. CASE k = m + 1
      <4>1. LastBit(gw) \in 0 .. Bits /\ LastBit(gw) <= b
        BY <1>8, <1>9, <1>10
      <4>2. i \in LastBit(gw) .. Bits - 1
        BY <2>1, <4>1, Two
      <4>3. gw[i] = 0
        BY <1>8, <4>2
      <4>4. QED
        BY <1>5, <3>1, <4>3
    <3>2. CASE k # m + 1
      <4>1. k \in 1 .. m
        BY <1>4, <3>2
      <4>2. LastBit(W[k]) \in 0 .. Bits /\ LastBit(W[k]) <= b
        BY <1>8, <1>9, <1>10, <4>1
      <4>3. i \in LastBit(W[k]) .. Bits - 1
        BY <2>1, <4>2, Two
      <4>4. W[k][i] = 0
        BY <1>8, <4>1, <4>3
      <4>5. QED
        BY <1>6, <4>1, <4>4
    <3>3. QED
      BY <3>1, <3>2
  <2> HIDE DEF m
  <2>3. Column(StraussLogs(used), digs, m + 1, m + 1)[i] = 0
    BY <1>11, <2>1, <2>2, ColumnZero
  <2>4. QED
    BY <2>3 DEF StraussColumn, m
<1> HIDE DEF c
<1>13. Horner(0, c, 1, b, Low(c, 1, Bits))
  <2>1. Bits * 1 <= 2 * Bits + 1 /\ Bits \in Nat /\ 1 \in Nat
    BY Two
  <2>2. QED
    BY <1>11, <1>12, <2>1, HornerStart
<1>14. Z \in Field
  BY <1>3 DEF Slices
<1>15. Rep(Z, GejSetInfinity, 0)
  BY <1>14, RepNothing
<1>16. pos' + 1 = b /\ pos' \in Done .. Bits - 1
  BY <1>1, <1>10, Two DEF Done
<1>17. QED
  BY <1>1, <1>3, <1>13, <1>15, <1>16 DEF StraussRight, used, digs, c

\* Off the isomorphic curve.
LEMMA StraussEnds ==
    ASSUME alg \in {"ecmult", "strauss"}, pos = Done, Asked(terms), ng \in Scalars \cup {NoScalar},
           StraussRight(terms, ng, digits, table, bigZ, pos, r)
    PROVE  Affine(Finish) = Expected
<1> DEFINE used == Used(terms)
           c == StraussColumn(used, digits)
<1>1. digits = StraussDigits(used, ng) /\ Slices(table, used, bigZ)
  BY DEF StraussRight
<1>2. PICK x \in Int : Rep(bigZ, r, x) /\ Horner(x, c, 1, pos + 1, Low(c, 1, Bits))
  BY DEF StraussRight
<1>3. Low(c, 1, Bits) \in Int /\ Cong(N, Low(c, 1, Bits), Wanted(ng, terms))
  BY <1>1, StraussTotal
<1> HIDE DEF c, used
<1>4. x = Low(c, 1, Bits)
  <2>1. pos + 1 = 0 /\ 1 \in Nat
    BY DEF Done
  <2>2. Horner(x, c, 1, 0, Low(c, 1, Bits))
    BY <1>2, <2>1
  <2>3. QED
    BY <2>1, <2>2, HornerEnd
<1>5. Rep(1, Finish, x)
  <2>1. CASE r.infinity
    <3>1. Finish = r
      BY <2>1 DEF Finish
    <3>2. Cong(N, x, 0) /\ r \in Gejs
      BY <1>2, <2>1, RepOfInfinity DEF Rep
    <3>3. QED
      BY <2>1, <3>1, <3>2, Ones, RepInfinity
  <2>2. CASE ~r.infinity
    <3>1. Finish = On(bigZ, r)
      BY <2>2 DEF Finish, On
    <3>2. Stands(On(bigZ, r), TimesOf(x))
      BY <1>2 DEF Rep
    <3>3. QED
      BY <3>1, <3>2, RepIsStands
  <2>3. QED
    BY <2>1, <2>2
<1>6. terms \in Seq(TermRecords) /\ AllOK(terms) /\ Cong(N, x, Wanted(ng, terms))
  BY <1>3, <1>4 DEF Asked
<1>7. QED
  BY <1>5, <1>6, ProductIs

\* The accumulator doubled and the entries of the first m points added.
StraussAdded(m) ==
    LET Added[k \in 0 .. m] ==
            IF k = 0 THEN GejDouble(r)
            ELSE IF digits[k][pos] = 0 THEN Added[k - 1]
            ELSE GejAddGeVar(Added[k - 1], TableGet(TableOf(k), digits[k][pos]))
    IN  Added[m]

\* What a position needs.
PositionReady(used, m, l, Z) ==
    /\ m \in Nat /\ m = Len(used) /\ Slices(table, used, Z)
    /\ Family(l, digits, m + 1, Bits) /\ pos \in 0 .. Bits - 1
    /\ \A k \in 1 .. m : /\ Fit(digits[k][pos], WINDOW_A)
                         /\ l[k] = LogOf(used[k].a) /\ l[k] \in Int

LEMMA StraussAddedRight ==
    ASSUME NEW used, NEW m, NEW l, NEW Z, PositionReady(used, m, l, Z),
           NEW x \in Int, Rep(Z, r, x)
    PROVE  LET f == Cell(l, digits, m + 1, pos)
           IN  /\ SumTo(f, m) \in Int /\ Rep(Z, StraussAdded(m), 2 * x + SumTo(f, m))
<1> DEFINE f == Cell(l, digits, m + 1, pos)
           Next1(k, a) == IF digits[k][pos] = 0 THEN a
                          ELSE GejAddGeVar(a, TableGet(TableOf(k), digits[k][pos]))
           D == CHOOSE d : d = [k \in 0 .. m |-> IF k = 0 THEN GejDouble(r) ELSE Next1(k, d[k - 1])]
           A == [k \in Nat |-> {a \in Gejs : Rep(Z, a, 2 * x + SumTo(f, k))}]
<1>0. m \in Nat /\ Z \in Field /\ pos \in 0 .. Bits - 1 /\ Family(l, digits, m + 1, Bits)
  BY DEF PositionReady, Slices
<1>1. StraussAdded(m) = D[m]
  BY DEF StraussAdded
<1>2. f \in [Nat -> Int]
  BY <1>0, CellInt
<1> HIDE DEF D, Next1
<1>3. GejDouble(r) \in A[0]
  <2>1. SumTo(f, 0) = 0
    BY <1>2, SumZero
  <2>2. Rep(Z, GejDouble(r), 2 * x)
    BY <1>0, RepDouble
  <2>3. 2 * x + 0 = 2 * x
    OBVIOUS
  <2>4. GejDouble(r) \in Gejs /\ Rep(Z, GejDouble(r), 2 * x + SumTo(f, 0))
    BY <2>1, <2>2, <2>3 DEF Rep
  <2> HIDE DEF f
  <2>5. QED
    BY <2>4
<1>4. ASSUME NEW i \in 0 .. m - 1, NEW a \in A[i] PROVE Next1(i + 1, a) \in A[i + 1]
  <2>1. i \in Nat /\ i + 1 \in Nat /\ i + 1 \in 1 .. m /\ i < m + 1
    BY <1>0
  <2>2. PICK y \in Int, v \in Int : y = 2 * x + v /\ v = SumTo(f, i)
    <3>1. SumTo(f, i) \in Int
      BY <1>2, <2>1, SumInt
    <3>2. QED
      BY <3>1
  <2>3. Rep(Z, a, y) /\ a \in Gejs
    BY <2>1, <2>2
  <2>4. PICK d : d = digits[i + 1][pos]
    OBVIOUS
  <2>5. PICK k \in Int : k = l[i + 1] /\ k = LogOf(used[i + 1].a)
    BY <2>1 DEF PositionReady
  <2>6. Fit(d, WINDOW_A) /\ d \in Int
    BY <2>1, <2>4 DEF PositionReady, Fit
  <2>7. f[i] = k * d
    BY <2>1, <2>4, <2>5 DEF Cell
  <2>8. PICK e \in Int : e = k * d /\ e = d * k
    <3>1. k * d \in Int /\ k * d = d * k
      BY <2>6, SMT
    <3>2. QED
      BY <3>1
  <2>9. SumTo(f, i + 1) = v + e
    <3>1. SumTo(f, i + 1) = SumTo(f, i) + f[i]
      BY <1>2, <2>1, SumStep
    <3>2. QED
      BY <2>2, <2>7, <2>8, <3>1
  <2>10. Rep(Z, Next1(i + 1, a), y + e)
    <3>1. CASE d = 0
      <4>1. e = 0 /\ y + e = y
        BY <2>8, <3>1
      <4>2. Next1(i + 1, a) = a
        BY <2>4, <3>1 DEF Next1
      <4>3. QED
        BY <2>3, <4>1, <4>2
    <3>2. CASE d # 0
      <4>1. PICK tab : tab = TableOf(i + 1)
        OBVIOUS
      <4>2. Serves(tab, Z, k, TableSize(WINDOW_A))
        BY <2>1, <2>5, <4>1 DEF PositionReady, Slices, TableOf, SliceOf
      <4>3. WINDOW_A \in 3 .. Bits
        BY WindowAssumption
      <4>4. Entry(Z, TableGet(tab, d), e)
        BY <1>0, <2>6, <2>8, <3>2, <4>2, <4>3, TableGetRight
      <4>5. Next1(i + 1, a) = GejAddGeVar(a, TableGet(tab, d))
        BY <2>4, <3>2, <4>1 DEF Next1
      <4>6. QED
        BY <1>0, <2>3, <4>4, <4>5, RepAddGeVar
    <3>3. QED
      BY <3>1, <3>2
  <2>11. y + e = 2 * x + SumTo(f, i + 1)
    BY <2>2, <2>9
  <2>12. Rep(Z, Next1(i + 1, a), 2 * x + SumTo(f, i + 1)) /\ Next1(i + 1, a) \in Gejs
    BY <2>10, <2>11 DEF Rep
  <2> HIDE DEF f
  <2>13. QED
    BY <2>1, <2>12
<1> HIDE DEF A, f
<1>5. D = [k \in 0 .. m |-> IF k = 0 THEN GejDouble(r) ELSE Next1(k, D[k - 1])]
  <2> DEFINE step == [i \in 0 .. m - 1 |-> [a \in A[i] |-> Next1(i + 1, a)]]
  <2>1. \A i \in 0 .. m - 1 : \A a \in A[i] : step[i][a] \in A[i + 1]
    BY <1>4
  <2>2. \A i \in 0 .. m - 1 : \A a \in A[i] : step[i][a] = Next1(i + 1, a)
    OBVIOUS
  <2> HIDE DEF step
  <2>3. PICK g : Walks(g, step, A, GejDouble(r), m)
    <3>1. Closed(step, A, m)
      BY <2>1 DEF Closed
    <3>2. QED
      BY <1>0, <1>3, <3>1, Iterated
  <2>4. /\ g = [i \in 0 .. m |-> g[i]] /\ g[0] = GejDouble(r)
        /\ \A i \in 0 .. m : g[i] \in A[i]
        /\ \A i \in 0 .. m - 1 : g[i + 1] = step[i][g[i]]
    BY <2>3 DEF Walks
  <2>5. ASSUME NEW i \in 0 .. m, i # 0 PROVE g[i] = Next1(i, g[i - 1])
    <3>1. i - 1 \in 0 .. m - 1 /\ (i - 1) + 1 = i /\ i - 1 \in 0 .. m
      BY <1>0, <2>5
    <3>2. g[(i - 1) + 1] = step[i - 1][g[i - 1]] /\ g[i - 1] \in A[i - 1]
      BY <2>4, <3>1
    <3>3. step[i - 1][g[i - 1]] = Next1((i - 1) + 1, g[i - 1])
      BY <2>2, <3>1, <3>2
    <3>4. QED
      BY <3>1, <3>2, <3>3
  <2>6. \A i \in 0 .. m : g[i] = IF i = 0 THEN GejDouble(r) ELSE Next1(i, g[i - 1])
    BY <2>4, <2>5
  <2>7. g = [k \in 0 .. m |-> IF k = 0 THEN GejDouble(r) ELSE Next1(k, g[k - 1])]
    BY <2>4, <2>6
  <2>8. QED
    BY <2>7 DEF D
<1>6. D[0] \in A[0]
  <2>1. PICK X : X = D
    OBVIOUS
  <2>2. X = [k \in 0 .. m |-> IF k = 0 THEN GejDouble(r) ELSE Next1(k, D[k - 1])]
    BY <1>5, <2>1
  <2>3. 0 \in 0 .. m
    BY <1>0
  <2>4. X[0] = GejDouble(r)
    BY <2>2, <2>3
  <2>5. QED
    BY <1>3, <2>1, <2>4
<1>7. ASSUME NEW i \in 0 .. m - 1, D[i] \in A[i] PROVE D[i + 1] \in A[i + 1]
  <2>1. i + 1 \in 0 .. m /\ i + 1 # 0 /\ (i + 1) - 1 = i
    BY <1>0
  <2>2. D[i + 1] = Next1(i + 1, D[i])
    BY <1>5, <2>1
  <2>3. QED
    BY <1>4, <1>7, <2>2
<1>8. D[m] \in A[m]
  <2>1. \A i \in 0 .. m : D[i] \in A[i]
    BY <1>0, <1>6, <1>7, Kept
  <2>2. QED
    BY <1>0, <2>1
<1>9. Rep(Z, D[m], 2 * x + SumTo(f, m))
  <2>1. A[m] = {a \in Gejs : Rep(Z, a, 2 * x + SumTo(f, m))}
    BY <1>0 DEF A
  <2>2. QED
    BY <1>8, <2>1
<1>10. SumTo(f, m) \in Int
  BY <1>0, <1>2, SumInt
<1>11. QED
  BY <1>1, <1>9, <1>10 DEF f

\* Every position doubles and adds what its digits name.
LEMMA StraussSteps ==
    ASSUME Asked(terms), ng \in Scalars \cup {NoScalar},
           StraussRight(terms, ng, digits, table, bigZ, pos, r), StraussStep
    PROVE  StraussRight(terms, ng, digits, table, bigZ, pos', r')
<1> DEFINE used == Used(terms)
           m == Len(used)
           l == StraussLogs(used)
           c == StraussColumn(used, digits)
           gd == digits[m + 1][pos]
           f == Cell(l, digits, m + 1, pos)
<1>1. digits = StraussDigits(used, ng) /\ Slices(table, used, bigZ) /\ pos \in Done .. Bits - 1
  BY DEF StraussRight
<1>2. PICK x \in Int : Rep(bigZ, r, x) /\ Horner(x, c, 1, pos + 1, Low(c, 1, Bits))
  BY DEF StraussRight
<1>3. UsedOK(used, Len(terms))
  BY UsedAsked DEF Asked
<1>4. m \in Nat /\ AllOK(used) /\ DOMAIN used = 1 .. m
  BY <1>3 DEF UsedOK
<1>5. /\ Len(digits) = m + 1
      /\ \A k \in 1 .. m : Recoded(digits[k], WINDOW_A, used[k].n)
      /\ digits[m + 1] = GDigits(ng)
  BY <1>1, <1>3, StraussDigitsRight
<1>6. /\ pos >= 0 /\ pos' = pos - 1
      /\ r' = IF gd = 0 THEN StraussAdded(m)
              ELSE GejAddZinvVar(StraussAdded(m), TableGet(PreG, gd), bigZ)
  <2>1. Len(digits) - 1 = m
    BY <1>4, <1>5
  <2>2. /\ pos >= 0 /\ pos' = pos - 1
        /\ r' = IF digits[(Len(digits) - 1) + 1][pos] = 0 THEN StraussAdded(Len(digits) - 1)
                ELSE GejAddZinvVar(StraussAdded(Len(digits) - 1),
                                   TableGet(PreG, digits[(Len(digits) - 1) + 1][pos]), bigZ)
    BY Zenon DEF StraussStep, StraussAdded
  <2> HIDE DEF m
  <2>3. QED
    BY <2>1, <2>2
<1>7. pos \in 0 .. Bits - 1 /\ pos \in Nat
  BY <1>1, <1>6, Two DEF Done
<1>8. Family(l, digits, m + 1, Bits) /\ \A i \in 0 .. Bits - 1 : c[i] \in Int
  BY <1>1, StraussTotal
<1>9. PositionReady(used, m, l, bigZ)
  <2>1. ASSUME NEW k \in 1 .. m
        PROVE  /\ Fit(digits[k][pos], WINDOW_A) /\ l[k] = LogOf(used[k].a) /\ l[k] \in Int
    <3>1. l[k] = LogOf(used[k].a)
      <4>1. k \in 1 .. m + 1 /\ k <= m
        BY <1>4
      <4>2. QED
        BY <4>1 DEF StraussLogs
    <3>2. LogOf(used[k].a) \in Int
      BY <1>4 DEF AllOK, TermOK
    <3>3. Fit(digits[k][pos], WINDOW_A)
      BY <1>5, <1>7 DEF Recoded
    <3>4. QED
      BY <3>1, <3>2, <3>3
  <2> HIDE DEF l, m, used
  <2>2. m = Len(used)
    BY DEF m
  <2>3. QED
    BY <1>1, <1>4, <1>7, <1>8, <2>1, <2>2 DEF PositionReady
<1>10. l[m + 1] = 1
  BY <1>4 DEF StraussLogs
<1>11. c = Column(l, digits, m + 1, m + 1)
  BY DEF StraussColumn
<1>12. PICK Z \in Field : Z = bigZ /\ Z # 0
  BY <1>1 DEF Slices
<1> HIDE DEF l, m, used, c
<1>13. PICK u \in Int : u = SumTo(f, m) /\ Rep(Z, StraussAdded(m), 2 * x + u)
  <2>1. SumTo(f, m) \in Int /\ Rep(bigZ, StraussAdded(m), 2 * x + SumTo(f, m))
    BY <1>2, <1>9, StraussAddedRight
  <2>2. QED
    BY <1>12, <2>1
<1>14. f \in [Nat -> Int] /\ SumTo(f, m + 1) = c[pos]
  <2>1. m + 1 \in Nat
    BY <1>4
  <2>2. QED
    BY <1>7, <1>8, <1>11, <2>1, CellInt
<1>15. gd \in Int /\ Fit(gd, WINDOW_G)
  BY <1>5, <1>7, GRecoded DEF Recoded
<1>16. f[m] = gd
  <2>1. f[m] = l[m + 1] * digits[m + 1][pos]
    BY <1>4 DEF Cell
  <2>2. 1 * gd = gd
    BY <1>15
  <2>3. QED
    BY <1>10, <2>1, <2>2
<1>17. c[pos] = u + gd
  <2>1. SumTo(f, m + 1) = SumTo(f, m) + f[m]
    BY <1>4, <1>14, SumStep
  <2>2. QED
    BY <1>13, <1>14, <1>16, <2>1
<1> HIDE DEF f
<1>18. PICK y \in Int, d \in Int : y = 2 * x + u /\ d = gd
  BY <1>13, <1>15
<1>18a. PICK a : a = StraussAdded(m)
  OBVIOUS
<1> HIDE DEF gd
<1>19. Rep(Z, r', y + d)
  <2>1. Rep(Z, a, y)
    BY <1>13, <1>18, <1>18a
  <2>2. CASE d = 0
    <3>1. r' = a /\ y + d = y
      BY <1>6, <1>18, <1>18a, <2>2
    <3>2. QED
      BY <2>1, <3>1
  <2>3. CASE d # 0
    <3>1. TableGet(PreG, d) = ToGe(TimesOf(d)) /\ TimesOf(d) # Infinity
      BY <1>15, <1>18, <2>3, PreGRight
    <3>2. r' = GejAddZinvVar(a, TableGet(PreG, d), Z)
      BY <1>6, <1>12, <1>18, <1>18a, <2>3
    <3>3. r' = GejAddZinvVar(a, ToGe(TimesOf(d)), Z)
      BY <3>1, <3>2
    <3>4. QED
      BY <1>12, <2>1, <3>1, <3>3, RepAddZinvVar
  <2>4. QED
    BY <2>2, <2>3
<1>20. y + d = 2 * x + c[pos] /\ y + d \in Int
  BY <1>13, <1>17, <1>18
<1>21. Horner(y + d, c, 1, pos, Low(c, 1, Bits))
  <2>1. Horner(2^1 * x + c[pos], c, 1, pos, Low(c, 1, Bits))
    <3>1. 1 \in Nat
      OBVIOUS
    <3>2. QED
      BY <1>2, <1>7, <3>1, HornerStep
  <2>2. 2^1 * x + c[pos] = y + d
    BY <1>20, Two
  <2>3. QED
    BY <2>1, <2>2
<1>22. pos' + 1 = pos /\ pos' \in Done .. Bits - 1
  <2>1. pos' = pos - 1
    BY <1>6
  <2>2. Bits \in Nat
    BY Two
  <2>3. QED
    BY <1>7, <2>1, <2>2 DEF Done
<1>23. \E v \in Int : Rep(bigZ, r', v) /\ Horner(v, c, 1, pos' + 1, Low(c, 1, Bits))
  BY <1>12, <1>19, <1>20, <1>21, <1>22
<1>24. QED
  BY <1>1, <1>22, <1>23 DEF StraussRight, used, c

---------------------------------------------------------------------------
(* Every call, from its start to its product.                              *)

\* What is true of a call between two digits, whichever algorithm it runs.
Idle ==
    /\ terms = << >> /\ ng = NoScalar /\ bigZ = 1
    /\ pos = Done /\ r = GejSetInfinity

Working ==
    /\ Asked(terms) /\ ng \in Scalars \cup {NoScalar}
    /\ CASE alg \in {"ecmult", "strauss"} -> StraussRight(terms, ng, digits, table, bigZ, pos, r)
         [] alg = "pippenger" -> PippengerRight(terms, ng, digits, table, pos, r)
         [] alg = "const" -> ng = NoScalar /\ ConstRight(terms, digits, table, bigZ, pos, r)
         [] alg = "gen" -> ng = NoScalar /\ GenRight(terms, digits, pos, r)
         [] OTHER -> FALSE

MultInv == IF alg = "none" THEN Idle ELSE Working

LEMMA MultInvStrauss ==
    ASSUME MultInv, Ecmult \/ StraussBatch
    PROVE  MultInv'
<1>1. PICK name \in {"ecmult", "strauss"}, g \in GScalars :
         \E ts : Asked(ts) /\ StartStrauss(name, ts, g)
  <2>1. CASE Ecmult
    <3>1. PICK n \in Scalars, t \in Terms, g \in GScalars \ {NoScalar} :
             StartStrauss("ecmult", << [n |-> n, a |-> ToGej(t.p, t.z)] >>, g)
      BY <2>1 DEF Ecmult
    <3>2. Asked(<< [n |-> n, a |-> ToGej(t.p, t.z)] >>)
      BY InputTerm, AskedOne
    <3>3. QED
      BY <3>1, <3>2
  <2>2. CASE StraussBatch
    <3>1. PICK ts \in Batches, g \in GScalars : StartStrauss("strauss", ts, g)
      BY <2>2 DEF StraussBatch
    <3>2. QED
      BY <3>1, BatchAsked
  <2>3. QED
    BY <2>1, <2>2
<1>2. PICK ts : Asked(ts) /\ StartStrauss(name, ts, g)
  BY <1>1
<1>3. g \in Scalars \cup {NoScalar}
  BY InputAssumption
<1>4. StraussRight(ts, g, digits', table', bigZ', pos', r')
  BY <1>2, <1>3, StraussStarts
<1>5. alg' = name /\ terms' = ts /\ ng' = g
  BY <1>2 DEF StartStrauss
<1>6. QED
  BY <1>2, <1>3, <1>4, <1>5 DEF MultInv, Working

LEMMA MultInvPippenger ==
    ASSUME MultInv, PippengerBatch
    PROVE  MultInv'
<1>1. PICK ts \in Batches, g \in GScalars :
         /\ alg' = "pippenger" /\ terms' = ts /\ ng' = g
         /\ digits' = PippengerDigits(Used(All(ts, g)), BucketWindow(Len(ts)))
         /\ table' = [k \in DOMAIN Used(All(ts, g)) |-> Used(All(ts, g))[k].a]
         /\ pos' = IF Used(All(ts, g)) = << >> THEN Done
                   ELSE WnafSize(BucketWindow(Len(ts)) + 1) - 1
  BY DEF PippengerBatch, All, PippengerDigits
<1>2. r' = GejSetInfinity
  BY DEF PippengerBatch, MultInv, Idle
<1>3. Asked(ts) /\ g \in Scalars \cup {NoScalar}
  BY BatchAsked, InputAssumption
<1>4. PippengerRight(ts, g, digits', table', pos', r')
  BY <1>1, <1>2, <1>3, PippengerStarts
<1>5. QED
  BY <1>1, <1>3, <1>4 DEF MultInv, Working

LEMMA MultInvConst ==
    ASSUME MultInv, Const
    PROVE  MultInv'
<1>1. PICK n \in Scalars \ {0}, t \in Terms :
         LET a == ToGej(t.p, 1)
             m == OddMultiples(TableSize(WINDOW_A), a)
             wnaf == WnafConst(n, WINDOW_A - 1)
             top == WnafSize(WINDOW_A - 1)
         IN  /\ t.p # Infinity
             /\ terms' = << [n |-> n, a |-> a] >>
             /\ digits' = << wnaf.digit >>
             /\ table' = Globalz(m)
             /\ bigZ' = Last(m.prej).z
             /\ r' = GejSetGe(TableGet(Globalz(m), wnaf.digit[top]))
             /\ pos' = top - 1
  BY DEF Const
<1>2. alg' = "const" /\ ng' = NoScalar
  BY DEF Const, MultInv, Idle
<1>3. Asked(terms')
  BY <1>1, InputTerm, AskedOne
<1>4. ConstRight(terms', digits', table', bigZ', pos', r')
  BY <1>1, ConstStarts
<1>5. QED
  BY <1>2, <1>3, <1>4 DEF MultInv, Working

LEMMA MultInvGen ==
    ASSUME MultInv, Gen
    PROVE  MultInv'
<1>1. PICK n \in Scalars, b \in Blinds, t \in Terms :
         /\ terms' = << [n |-> n, a |-> GejSetGe(ToGe(G))] >>
         /\ digits' = << GenDigits((n + b) % N) >>
         /\ r' = ToGej(Times[ScalarNeg(b)], t.z)
  BY DEF Gen, GenDigits
<1>2. alg' = "gen" /\ ng' = NoScalar /\ pos' = 0
  BY DEF Gen, MultInv, Idle
<1>3. b \in Scalars /\ t.z \in Field /\ t.z # 0
  <2>1. t.z \in 1 .. P - 1 /\ b \in Scalars
    BY InputAssumption
  <2>2. QED
    BY <2>1, Prime
<1>4. Asked(terms')
  BY <1>1, GeneratorTerm, AskedOne
<1>5. GenRight(terms', digits', pos', r')
  BY <1>1, <1>2, <1>3, GenStarts
<1>6. QED
  BY <1>2, <1>4, <1>5 DEF MultInv, Working

LEMMA MultInvStep ==
    ASSUME MultInv, StraussStep \/ PippengerStep \/ ConstStep \/ GenStep
    PROVE  MultInv'
<1>1. CASE StraussStep
  <2>1. UNCHANGED <<alg, terms, ng, digits, table, bigZ>> /\ alg \in {"ecmult", "strauss"}
    BY <1>1 DEF StraussStep
  <2>2. /\ Asked(terms) /\ ng \in Scalars \cup {NoScalar}
        /\ StraussRight(terms, ng, digits, table, bigZ, pos, r)
    BY <2>1 DEF MultInv, Working
  <2>3. StraussRight(terms, ng, digits, table, bigZ, pos', r')
    BY <1>1, <2>2, StraussSteps
  <2>4. QED
    BY <2>1, <2>2, <2>3 DEF MultInv, Working
<1>2. CASE PippengerStep
  <2>1. UNCHANGED <<alg, terms, ng, digits, table, bigZ>> /\ alg = "pippenger"
    BY <1>2 DEF PippengerStep
  <2>2. /\ Asked(terms) /\ ng \in Scalars \cup {NoScalar}
        /\ PippengerRight(terms, ng, digits, table, pos, r)
    BY <2>1 DEF MultInv, Working
  <2>3. PippengerRight(terms, ng, digits, table, pos', r')
    BY <1>2, <2>2, PippengerSteps
  <2>4. QED
    BY <2>1, <2>2, <2>3 DEF MultInv, Working
<1>3. CASE ConstStep
  <2>1. UNCHANGED <<alg, terms, ng, digits, table, bigZ>> /\ alg = "const"
    BY <1>3 DEF ConstStep
  <2>2. /\ Asked(terms) /\ ng = NoScalar
        /\ ConstRight(terms, digits, table, bigZ, pos, r)
    BY <2>1 DEF MultInv, Working
  <2>3. ConstRight(terms, digits, table, bigZ, pos', r')
    BY <1>3, <2>2, ConstSteps
  <2>4. QED
    BY <2>1, <2>2, <2>3 DEF MultInv, Working
<1>4. CASE GenStep
  <2>1. UNCHANGED <<alg, terms, ng, digits, table, bigZ>> /\ alg = "gen"
    BY <1>4 DEF GenStep
  <2>2. Asked(terms) /\ ng = NoScalar /\ GenRight(terms, digits, pos, r)
    BY <2>1 DEF MultInv, Working
  <2>3. GenRight(terms, digits, pos', r')
    BY <1>4, <2>2, GenSteps
  <2>4. QED
    BY <2>1, <2>2, <2>3 DEF MultInv, Working
<1>5. QED
  BY <1>1, <1>2, <1>3, <1>4

\* Between two digits, whichever the algorithm: the accumulator and the
\* digits still to come add up to what the call is for.
THEOREM MultInvTheorem == Spec => []MultInv
<1>1. Init => MultInv
  BY DEF Init, MultInv, Idle
<1>2. MultInv /\ [Next]_vars => MultInv'
  <2>1. SUFFICES ASSUME MultInv, [Next]_vars PROVE MultInv'
    OBVIOUS
  <2>2. CASE Ecmult \/ StraussBatch
    BY <2>1, <2>2, MultInvStrauss
  <2>3. CASE PippengerBatch
    BY <2>1, <2>3, MultInvPippenger
  <2>4. CASE Const
    BY <2>1, <2>4, MultInvConst
  <2>5. CASE Gen
    BY <2>1, <2>5, MultInvGen
  <2>6. CASE StraussStep \/ PippengerStep \/ ConstStep \/ GenStep
    BY <2>1, <2>6, MultInvStep
  <2>7. CASE Return
    BY <2>7 DEF Return, MultInv, Idle
  <2>8. CASE UNCHANGED vars
    <3>1. UNCHANGED <<alg, terms, ng, digits, table, bigZ, pos, r>>
      BY <2>8 DEF vars
    <3>2. QED
      BY <2>1, <3>1 DEF MultInv, Idle, Working
  <2>9. QED
    BY <2>1, <2>2, <2>3, <2>4, <2>5, <2>6, <2>7, <2>8 DEF Next
<1>3. QED
  BY <1>1, <1>2, PTL DEF Spec

\* Verification, recovery, tweaks, ECDH, both batches and ecmult_gen:
\* for every curve, window, scalar and point the result is the product.
THEOREM ProductTheorem == Spec => []Product
<1>1. MultInv => Product
  <2>1. SUFFICES ASSUME MultInv, alg # "none", pos = Done PROVE Affine(Finish) = Expected
    BY DEF Product
  <2>2. Working
    BY <2>1 DEF MultInv
  <2>3. Asked(terms) /\ ng \in Scalars \cup {NoScalar}
    BY <2>2 DEF Working
  <2>4. CASE alg \in {"ecmult", "strauss"}
    BY <2>1, <2>2, <2>3, <2>4, StraussEnds DEF Working
  <2>5. CASE alg = "pippenger"
    BY <2>1, <2>2, <2>3, <2>5, PippengerEnds DEF Working
  <2>6. CASE alg = "const"
    BY <2>1, <2>2, <2>3, <2>6, ConstEnds DEF Working
  <2>7. CASE alg = "gen"
    BY <2>1, <2>2, <2>3, <2>7, GenEnds DEF Working
  <2>8. QED
    BY <2>2, <2>4, <2>5, <2>6, <2>7 DEF Working
<1>2. QED
  BY <1>1, MultInvTheorem, PTL
=============================================================================
