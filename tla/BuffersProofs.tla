---------------------------- MODULE BuffersProofs ----------------------------
(***************************************************************************)
(* What was written into a buffer is read from it.                         *)
(*                                                                         *)
(* A byte is the sum of its bits, and every shift and mask moves or drops  *)
(* some of them; so the writing loop puts the bits of a value where they   *)
(* belong and leaves the others alone, the reading loop takes them from    *)
(* there, and the invariant says of every value written at which bit it    *)
(* lies. Of a byte buffer it says so of every item, whose image            *)
(* ByteBufferProofs describes.                                             *)
(***************************************************************************)
EXTENDS BuffersMC, ByteBufferProofs

-----------------------------------------------------------------------------
(* A byte and its bits.                                                    *)

Octet == 0..255
Places == 0..7
Bit(x, k) == (x \div 2^k) % 2

LEMMA Powers ==
  /\ 2^0 = 1 /\ 2^1 = 2 /\ 2^2 = 4 /\ 2^3 = 8 /\ 2^4 = 16 /\ 2^5 = 32 /\ 2^6 = 64 /\ 2^7 = 128
  /\ 2^8 = 256
  BY SMT

\* The byte with these bits.
Binary == [Places -> {0, 1}]
Sum8(f) == f[0] + 2 * f[1] + 4 * f[2] + 8 * f[3] + 16 * f[4] + 32 * f[5] + 64 * f[6] + 128 * f[7]
Of(x) == [k \in Places |-> Bit(x, k)]

LEMMA EachPlace ==
  ASSUME NEW k \in Places
  PROVE  k = 0 \/ k = 1 \/ k = 2 \/ k = 3 \/ k = 4 \/ k = 5 \/ k = 6 \/ k = 7
  BY DEF Places

LEMMA SumOf ==
  ASSUME NEW x \in Octet
  PROVE  Of(x) \in Binary /\ Sum8(Of(x)) = x
<1>1. \A k \in Places : Bit(x, k) \in {0, 1} /\ Of(x)[k] = Bit(x, k)
  <2> SUFFICES ASSUME NEW k \in Places PROVE Bit(x, k) \in {0, 1}
    BY DEF Of
  <2>1. 2^k \in Nat \ {0}
    <3>1. CASE k = 0
      BY <3>1, Powers
    <3>2. CASE k = 1
      BY <3>2, Powers
    <3>3. CASE k = 2
      BY <3>3, Powers
    <3>4. CASE k = 3
      BY <3>4, Powers
    <3>5. CASE k = 4
      BY <3>5, Powers
    <3>6. CASE k = 5
      BY <3>6, Powers
    <3>7. CASE k = 6
      BY <3>7, Powers
    <3>8. CASE k = 7
      BY <3>8, Powers
    <3> QED
      BY <3>1, <3>2, <3>3, <3>4, <3>5, <3>6, <3>7, <3>8, EachPlace
  <2>2. x \div 2^k \in Nat
    BY <2>1 DEF Octet
  <2> QED
    BY <2>2 DEF Bit
<1>2. /\ Bit(x, 0) = x % 2 /\ Bit(x, 1) = (x \div 2) % 2 /\ Bit(x, 2) = (x \div 4) % 2
      /\ Bit(x, 3) = (x \div 8) % 2 /\ Bit(x, 4) = (x \div 16) % 2 /\ Bit(x, 5) = (x \div 32) % 2
      /\ Bit(x, 6) = (x \div 64) % 2 /\ Bit(x, 7) = (x \div 128) % 2
  BY Powers DEF Bit, Octet
<1>3. Of(x) \in Binary
  BY <1>1 DEF Of, Binary
<1>4. /\ Of(x)[0] = x % 2 /\ Of(x)[1] = (x \div 2) % 2 /\ Of(x)[2] = (x \div 4) % 2
      /\ Of(x)[3] = (x \div 8) % 2 /\ Of(x)[4] = (x \div 16) % 2 /\ Of(x)[5] = (x \div 32) % 2
      /\ Of(x)[6] = (x \div 64) % 2 /\ Of(x)[7] = (x \div 128) % 2
  BY <1>1, <1>2 DEF Places
<1>5. x = (x % 2) + 2 * ((x \div 2) % 2) + 4 * ((x \div 4) % 2) + 8 * ((x \div 8) % 2)
          + 16 * ((x \div 16) % 2) + 32 * ((x \div 32) % 2) + 64 * ((x \div 64) % 2)
          + 128 * ((x \div 128) % 2)
  BY DEF Octet
<1> QED
  BY <1>3, <1>4, <1>5 DEF Sum8

LEMMA BinaryIs ==
  ASSUME NEW f \in Binary
  PROVE  /\ \A k \in Places : f[k] = 0 \/ f[k] = 1
         /\ f[0] \in Int /\ f[1] \in Int /\ f[2] \in Int /\ f[3] \in Int
         /\ f[4] \in Int /\ f[5] \in Int /\ f[6] \in Int /\ f[7] \in Int
         /\ f[0] \in 0..1 /\ f[1] \in 0..1 /\ f[2] \in 0..1 /\ f[3] \in 0..1
         /\ f[4] \in 0..1 /\ f[5] \in 0..1 /\ f[6] \in 0..1 /\ f[7] \in 0..1
  BY DEF Binary, Places

LEMMA BitOfSum ==
  ASSUME NEW f \in Binary
  PROVE  Sum8(f) \in Octet /\ \A k \in Places : Bit(Sum8(f), k) = f[k]
<1> DEFINE x == Sum8(f)
           a == f[0]  b == f[1]  c == f[2]  d == f[3]
           e == f[4]  g == f[5]  h == f[6]  i == f[7]
<1>1. /\ a \in 0..1 /\ b \in 0..1 /\ c \in 0..1 /\ d \in 0..1
      /\ e \in 0..1 /\ g \in 0..1 /\ h \in 0..1 /\ i \in 0..1
      /\ x = a + 2 * b + 4 * c + 8 * d + 16 * e + 32 * g + 64 * h + 128 * i
  BY BinaryIs DEF Sum8
<1> HIDE DEF x, a, b, c, d, e, g, h, i
<1>2. x \in Octet
  BY <1>1 DEF Octet
<1>3. /\ x % 2 = a /\ (x \div 2) % 2 = b /\ (x \div 4) % 2 = c /\ (x \div 8) % 2 = d
  BY <1>1
<1>4. /\ (x \div 16) % 2 = e /\ (x \div 32) % 2 = g /\ (x \div 64) % 2 = h /\ (x \div 128) % 2 = i
  BY <1>1
<1>5. /\ Bit(x, 0) = x % 2 /\ Bit(x, 1) = (x \div 2) % 2 /\ Bit(x, 2) = (x \div 4) % 2
      /\ Bit(x, 3) = (x \div 8) % 2 /\ Bit(x, 4) = (x \div 16) % 2 /\ Bit(x, 5) = (x \div 32) % 2
      /\ Bit(x, 6) = (x \div 64) % 2 /\ Bit(x, 7) = (x \div 128) % 2
  BY <1>2, Powers DEF Bit, Octet
<1>6. ASSUME NEW k \in Places PROVE Bit(x, k) = f[k]
  BY <1>3, <1>4, <1>5, EachPlace DEF a, b, c, d, e, g, h, i
<1> QED
  BY <1>2, <1>6 DEF x

LEMMA BitIsBinary ==
  ASSUME NEW x \in Octet, NEW k \in Places
  PROVE  Bit(x, k) \in {0, 1}
<1>1. Of(x) \in Binary /\ Of(x)[k] = Bit(x, k)
  BY SumOf DEF Of
<1> QED
  BY <1>1 DEF Binary

LEMMA SameBits ==
  ASSUME NEW x \in Octet, NEW y \in Octet, \A k \in Places : Bit(x, k) = Bit(y, k)
  PROVE  x = y
<1>1. Of(x) = Of(y)
  BY DEF Of
<1> QED
  BY <1>1, SumOf

LEMMA EachPower ==
  ASSUME NEW p \in 0..8
  PROVE  /\ p = 0 \/ p = 1 \/ p = 2 \/ p = 3 \/ p = 4 \/ p = 5 \/ p = 6 \/ p = 7 \/ p = 8
         /\ 2^p \in {1, 2, 4, 8, 16, 32, 64, 128, 256}
<1>1. p = 0 \/ p = 1 \/ p = 2 \/ p = 3 \/ p = 4 \/ p = 5 \/ p = 6 \/ p = 7 \/ p = 8
  OBVIOUS
<1>2. p = 0 => 2^p = 1
  BY Powers
<1>3. p = 1 => 2^p = 2
  BY Powers
<1>4. p = 2 => 2^p = 4
  BY Powers
<1>5. p = 3 => 2^p = 8
  BY Powers
<1>6. p = 4 => 2^p = 16
  BY Powers
<1>7. p = 5 => 2^p = 32
  BY Powers
<1>8. p = 6 => 2^p = 64
  BY Powers
<1>9. p = 7 => 2^p = 128
  BY Powers
<1>10. p = 8 => 2^p = 256
  BY Powers
<1> QED
  BY <1>1, <1>2, <1>3, <1>4, <1>5, <1>6, <1>7, <1>8, <1>9, <1>10

LEMMA CutAt ==
  ASSUME NEW m \in {1, 2, 4, 8, 16, 32, 64, 128, 256}, NEW low \in Nat, NEW high \in Nat, low < m
  PROVE  (low + m * high) % m = low /\ (low + m * high) \div m = high
<1>1. CASE m = 1
  BY <1>1
<1>2. CASE m = 2
  BY <1>2
<1>3. CASE m = 4
  BY <1>3
<1>4. CASE m = 8
  BY <1>4
<1>5. CASE m = 16
  BY <1>5
<1>6. CASE m = 32
  BY <1>6
<1>7. CASE m = 64
  BY <1>7
<1>8. CASE m = 128
  BY <1>8
<1>9. CASE m = 256
  BY <1>9
<1> QED
  BY <1>1, <1>2, <1>3, <1>4, <1>5, <1>6, <1>7, <1>8, <1>9

\* The lower and the upper bits of a byte are its remainder and its quotient.
LEMMA Halves ==
  ASSUME NEW x \in Octet, NEW p \in 0..8
  PROVE  /\ x % 2^p \in Octet /\ x \div 2^p \in Octet
         /\ \A k \in Places : Bit(x % 2^p, k) = IF k < p THEN Bit(x, k) ELSE 0
         /\ \A k \in Places : Bit(x \div 2^p, k) = IF k + p <= 7 THEN Bit(x, k + p) ELSE 0
<1> DEFINE f == Of(x)
           g == [k \in Places |-> IF k < p THEN f[k] ELSE 0]
           h == [k \in Places |-> IF k + p <= 7 THEN f[k + p] ELSE 0]
<1>1. f \in Binary /\ Sum8(f) = x /\ \A k \in Places : f[k] = Bit(x, k)
  BY SumOf DEF Of
<1> HIDE DEF f
<1>2. g \in Binary /\ \A k \in Places : g[k] = IF k < p THEN f[k] ELSE 0
  BY <1>1 DEF Binary
<1>3. h \in Binary /\ \A k \in Places : h[k] = IF k + p <= 7 THEN f[k + p] ELSE 0
  <2>1. \A k \in Places : k + p <= 7 => k + p \in Places
    BY DEF Places
  <2> QED
    BY <1>1, <2>1 DEF Binary
<1> HIDE DEF g, h
<1> DEFINE low == Sum8(g)  high == Sum8(h)  m == 2^p
<1> DEFINE a == f[0]  b == f[1]  c == f[2]  d == f[3]  e == f[4]  o == f[5]  s == f[6]  t == f[7]
<1>4. /\ low = g[0] + 2 * g[1] + 4 * g[2] + 8 * g[3] + 16 * g[4] + 32 * g[5] + 64 * g[6] + 128 * g[7]
      /\ high = h[0] + 2 * h[1] + 4 * h[2] + 8 * h[3] + 16 * h[4] + 32 * h[5] + 64 * h[6] + 128 * h[7]
      /\ x = a + 2 * b + 4 * c + 8 * d + 16 * e + 32 * o + 64 * s + 128 * t
  BY <1>1 DEF Sum8
<1>5. /\ a \in 0..1 /\ b \in 0..1 /\ c \in 0..1 /\ d \in 0..1
      /\ e \in 0..1 /\ o \in 0..1 /\ s \in 0..1 /\ t \in 0..1
  BY <1>1, BinaryIs
<1>6. /\ low \in Octet /\ high \in Octet
  BY <1>2, <1>3, BitOfSum
<1> HIDE DEF low, high, a, b, c, d, e, o, s, t
<1>7. low < m /\ x = low + m * high
  <2>1. CASE p = 0
    <3>1. g[0] = 0 /\ g[1] = 0 /\ g[2] = 0 /\ g[3] = 0 /\ g[4] = 0 /\ g[5] = 0 /\ g[6] = 0 /\ g[7] = 0
      BY <1>2, <2>1 DEF Places, a, b, c, d, e, o, s, t
    <3>2. h[0] = a /\ h[1] = b /\ h[2] = c /\ h[3] = d /\ h[4] = e /\ h[5] = o /\ h[6] = s /\ h[7] = t
      BY <1>3, <2>1 DEF Places, a, b, c, d, e, o, s, t
    <3>3. m = 1
      BY <2>1, Powers
    <3>5. low = 0
      BY <1>4, <1>5, <3>1
    <3>6. high = a + 2 * b + 4 * c + 8 * d + 16 * e + 32 * o + 64 * s + 128 * t
      BY <1>4, <1>5, <3>2
    <3>7. low < 1
      BY <1>5, <3>5
    <3>8. x = low + 1 * high
      BY <1>4, <1>5, <3>5, <3>6
    <3>4. low < 1 /\ x = low + 1 * high
      BY <3>7, <3>8
    <3> HIDE DEF m
    <3> QED
      BY <3>3, <3>4
  <2>2. CASE p = 1
    <3>1. g[0] = a /\ g[1] = 0 /\ g[2] = 0 /\ g[3] = 0 /\ g[4] = 0 /\ g[5] = 0 /\ g[6] = 0 /\ g[7] = 0
      BY <1>2, <2>2 DEF Places, a, b, c, d, e, o, s, t
    <3>2. h[0] = b /\ h[1] = c /\ h[2] = d /\ h[3] = e /\ h[4] = o /\ h[5] = s /\ h[6] = t /\ h[7] = 0
      BY <1>3, <2>2 DEF Places, a, b, c, d, e, o, s, t
    <3>3. m = 2
      BY <2>2, Powers
    <3>5. low = a
      BY <1>4, <1>5, <3>1
    <3>6. high = b + 2 * c + 4 * d + 8 * e + 16 * o + 32 * s + 64 * t
      BY <1>4, <1>5, <3>2
    <3>7. low < 2
      BY <1>5, <3>5
    <3>8. x = low + 2 * high
      BY <1>4, <1>5, <3>5, <3>6
    <3>4. low < 2 /\ x = low + 2 * high
      BY <3>7, <3>8
    <3> HIDE DEF m
    <3> QED
      BY <3>3, <3>4
  <2>3. CASE p = 2
    <3>1. g[0] = a /\ g[1] = b /\ g[2] = 0 /\ g[3] = 0 /\ g[4] = 0 /\ g[5] = 0 /\ g[6] = 0 /\ g[7] = 0
      BY <1>2, <2>3 DEF Places, a, b, c, d, e, o, s, t
    <3>2. h[0] = c /\ h[1] = d /\ h[2] = e /\ h[3] = o /\ h[4] = s /\ h[5] = t /\ h[6] = 0 /\ h[7] = 0
      BY <1>3, <2>3 DEF Places, a, b, c, d, e, o, s, t
    <3>3. m = 4
      BY <2>3, Powers
    <3>5. low = a + 2 * b
      BY <1>4, <1>5, <3>1
    <3>6. high = c + 2 * d + 4 * e + 8 * o + 16 * s + 32 * t
      BY <1>4, <1>5, <3>2
    <3>7. low < 4
      BY <1>5, <3>5
    <3>8. x = low + 4 * high
      BY <1>4, <1>5, <3>5, <3>6
    <3>4. low < 4 /\ x = low + 4 * high
      BY <3>7, <3>8
    <3> HIDE DEF m
    <3> QED
      BY <3>3, <3>4
  <2>4. CASE p = 3
    <3>1. g[0] = a /\ g[1] = b /\ g[2] = c /\ g[3] = 0 /\ g[4] = 0 /\ g[5] = 0 /\ g[6] = 0 /\ g[7] = 0
      BY <1>2, <2>4 DEF Places, a, b, c, d, e, o, s, t
    <3>2. h[0] = d /\ h[1] = e /\ h[2] = o /\ h[3] = s /\ h[4] = t /\ h[5] = 0 /\ h[6] = 0 /\ h[7] = 0
      BY <1>3, <2>4 DEF Places, a, b, c, d, e, o, s, t
    <3>3. m = 8
      BY <2>4, Powers
    <3>5. low = a + 2 * b + 4 * c
      BY <1>4, <1>5, <3>1
    <3>6. high = d + 2 * e + 4 * o + 8 * s + 16 * t
      BY <1>4, <1>5, <3>2
    <3>7. low < 8
      BY <1>5, <3>5
    <3>8. x = low + 8 * high
      BY <1>4, <1>5, <3>5, <3>6
    <3>4. low < 8 /\ x = low + 8 * high
      BY <3>7, <3>8
    <3> HIDE DEF m
    <3> QED
      BY <3>3, <3>4
  <2>5. CASE p = 4
    <3>1. g[0] = a /\ g[1] = b /\ g[2] = c /\ g[3] = d /\ g[4] = 0 /\ g[5] = 0 /\ g[6] = 0 /\ g[7] = 0
      BY <1>2, <2>5 DEF Places, a, b, c, d, e, o, s, t
    <3>2. h[0] = e /\ h[1] = o /\ h[2] = s /\ h[3] = t /\ h[4] = 0 /\ h[5] = 0 /\ h[6] = 0 /\ h[7] = 0
      BY <1>3, <2>5 DEF Places, a, b, c, d, e, o, s, t
    <3>3. m = 16
      BY <2>5, Powers
    <3>5. low = a + 2 * b + 4 * c + 8 * d
      BY <1>4, <1>5, <3>1
    <3>6. high = e + 2 * o + 4 * s + 8 * t
      BY <1>4, <1>5, <3>2
    <3>7. low < 16
      BY <1>5, <3>5
    <3>8. x = low + 16 * high
      BY <1>4, <1>5, <3>5, <3>6
    <3>4. low < 16 /\ x = low + 16 * high
      BY <3>7, <3>8
    <3> HIDE DEF m
    <3> QED
      BY <3>3, <3>4
  <2>6. CASE p = 5
    <3>1. g[0] = a /\ g[1] = b /\ g[2] = c /\ g[3] = d /\ g[4] = e /\ g[5] = 0 /\ g[6] = 0 /\ g[7] = 0
      BY <1>2, <2>6 DEF Places, a, b, c, d, e, o, s, t
    <3>2. h[0] = o /\ h[1] = s /\ h[2] = t /\ h[3] = 0 /\ h[4] = 0 /\ h[5] = 0 /\ h[6] = 0 /\ h[7] = 0
      BY <1>3, <2>6 DEF Places, a, b, c, d, e, o, s, t
    <3>3. m = 32
      BY <2>6, Powers
    <3>5. low = a + 2 * b + 4 * c + 8 * d + 16 * e
      BY <1>4, <1>5, <3>1
    <3>6. high = o + 2 * s + 4 * t
      BY <1>4, <1>5, <3>2
    <3>7. low < 32
      BY <1>5, <3>5
    <3>8. x = low + 32 * high
      BY <1>4, <1>5, <3>5, <3>6
    <3>4. low < 32 /\ x = low + 32 * high
      BY <3>7, <3>8
    <3> HIDE DEF m
    <3> QED
      BY <3>3, <3>4
  <2>7. CASE p = 6
    <3>1. g[0] = a /\ g[1] = b /\ g[2] = c /\ g[3] = d /\ g[4] = e /\ g[5] = o /\ g[6] = 0 /\ g[7] = 0
      BY <1>2, <2>7 DEF Places, a, b, c, d, e, o, s, t
    <3>2. h[0] = s /\ h[1] = t /\ h[2] = 0 /\ h[3] = 0 /\ h[4] = 0 /\ h[5] = 0 /\ h[6] = 0 /\ h[7] = 0
      BY <1>3, <2>7 DEF Places, a, b, c, d, e, o, s, t
    <3>3. m = 64
      BY <2>7, Powers
    <3>5. low = a + 2 * b + 4 * c + 8 * d + 16 * e + 32 * o
      BY <1>4, <1>5, <3>1
    <3>6. high = s + 2 * t
      BY <1>4, <1>5, <3>2
    <3>7. low < 64
      BY <1>5, <3>5
    <3>8. x = low + 64 * high
      BY <1>4, <1>5, <3>5, <3>6
    <3>4. low < 64 /\ x = low + 64 * high
      BY <3>7, <3>8
    <3> HIDE DEF m
    <3> QED
      BY <3>3, <3>4
  <2>8. CASE p = 7
    <3>1. g[0] = a /\ g[1] = b /\ g[2] = c /\ g[3] = d /\ g[4] = e /\ g[5] = o /\ g[6] = s /\ g[7] = 0
      BY <1>2, <2>8 DEF Places, a, b, c, d, e, o, s, t
    <3>2. h[0] = t /\ h[1] = 0 /\ h[2] = 0 /\ h[3] = 0 /\ h[4] = 0 /\ h[5] = 0 /\ h[6] = 0 /\ h[7] = 0
      BY <1>3, <2>8 DEF Places, a, b, c, d, e, o, s, t
    <3>3. m = 128
      BY <2>8, Powers
    <3>5. low = a + 2 * b + 4 * c + 8 * d + 16 * e + 32 * o + 64 * s
      BY <1>4, <1>5, <3>1
    <3>6. high = t
      BY <1>4, <1>5, <3>2
    <3>7. low < 128
      BY <1>5, <3>5
    <3>8. x = low + 128 * high
      BY <1>4, <1>5, <3>5, <3>6
    <3>4. low < 128 /\ x = low + 128 * high
      BY <3>7, <3>8
    <3> HIDE DEF m
    <3> QED
      BY <3>3, <3>4
  <2>9. CASE p = 8
    <3>1. g[0] = a /\ g[1] = b /\ g[2] = c /\ g[3] = d /\ g[4] = e /\ g[5] = o /\ g[6] = s /\ g[7] = t
      BY <1>2, <2>9 DEF Places, a, b, c, d, e, o, s, t
    <3>2. h[0] = 0 /\ h[1] = 0 /\ h[2] = 0 /\ h[3] = 0 /\ h[4] = 0 /\ h[5] = 0 /\ h[6] = 0 /\ h[7] = 0
      BY <1>3, <2>9 DEF Places, a, b, c, d, e, o, s, t
    <3>3. m = 256
      BY <2>9, Powers
    <3>5. low = a + 2 * b + 4 * c + 8 * d + 16 * e + 32 * o + 64 * s + 128 * t
      BY <1>4, <1>5, <3>1
    <3>6. high = 0
      BY <1>4, <1>5, <3>2
    <3>7. low < 256
      BY <1>5, <3>5
    <3>8. x = low + 256 * high
      BY <1>4, <1>5, <3>5, <3>6
    <3>4. low < 256 /\ x = low + 256 * high
      BY <3>7, <3>8
    <3> HIDE DEF m
    <3> QED
      BY <3>3, <3>4
  <2> QED
    BY EachPower, <2>1, <2>2, <2>3, <2>4, <2>5, <2>6, <2>7, <2>8, <2>9
<1>8. x % m = low /\ x \div m = high
  <2>1. m \in {1, 2, 4, 8, 16, 32, 64, 128, 256}
    BY EachPower
  <2>2. low \in Nat /\ high \in Nat
    BY <1>6 DEF Octet
  <2> HIDE DEF m
  <2> QED
    BY <1>7, <2>1, <2>2, CutAt
<1>9. /\ \A k \in Places : Bit(low, k) = g[k] /\ Bit(high, k) = h[k]
  BY <1>2, <1>3, BitOfSum DEF low, high
<1>10. \A k \in Places : k + p <= 7 => k + p \in Places
  BY DEF Places
<1> HIDE DEF m
<1> QED
  BY <1>1, <1>2, <1>3, <1>6, <1>8, <1>9, <1>10 DEF m

LEMMA ZeroBits ==
  0 \in Octet /\ \A k \in Places : Bit(0, k) = 0
<1> SUFFICES ASSUME NEW k \in Places PROVE Bit(0, k) = 0
  BY DEF Octet
<1>1. k \in 0..8
  BY DEF Places
<1>2. 2^k \in Nat \ {0}
  <2>1. 2^k \in {1, 2, 4, 8, 16, 32, 64, 128, 256}
    BY <1>1, EachPower
  <2> DEFINE m == 2^k
  <2> HIDE DEF m
  <2>2. m \in Nat \ {0}
    BY <2>1 DEF m
  <2> QED
    BY <2>2 DEF m
<1>3. 0 \div 2^k = 0
  <2> DEFINE m == 2^k
  <2> HIDE DEF m
  <2>1. m \in Nat \ {0}
    BY <1>2 DEF m
  <2>2. 0 \div m = 0
    BY <2>1
  <2> QED
    BY <2>2 DEF m
<1> QED
  BY <1>3 DEF Bit

\* A multiple, up to the byte's end.
Up(x, p) == (x * 2^p) % 256
LEMMA Multiple ==
  ASSUME NEW x \in Octet, NEW p \in 0..8
  PROVE  /\ Up(x, p) \in Octet
         /\ \A k \in Places : Bit(Up(x, p), k) = IF k >= p THEN Bit(x, k - p) ELSE 0
         /\ (\A k \in Places : k + p > 7 => Bit(x, k) = 0) => x * 2^p = Up(x, p)
<1> DEFINE q == 8 - p
           m == 2^p
           n == 2^q
           low == x % n
           high == x \div n
           y == low * m
<1>1. q \in 0..8
  OBVIOUS
<1>2. /\ low \in Octet /\ high \in Octet
      /\ \A k \in Places : Bit(low, k) = IF k < q THEN Bit(x, k) ELSE 0
  <2> HIDE DEF q
  <2> QED
    BY <1>1, Halves
<1>3. /\ y \in Octet /\ x * m = y + 256 * high /\ y % m = 0 /\ y \div m = low
      /\ x = low + n * high
  <2>1. CASE p = 0
    <3>1. m = 1 /\ n = 256
      BY <2>1, Powers
    <3>2. low = x % 256 /\ high = x \div 256 /\ y = low * 1
      BY <3>1
    <3> HIDE DEF low, high, y, m, n
    <3>3. low \in 0..255 /\ high \in Nat /\ x = low + 256 * high
      BY <3>2 DEF Octet
    <3>4. y \in Octet /\ y % 1 = 0 /\ y \div 1 = low
      BY <3>2, <3>3 DEF Octet
    <3>5. x * 1 = y + 256 * high
      BY <3>2, <3>3 DEF Octet
    <3> QED
      BY <3>1, <3>3, <3>4, <3>5
  <2>2. CASE p = 1
    <3>1. m = 2 /\ n = 128
      BY <2>2, Powers
    <3>2. low = x % 128 /\ high = x \div 128 /\ y = low * 2
      BY <3>1
    <3> HIDE DEF low, high, y, m, n
    <3>3. low \in 0..127 /\ high \in Nat /\ x = low + 128 * high
      BY <3>2 DEF Octet
    <3>4. y \in Octet /\ y % 2 = 0 /\ y \div 2 = low
      BY <3>2, <3>3 DEF Octet
    <3>5. x * 2 = y + 256 * high
      BY <3>2, <3>3 DEF Octet
    <3> QED
      BY <3>1, <3>3, <3>4, <3>5
  <2>3. CASE p = 2
    <3>1. m = 4 /\ n = 64
      BY <2>3, Powers
    <3>2. low = x % 64 /\ high = x \div 64 /\ y = low * 4
      BY <3>1
    <3> HIDE DEF low, high, y, m, n
    <3>3. low \in 0..63 /\ high \in Nat /\ x = low + 64 * high
      BY <3>2 DEF Octet
    <3>4. y \in Octet /\ y % 4 = 0 /\ y \div 4 = low
      BY <3>2, <3>3 DEF Octet
    <3>5. x * 4 = y + 256 * high
      BY <3>2, <3>3 DEF Octet
    <3> QED
      BY <3>1, <3>3, <3>4, <3>5
  <2>4. CASE p = 3
    <3>1. m = 8 /\ n = 32
      BY <2>4, Powers
    <3>2. low = x % 32 /\ high = x \div 32 /\ y = low * 8
      BY <3>1
    <3> HIDE DEF low, high, y, m, n
    <3>3. low \in 0..31 /\ high \in Nat /\ x = low + 32 * high
      BY <3>2 DEF Octet
    <3>4. y \in Octet /\ y % 8 = 0 /\ y \div 8 = low
      BY <3>2, <3>3 DEF Octet
    <3>5. x * 8 = y + 256 * high
      BY <3>2, <3>3 DEF Octet
    <3> QED
      BY <3>1, <3>3, <3>4, <3>5
  <2>5. CASE p = 4
    <3>1. m = 16 /\ n = 16
      BY <2>5, Powers
    <3>2. low = x % 16 /\ high = x \div 16 /\ y = low * 16
      BY <3>1
    <3> HIDE DEF low, high, y, m, n
    <3>3. low \in 0..15 /\ high \in Nat /\ x = low + 16 * high
      BY <3>2 DEF Octet
    <3>4. y \in Octet /\ y % 16 = 0 /\ y \div 16 = low
      BY <3>2, <3>3 DEF Octet
    <3>5. x * 16 = y + 256 * high
      BY <3>2, <3>3 DEF Octet
    <3> QED
      BY <3>1, <3>3, <3>4, <3>5
  <2>6. CASE p = 5
    <3>1. m = 32 /\ n = 8
      BY <2>6, Powers
    <3>2. low = x % 8 /\ high = x \div 8 /\ y = low * 32
      BY <3>1
    <3> HIDE DEF low, high, y, m, n
    <3>3. low \in 0..7 /\ high \in Nat /\ x = low + 8 * high
      BY <3>2 DEF Octet
    <3>4. y \in Octet /\ y % 32 = 0 /\ y \div 32 = low
      BY <3>2, <3>3 DEF Octet
    <3>5. x * 32 = y + 256 * high
      BY <3>2, <3>3 DEF Octet
    <3> QED
      BY <3>1, <3>3, <3>4, <3>5
  <2>7. CASE p = 6
    <3>1. m = 64 /\ n = 4
      BY <2>7, Powers
    <3>2. low = x % 4 /\ high = x \div 4 /\ y = low * 64
      BY <3>1
    <3> HIDE DEF low, high, y, m, n
    <3>3. low \in 0..3 /\ high \in Nat /\ x = low + 4 * high
      BY <3>2 DEF Octet
    <3>4. y \in Octet /\ y % 64 = 0 /\ y \div 64 = low
      BY <3>2, <3>3 DEF Octet
    <3>5. x * 64 = y + 256 * high
      BY <3>2, <3>3 DEF Octet
    <3> QED
      BY <3>1, <3>3, <3>4, <3>5
  <2>8. CASE p = 7
    <3>1. m = 128 /\ n = 2
      BY <2>8, Powers
    <3>2. low = x % 2 /\ high = x \div 2 /\ y = low * 128
      BY <3>1
    <3> HIDE DEF low, high, y, m, n
    <3>3. low \in 0..1 /\ high \in Nat /\ x = low + 2 * high
      BY <3>2 DEF Octet
    <3>4. y \in Octet /\ y % 128 = 0 /\ y \div 128 = low
      BY <3>2, <3>3 DEF Octet
    <3>5. x * 128 = y + 256 * high
      BY <3>2, <3>3 DEF Octet
    <3> QED
      BY <3>1, <3>3, <3>4, <3>5
  <2>9. CASE p = 8
    <3>1. m = 256 /\ n = 1
      BY <2>9, Powers
    <3>2. low = x % 1 /\ high = x \div 1 /\ y = low * 256
      BY <3>1
    <3> HIDE DEF low, high, y, m, n
    <3>3. low \in 0..0 /\ high \in Nat /\ x = low + 1 * high
      BY <3>2 DEF Octet
    <3>4. y \in Octet /\ y % 256 = 0 /\ y \div 256 = low
      BY <3>2, <3>3 DEF Octet
    <3>5. x * 256 = y + 256 * high
      BY <3>2, <3>3 DEF Octet
    <3> QED
      BY <3>1, <3>3, <3>4, <3>5
  <2> QED
    BY EachPower, <2>1, <2>2, <2>3, <2>4, <2>5, <2>6, <2>7, <2>8, <2>9
<1> HIDE DEF m, n, low, high, y
<1>4. (x * m) % 256 = y
  <2>1. y \in Nat /\ y < 256 /\ high \in Nat
    BY <1>2, <1>3 DEF Octet
  <2>2. (y + 256 * high) % 256 = y
    BY <2>1, CutAt
  <2> QED
    BY <1>3, <2>2
<1>5. ASSUME NEW k \in Places PROVE Bit(y, k) = IF k >= p THEN Bit(x, k - p) ELSE 0
  <2>1. /\ \A j \in Places : Bit(y % m, j) = IF j < p THEN Bit(y, j) ELSE 0
        /\ \A j \in Places : Bit(y \div m, j) = IF j + p <= 7 THEN Bit(y, j + p) ELSE 0
    BY <1>3, Halves DEF m
  <2>2. CASE k < p
    BY <1>3, <2>1, <2>2, ZeroBits DEF Places
  <2>3. CASE k >= p
    <3>1. k - p \in Places /\ (k - p) + p = k /\ k <= 7 /\ k - p < q
      BY <2>3 DEF Places
    <3>2. Bit(low, k - p) = Bit(y, k)
      BY <1>3, <2>1, <3>1
    <3> QED
      BY <1>2, <2>3, <3>1, <3>2
  <2> QED
    BY <2>2, <2>3 DEF Places
<1>6. ASSUME \A k \in Places : k + p > 7 => Bit(x, k) = 0 PROVE x * m = y
  <2>1. ASSUME NEW k \in Places PROVE Bit(low, k) = Bit(x, k)
    <3>1. ~(k < q) => k + p > 7
      BY DEF Places
    <3> QED
      BY <1>2, <1>6, <3>1
  <2>2. low = x
    BY <1>2, <2>1, SameBits
  <2> QED
    BY <2>2 DEF y
<1>7. Up(x, p) = y
  BY <1>4 DEF Up, m
<1> QED
  BY <1>3, <1>5, <1>6, <1>7 DEF m

\* The sum of bytes that have no bit in common.
LEMMA Beside ==
  ASSUME NEW x \in Octet, NEW y \in Octet, \A k \in Places : Bit(x, k) = 0 \/ Bit(y, k) = 0
  PROVE  x + y \in Octet /\ \A k \in Places : Bit(x + y, k) = Bit(x, k) + Bit(y, k)
<1> DEFINE f == Of(x)
           g == Of(y)
           h == [k \in Places |-> f[k] + g[k]]
<1>1. /\ f \in Binary /\ Sum8(f) = x /\ g \in Binary /\ Sum8(g) = y
      /\ \A k \in Places : f[k] = Bit(x, k) /\ g[k] = Bit(y, k)
  BY SumOf DEF Of
<1> HIDE DEF f, g
<1>2. h \in Binary /\ \A k \in Places : h[k] = f[k] + g[k]
  BY <1>1 DEF Binary
<1> HIDE DEF h
<1>3. Sum8(h) = x + y
  <2> DEFINE a0 == f[0]  a1 == f[1]  a2 == f[2]  a3 == f[3]  a4 == f[4]  a5 == f[5]  a6 == f[6]  a7 == f[7]
             b0 == g[0]  b1 == g[1]  b2 == g[2]  b3 == g[3]  b4 == g[4]  b5 == g[5]  b6 == g[6]  b7 == g[7]
  <2>1. /\ h[0] = a0 + b0 /\ h[1] = a1 + b1 /\ h[2] = a2 + b2 /\ h[3] = a3 + b3
        /\ h[4] = a4 + b4 /\ h[5] = a5 + b5 /\ h[6] = a6 + b6 /\ h[7] = a7 + b7
    BY <1>2 DEF Places
  <2>2. /\ a0 \in Int /\ a1 \in Int /\ a2 \in Int /\ a3 \in Int
        /\ a4 \in Int /\ a5 \in Int /\ a6 \in Int /\ a7 \in Int
    BY <1>1, BinaryIs
  <2>3. /\ b0 \in Int /\ b1 \in Int /\ b2 \in Int /\ b3 \in Int
        /\ b4 \in Int /\ b5 \in Int /\ b6 \in Int /\ b7 \in Int
    BY <1>1, BinaryIs
  <2>4. /\ x = a0 + 2 * a1 + 4 * a2 + 8 * a3 + 16 * a4 + 32 * a5 + 64 * a6 + 128 * a7
        /\ y = b0 + 2 * b1 + 4 * b2 + 8 * b3 + 16 * b4 + 32 * b5 + 64 * b6 + 128 * b7
    BY <1>1 DEF Sum8
  <2> HIDE DEF a0, a1, a2, a3, a4, a5, a6, a7, b0, b1, b2, b3, b4, b5, b6, b7
  <2>5. Sum8(h) = (a0 + b0) + 2 * (a1 + b1) + 4 * (a2 + b2) + 8 * (a3 + b3) + 16 * (a4 + b4) + 32 * (a5 + b5) + 64 * (a6 + b6) + 128 * (a7 + b7)
    BY <2>1 DEF Sum8
  <2> QED
    BY <2>2, <2>3, <2>4, <2>5
<1> QED
  BY <1>1, <1>2, <1>3, BitOfSum

LEMMA Remainders ==
  ASSUME NEW y \in Nat, NEW n \in 0..8
  PROVE  (y % 256) % 2^n = y % 2^n
<1>1. CASE n = 0
  <2>1. (y % 256) % 1 = y % 1
    OBVIOUS
  <2> QED
    BY <1>1, <2>1, Powers
<1>2. CASE n = 1
  <2>1. (y % 256) % 2 = y % 2
    OBVIOUS
  <2> QED
    BY <1>2, <2>1, Powers
<1>3. CASE n = 2
  <2>1. (y % 256) % 4 = y % 4
    OBVIOUS
  <2> QED
    BY <1>3, <2>1, Powers
<1>4. CASE n = 3
  <2>1. (y % 256) % 8 = y % 8
    OBVIOUS
  <2> QED
    BY <1>4, <2>1, Powers
<1>5. CASE n = 4
  <2>1. (y % 256) % 16 = y % 16
    OBVIOUS
  <2> QED
    BY <1>5, <2>1, Powers
<1>6. CASE n = 5
  <2>1. (y % 256) % 32 = y % 32
    OBVIOUS
  <2> QED
    BY <1>6, <2>1, Powers
<1>7. CASE n = 6
  <2>1. (y % 256) % 64 = y % 64
    OBVIOUS
  <2> QED
    BY <1>7, <2>1, Powers
<1>8. CASE n = 7
  <2>1. (y % 256) % 128 = y % 128
    OBVIOUS
  <2> QED
    BY <1>8, <2>1, Powers
<1>9. CASE n = 8
  <2>1. (y % 256) % 256 = y % 256
    OBVIOUS
  <2> QED
    BY <1>9, <2>1, Powers
<1> QED
  BY EachPower, <1>1, <1>2, <1>3, <1>4, <1>5, <1>6, <1>7, <1>8, <1>9

-----------------------------------------------------------------------------
(* What the writing loop does to a byte.                                   *)

Octets == Seq(Octet)
BitIn(b, i) == Bit(b[(i \div 8) + 1], i % 8)

\* What a turn of the writing loop does to a byte.
LEMMA MergedBits ==
  ASSUME NEW old \in Octet, NEW w \in Octet, NEW pos \in 0..7, NEW n \in 1..8, pos + n <= 8
  PROVE  /\ Merged(old, w, pos, n) \in Octet
         /\ \A k \in Places : Bit(Merged(old, w, pos, n), k)
              = IF pos <= k /\ k < pos + n THEN Bit(w, k - pos) ELSE Bit(old, k)
<1> DEFINE end == pos + n
           low == old % 2^pos
           piece == w % 2^n
           mid == piece * 2^pos
           rest == old \div 2^end
           high == rest * 2^end
<1>1. pos \in 0..8 /\ n \in 0..8 /\ end \in 0..8
  OBVIOUS
<1> HIDE DEF end
<1>2. low \in Octet /\ \A k \in Places : Bit(low, k) = IF k < pos THEN Bit(old, k) ELSE 0
  BY <1>1, Halves
<1>3. piece \in Octet /\ \A k \in Places : Bit(piece, k) = IF k < n THEN Bit(w, k) ELSE 0
  BY <1>1, Halves
<1>4. rest \in Octet /\ \A k \in Places : Bit(rest, k) = IF k + end <= 7 THEN Bit(old, k + end) ELSE 0
  BY <1>1, Halves
<1> HIDE DEF low, piece, rest
<1>5. mid \in Octet /\ \A k \in Places : Bit(mid, k) = IF k >= pos THEN Bit(piece, k - pos) ELSE 0
  <2>1. \A k \in Places : k + pos > 7 => Bit(piece, k) = 0
    <3> SUFFICES ASSUME NEW k \in Places, k + pos > 7 PROVE Bit(piece, k) = 0
      OBVIOUS
    <3>1. ~(k < n)
      BY DEF Places
    <3> QED
      BY <1>3, <3>1
  <2>2. mid = Up(piece, pos)
    BY <1>1, <1>3, <2>1, Multiple
  <2>3. /\ Up(piece, pos) \in Octet
        /\ \A k \in Places : Bit(Up(piece, pos), k) = IF k >= pos THEN Bit(piece, k - pos) ELSE 0
    BY <1>1, <1>3, Multiple
  <2> QED
    BY <2>2, <2>3
<1>6. high \in Octet /\ \A k \in Places : Bit(high, k) = IF k >= end THEN Bit(rest, k - end) ELSE 0
  <2>1. \A k \in Places : k + end > 7 => Bit(rest, k) = 0
    BY <1>1, <1>4 DEF Places
  <2>2. high = Up(rest, end)
    BY <1>1, <1>4, <2>1, Multiple
  <2>3. /\ Up(rest, end) \in Octet
        /\ \A k \in Places : Bit(Up(rest, end), k) = IF k >= end THEN Bit(rest, k - end) ELSE 0
    BY <1>1, <1>4, Multiple
  <2> QED
    BY <2>2, <2>3
<1> HIDE DEF mid, high
<1>7. \A k \in Places : Bit(mid, k) = IF pos <= k /\ k < end THEN Bit(w, k - pos) ELSE 0
  <2> SUFFICES ASSUME NEW k \in Places
               PROVE  Bit(mid, k) = IF pos <= k /\ k < end THEN Bit(w, k - pos) ELSE 0
    OBVIOUS
  <2>1. CASE k < pos
    BY <1>5, <2>1 DEF Places
  <2>2. CASE k >= pos
    <3>1. k - pos \in Places /\ (k - pos < n <=> k < end)
      BY <2>2 DEF Places, end
    <3> QED
      BY <1>3, <1>5, <2>2, <3>1
  <2> QED
    BY <2>1, <2>2 DEF Places
<1>8. \A k \in Places : Bit(high, k) = IF k >= end THEN Bit(old, k) ELSE 0
  <2> SUFFICES ASSUME NEW k \in Places, k >= end
               PROVE  Bit(high, k) = Bit(old, k)
    BY <1>1, <1>6
  <2>1. k - end \in Places /\ (k - end) + end = k /\ k <= 7
    BY <1>1 DEF Places
  <2> QED
    BY <1>4, <1>6, <2>1
<1>9. low + mid \in Octet /\ \A k \in Places : Bit(low + mid, k) = Bit(low, k) + Bit(mid, k)
  <2>1. \A k \in Places : Bit(low, k) = 0 \/ Bit(mid, k) = 0
    BY <1>2, <1>7 DEF Places
  <2> QED
    BY <1>2, <1>5, <2>1, Beside
<1> DEFINE both == low + mid
<1>10. \A k \in Places : Bit(both, k) = IF k < pos THEN Bit(old, k)
                                        ELSE IF k < end THEN Bit(w, k - pos) ELSE 0
  <2> SUFFICES ASSUME NEW k \in Places
               PROVE  Bit(both, k) = IF k < pos THEN Bit(old, k)
                                     ELSE IF k < end THEN Bit(w, k - pos) ELSE 0
    OBVIOUS
  <2>1. Bit(both, k) = Bit(low, k) + Bit(mid, k) /\ Bit(old, k) \in {0, 1}
    BY <1>9, BitIsBinary
  <2>2. CASE k < pos
    BY <1>2, <1>7, <2>1, <2>2 DEF Places
  <2>3. CASE k >= pos /\ k < end
    <3>1. k - pos \in Places
      BY <1>1, <2>3 DEF Places
    <3>2. Bit(w, k - pos) \in {0, 1}
      BY <3>1, BitIsBinary
    <3> QED
      BY <1>2, <1>7, <2>1, <2>3, <3>2 DEF Places
  <2>4. CASE k >= end
    <3>1. ~(k < pos) /\ ~(k < end)
      BY <1>1, <2>4 DEF Places, end
    <3> QED
      BY <1>2, <1>7, <2>1, <3>1
  <2> QED
    BY <1>1, <2>2, <2>3, <2>4 DEF Places
<1>11. both \in Octet
  BY <1>9
<1> HIDE DEF both
<1>12. both + high \in Octet /\ \A k \in Places : Bit(both + high, k) = Bit(both, k) + Bit(high, k)
  <2>1. \A k \in Places : Bit(both, k) = 0 \/ Bit(high, k) = 0
    <3> SUFFICES ASSUME NEW k \in Places PROVE Bit(both, k) = 0 \/ Bit(high, k) = 0
      OBVIOUS
    <3>1. CASE k < end
      BY <1>1, <1>8, <3>1 DEF Places
    <3>2. CASE k >= end
      <4>1. ~(k < pos) /\ ~(k < end)
        BY <1>1, <3>2 DEF Places, end
      <4> QED
        BY <1>10, <4>1
    <3> QED
      BY <1>1, <3>1, <3>2 DEF Places
  <2> QED
    BY <1>6, <1>11, <2>1, Beside
<1>13. Merged(old, w, pos, n) = both + high
  BY DEF Merged, both, low, mid, piece, high, rest, end
<1>14. ASSUME NEW k \in Places
       PROVE  Bit(both + high, k) = IF pos <= k /\ k < end THEN Bit(w, k - pos) ELSE Bit(old, k)
  <2>1. Bit(both + high, k) = Bit(both, k) + Bit(high, k) /\ Bit(old, k) \in {0, 1}
    BY <1>12, BitIsBinary
  <2>2. CASE k < pos
    <3>1. ~(pos <= k) /\ ~(k >= end)
      BY <1>1, <2>2 DEF Places, end
    <3> QED
      BY <1>8, <1>10, <2>1, <2>2, <3>1
  <2>3. CASE k >= pos /\ k < end
    <3>1. k - pos \in Places /\ ~(k < pos) /\ ~(k >= end)
      BY <1>1, <2>3 DEF Places
    <3>2. Bit(w, k - pos) \in {0, 1}
      BY <3>1, BitIsBinary
    <3> QED
      BY <1>8, <1>10, <2>1, <2>3, <3>1, <3>2
  <2>4. CASE k >= end
    <3>1. ~(k < pos) /\ ~(k < end)
      BY <1>1, <2>4 DEF Places, end
    <3> QED
      BY <1>8, <1>10, <2>1, <2>4, <3>1
  <2> QED
    BY <1>1, <2>2, <2>3, <2>4 DEF Places
<1> QED
  BY <1>12, <1>13, <1>14 DEF end

\* Eight bits across two bytes.
Pair(x, y, s) == ((y * 2^(8 - s)) + (x \div 2^s)) % 256
LEMMA PairBits ==
  ASSUME NEW x \in Octet, NEW y \in Octet, NEW s \in 0..7
  PROVE  /\ Pair(x, y, s) \in Octet
         /\ \A k \in Places : Bit(Pair(x, y, s), k)
              = IF k + s <= 7 THEN Bit(x, k + s) ELSE Bit(y, k + s - 8)
<1> DEFINE q == 8 - s
           whole == y * 2^q
           up == Up(y, q)
           low == x \div 2^s
<1>1. s \in 0..8 /\ q \in 0..8
  OBVIOUS
<1> HIDE DEF q
<1>2. low \in Octet /\ \A k \in Places : Bit(low, k) = IF k + s <= 7 THEN Bit(x, k + s) ELSE 0
  BY <1>1, Halves
<1>3. up \in Octet /\ \A k \in Places : Bit(up, k) = IF k >= q THEN Bit(y, k - q) ELSE 0
  BY <1>1, Multiple
<1>4. whole \in Nat
  <2> DEFINE m == 2^q
  <2>1. m \in {1, 2, 4, 8, 16, 32, 64, 128, 256}
    BY <1>1, EachPower
  <2> HIDE DEF m
  <2>2. m \in Nat /\ y \in Nat
    BY <2>1 DEF Octet
  <2>3. y * m \in Nat
    BY <2>2
  <2> QED
    BY <2>3 DEF m
<1>9. up = whole % 256
  BY DEF Up
<1> HIDE DEF low, whole, up
<1>5. (whole + low) % 256 = (up + low) % 256
  BY <1>2, <1>4, <1>9 DEF Octet
<1>6. up + low \in Octet /\ \A k \in Places : Bit(up + low, k) = Bit(up, k) + Bit(low, k)
  <2>1. \A k \in Places : Bit(up, k) = 0 \/ Bit(low, k) = 0
    BY <1>2, <1>3 DEF Places, q
  <2> QED
    BY <1>2, <1>3, <2>1, Beside
<1>7. (up + low) % 256 = up + low
  BY <1>6 DEF Octet
<1>8. ASSUME NEW k \in Places
      PROVE  Bit(up + low, k) = IF k + s <= 7 THEN Bit(x, k + s) ELSE Bit(y, k + s - 8)
  <2>1. Bit(up + low, k) = Bit(up, k) + Bit(low, k)
    BY <1>6
  <2>2. CASE k + s <= 7
    <3>1. ~(k >= q) /\ k + s \in Places
      BY <2>2 DEF Places, q
    <3>2. Bit(x, k + s) \in {0, 1}
      BY <3>1, BitIsBinary
    <3> QED
      BY <1>2, <1>3, <2>1, <2>2, <3>1, <3>2
  <2>3. CASE ~(k + s <= 7)
    <3>1. k >= q /\ k - q = k + s - 8 /\ k - q \in Places
      BY <2>3 DEF Places, q
    <3>2. Bit(y, k - q) \in {0, 1}
      BY <3>1, BitIsBinary
    <3> QED
      BY <1>2, <1>3, <2>1, <2>3, <3>1, <3>2
  <2> QED
    BY <2>2, <2>3
<1> QED
  <2>1. Pair(x, y, s) = (whole + low) % 256
    BY DEF Pair, whole, low, q
  <2> QED
    BY <1>5, <1>6, <1>7, <1>8, <2>1

-----------------------------------------------------------------------------
(* What it does to the buffer.                                             *)

\* The k-th bit from bit i on.
LEMMA Place ==
  ASSUME NEW i \in Nat, NEW k \in Places
  PROVE  /\ i \div 8 \in Nat /\ i % 8 \in Places /\ i = 8 * (i \div 8) + (i % 8)
         /\ k + (i % 8) <= 7 => (i + k) \div 8 = i \div 8 /\ (i + k) % 8 = k + (i % 8)
         /\ ~(k + (i % 8) <= 7) => /\ (i + k) \div 8 = i \div 8 + 1
                                 /\ (i + k) % 8 = k + (i % 8) - 8
<1> DEFINE q == i \div 8  s == i % 8
<1>1. q \in Nat /\ s \in Places /\ i = 8 * q + s
  BY DEF Places
<1> HIDE DEF q, s
<1>2. k + s <= 7 => (8 * q + s + k) \div 8 = q /\ (8 * q + s + k) % 8 = k + s
  BY <1>1 DEF Places
<1>3. ~(k + s <= 7) => (8 * q + s + k) \div 8 = q + 1 /\ (8 * q + s + k) % 8 = k + s - 8
  BY <1>1 DEF Places
<1> QED
  BY <1>1, <1>2, <1>3 DEF q, s

LEMMA OctetsAre ==
  ASSUME NEW b \in Octets
  PROVE  /\ Len(b) \in Nat /\ \A i \in 1..Len(b) : b[i] \in Octet
         /\ \A i \in Nat : i < 8 * Len(b) => (i \div 8) + 1 \in 1..Len(b)
<1>1. Len(b) \in Nat /\ \A i \in 1..Len(b) : b[i] \in Octet
  BY LenProperties, ElementOfSeq DEF Octets
<1>2. ASSUME NEW i \in Nat, i < 8 * Len(b) PROVE (i \div 8) + 1 \in 1..Len(b)
  BY <1>1, <1>2
<1> QED
  BY <1>1, <1>2

LEMMA WindowBits ==
  ASSUME NEW data \in Octets, NEW size \in Nat, size <= 8 * Len(data), NEW from \in Nat, from < size
  PROVE  /\ Window(data, size, from) \in Octet
         /\ \A k \in Places : from + k < size => Bit(Window(data, size, from), k) = BitIn(data, from + k)
<1> DEFINE byte == from \div 8
           s == from % 8
           next == IF (size - 1) \div 8 > byte THEN data[byte + 2] ELSE 0
           x == data[byte + 1]
           z == Pair(x, next, s)
<1>1. byte \in Nat /\ s \in 0..7 /\ byte + 1 \in 1..Len(data)
  <2>1. 0 \in Places
    BY DEF Places
  <2> QED
    BY <2>1, Place, OctetsAre DEF Places
<1>2. x \in Octet
  BY <1>1, OctetsAre
<1>3. next \in Octet
  <2>1. CASE (size - 1) \div 8 > byte
    <3>1. size - 1 \in Nat /\ size - 1 < 8 * Len(data)
      BY OctetsAre
    <3>2. ((size - 1) \div 8) + 1 \in 1..Len(data)
      BY <3>1, OctetsAre
    <3>3. (size - 1) \div 8 \in Nat
      BY <3>1
    <3> DEFINE last == (size - 1) \div 8
    <3> HIDE DEF last
    <3>4. byte + 2 \in 1..Len(data)
      BY <1>1, <2>1, <3>2, <3>3, OctetsAre DEF last
    <3> QED
      BY <2>1, <3>4, OctetsAre
  <2>2. CASE ~((size - 1) \div 8 > byte)
    BY <2>2, ZeroBits
  <2> QED
    BY <2>1, <2>2
<1>4. Window(data, size, from) = z
  BY DEF Window, Pair
<1>5. z \in Octet /\ \A k \in Places : Bit(z, k) = IF k + s <= 7 THEN Bit(x, k + s) ELSE Bit(next, k + s - 8)
  <2> HIDE DEF next, x, s
  <2> QED
    BY <1>1, <1>2, <1>3, PairBits
<1>6. ASSUME NEW k \in Places, from + k < size PROVE Bit(z, k) = BitIn(data, from + k)
  <2>1. CASE k + s <= 7
    <3>1. (from + k) \div 8 = byte /\ (from + k) % 8 = k + s
      BY <2>1, Place
    <3> HIDE DEF byte, s, z
    <3> QED
      BY <1>5, <2>1, <3>1 DEF BitIn
  <2>2. CASE ~(k + s <= 7)
    <3>1. (from + k) \div 8 = byte + 1 /\ (from + k) % 8 = k + s - 8
      BY <2>2, Place
    <3>2. (size - 1) \div 8 > byte
      <4>1. from + k \in Nat /\ size - 1 \in Nat /\ from + k <= size - 1
        BY <1>6 DEF Places
      <4> DEFINE g == from + k  h == size - 1
      <4> HIDE DEF g, h
      <4>2. g \div 8 <= h \div 8
        BY <4>1 DEF g, h
      <4>3. g \div 8 = byte + 1 /\ h \div 8 \in Int
        BY <3>1, <4>1 DEF g, h
      <4> HIDE DEF byte
      <4>4. h \div 8 > byte
        BY <1>1, <4>2, <4>3
      <4> QED
        BY <4>4 DEF h
    <3>3. next = data[byte + 2] /\ byte + 1 + 1 = byte + 2
      BY <1>1, <3>2
    <3> HIDE DEF byte, s, z, next
    <3> QED
      BY <1>5, <2>2, <3>1, <3>3 DEF BitIn
  <2> QED
    BY <2>1, <2>2
<1> QED
  BY <1>4, <1>5, <1>6

\* The writing loop puts the bits of the value where they belong, and leaves the
\* others.
LEMMA FilledBits ==
  ASSUME NEW b \in Octets, NEW start \in Nat, NEW data \in Octets, NEW size \in Nat, size > 0,
         size <= 8 * Len(data), start + size <= 8 * Len(b)
  PROVE  /\ Filled(b, start, data, size) \in Octets /\ Len(Filled(b, start, data, size)) = Len(b)
         /\ \A i \in Nat : i < 8 * Len(b) =>
              BitIn(Filled(b, start, data, size), i)
                = IF start <= i /\ i < start + size THEN BitIn(data, i - start) ELSE BitIn(b, i)
<1> DEFINE from(i) == Most(start, 8 * (i - 1))
           n(i) == Least(start + size, 8 * i) - from(i)
           new(i) == IF n(i) > 0
                     THEN Merged(b[i], Window(data, size, from(i) - start), from(i) % 8, n(i))
                     ELSE b[i]
           f == [i \in 1..Len(b) |-> new(i)]
           Right(j, k, g) ==
             Bit(new(j), k) = IF start <= g /\ g < start + size THEN BitIn(data, g - start)
                              ELSE Bit(b[j], k)
<1>1. f = Filled(b, start, data, size)
  <2>1. DOMAIN b = 1..Len(b)
    BY DEF Octets
  <2> QED
    BY <2>1 DEF Filled
<1>2. ASSUME NEW i \in 1..Len(b)
      PROVE  /\ new(i) \in Octet
             /\ \A k \in Places : Right(i, k, 8 * (i - 1) + k)
  <2> DEFINE base == 8 * (i - 1)
             F == from(i)
             N == n(i)
             pos == F % 8
             w == Window(data, size, F - start)
  <2>1. i \in Nat /\ base \in Nat /\ 8 * i = base + 8 /\ b[i] \in Octet
    BY OctetsAre
  <2>2. F = IF start < base THEN base ELSE start
    BY DEF Most
  <2>7. start \in Nat /\ size \in Nat
    OBVIOUS
  <2>3. N = (IF start + size < base + 8 THEN start + size ELSE base + 8) - F
    BY <2>1 DEF Least
  <2>4. base % 8 = 0
    BY <2>1
  <2> HIDE DEF base, F, N
  <2>5. CASE N > 0
    <3>1. /\ F \in Nat /\ F >= start /\ F >= base /\ F < base + 8 /\ F < start + size /\ N \in 1..8
          /\ F + N <= base + 8 /\ F + N <= start + size
          /\ F + N = base + 8 \/ F + N = start + size
          /\ F = start \/ F = base
      <4>1. CASE start < base
        BY <2>1, <2>2, <2>3, <2>5, <2>7, <4>1
      <4>2. CASE ~(start < base)
        BY <2>1, <2>2, <2>3, <2>5, <2>7, <4>2
      <4> QED
        BY <4>1, <4>2
    <3>2. pos = F - base /\ pos \in 0..7 /\ pos + N <= 8
      <4>1. pos = F - base
        <5> DEFINE g == i - 1  r == F - base
        <5>1. g \in Nat /\ r \in Nat /\ r < 8
          BY <2>1, <3>1
        <5>2. F = r + 8 * g
          BY <2>1, <3>1 DEF base
        <5> HIDE DEF g, r
        <5>3. (r + 8 * g) % 8 = r
          BY <5>1, CutAt
        <5> QED
          BY <5>2, <5>3 DEF r
      <4> HIDE DEF pos
      <4> QED
        BY <2>1, <3>1, <4>1
    <3>3. F - start \in Nat /\ F - start < size
      BY <3>1
    <3>4. w \in Octet /\ \A k \in Places : (F - start) + k < size => Bit(w, k) = BitIn(data, (F - start) + k)
      <4> DEFINE g == F - start
      <4> HIDE DEF g
      <4>1. Window(data, size, g) \in Octet
            /\ \A k \in Places : g + k < size => Bit(Window(data, size, g), k) = BitIn(data, g + k)
        BY <3>3, WindowBits DEF g
      <4> QED
        BY <4>1 DEF g
    <3>5. new(i) = Merged(b[i], w, pos, N)
      BY <2>5 DEF F, N
    <3> HIDE DEF pos, w, new
    <3>6. /\ new(i) \in Octet
          /\ \A k \in Places : Bit(new(i), k)
               = IF pos <= k /\ k < pos + N THEN Bit(w, k - pos) ELSE Bit(b[i], k)
      <4>1. /\ Merged(b[i], w, pos, N) \in Octet
            /\ \A k \in Places : Bit(Merged(b[i], w, pos, N), k)
                 = IF pos <= k /\ k < pos + N THEN Bit(w, k - pos) ELSE Bit(b[i], k)
        <5>1. b[i] \in Octet /\ w \in Octet /\ pos \in 0..7 /\ N \in 1..8 /\ pos + N <= 8
          BY <2>1, <3>1, <3>2, <3>4
        <5> QED
          BY <5>1, MergedBits
      <4> QED
        BY <3>5, <4>1
    <3>7. ASSUME NEW k \in Places
          PROVE  Right(i, k, base + k)
      <4>1. pos <= k /\ k < pos + N <=> start <= base + k /\ base + k < start + size
        BY <2>1, <2>7, <3>1, <3>2 DEF Places
      <4>2. CASE pos <= k /\ k < pos + N
        <5> DEFINE g == base + k
                   h == k - pos
        <5>1. h \in Places /\ (F - start) + h = g - start /\ (F - start) + h < size
              /\ start <= g /\ g < start + size
          BY <2>1, <2>7, <3>1, <3>2, <4>1, <4>2 DEF Places
        <5>2. Bit(new(i), k) = Bit(w, h)
          BY <3>6, <4>2
        <5> HIDE DEF g, h
        <5>3. Bit(w, h) = BitIn(data, g - start)
          BY <3>4, <5>1
        <5>4. Right(i, k, g)
          BY <5>1, <5>2, <5>3
        <5> QED
          BY <5>4 DEF g
      <4>3. CASE ~(pos <= k /\ k < pos + N)
        <5>1. Bit(new(i), k) = Bit(b[i], k)
          BY <3>6, <4>3
        <5> DEFINE g == base + k
        <5>2. ~(start <= g /\ g < start + size)
          BY <4>1, <4>3
        <5> HIDE DEF g
        <5>3. Right(i, k, g)
          BY <5>1, <5>2
        <5> QED
          BY <5>3 DEF g
      <4> QED
        BY <4>2, <4>3
    <3> QED
      BY <3>6, <3>7 DEF base
  <2>6. CASE ~(N > 0)
    <3>1. new(i) = b[i]
      BY <2>6 DEF N
    <3>2. \A k \in Places : ~(start <= base + k /\ base + k < start + size)
      BY <2>1, <2>2, <2>3, <2>6 DEF Places
    <3> HIDE DEF new
    <3> QED
      BY <2>1, <3>1, <3>2 DEF base
  <2> QED
    BY <2>5, <2>6
<1> HIDE DEF new
<1>3. f \in Octets /\ Len(f) = Len(b) /\ \A i \in 1..Len(b) : f[i] = new(i)
  BY <1>2, OctetsAre DEF Octets
<1> HIDE DEF f, Right
<1>4. ASSUME NEW i \in Nat, i < 8 * Len(b)
      PROVE  BitIn(f, i) = IF start <= i /\ i < start + size THEN BitIn(data, i - start) ELSE BitIn(b, i)
  <2> DEFINE j == (i \div 8) + 1  k == i % 8
  <2>1. j \in 1..Len(b)
    BY <1>4, OctetsAre
  <2>2. k \in Places /\ 8 * (j - 1) + k = i
    <3>1. 0 \in Places
      BY DEF Places
    <3>2. i \div 8 \in Nat /\ i % 8 \in Places /\ i = 8 * (i \div 8) + (i % 8)
      BY <3>1, Place
    <3> QED
      BY <3>2
  <2>3. BitIn(f, i) = Bit(f[j], k) /\ BitIn(b, i) = Bit(b[j], k)
    BY DEF BitIn
  <2> HIDE DEF j, k
  <2> HIDE DEF Right
  <2>4. Right(j, k, i)
    <3>1. Right(j, k, 8 * (j - 1) + k)
      BY <1>2, <2>1, <2>2
    <3> QED
      BY <2>2, <3>1
  <2>6. f[j] = new(j)
    BY <1>3, <2>1
  <2> QED
    BY <2>3, <2>4, <2>6 DEF Right
<1> QED
  BY <1>1, <1>3, <1>4

-----------------------------------------------------------------------------
(* What the reading loop takes.                                            *)

\* Up to eight bits out of one byte, and out of two.
Short(x, s, n) == (x \div 2^s) % 2^n
Long(x, y, s, n) == (x \div 2^s) + ((y * 2^(8 - s)) % 2^n)

LEMMA ShortBits ==
  ASSUME NEW x \in Octet, NEW s \in 0..7, NEW n \in 1..8, n + s <= 8
  PROVE  /\ Short(x, s, n) \in Octet
         /\ \A k \in Places : Bit(Short(x, s, n), k) = IF k < n THEN Bit(x, k + s) ELSE 0
<1> DEFINE low == x \div 2^s
<1>1. s \in 0..8 /\ n \in 0..8
  OBVIOUS
<1>2. low \in Octet /\ \A k \in Places : Bit(low, k) = IF k + s <= 7 THEN Bit(x, k + s) ELSE 0
  BY <1>1, Halves
<1> HIDE DEF low
<1>3. low % 2^n \in Octet /\ \A k \in Places : Bit(low % 2^n, k) = IF k < n THEN Bit(low, k) ELSE 0
  BY <1>1, <1>2, Halves
<1>4. Short(x, s, n) = low % 2^n
  BY DEF Short, low
<1> DEFINE z == low % 2^n
<1> HIDE DEF z
<1>5. ASSUME NEW k \in Places PROVE Bit(z, k) = IF k < n THEN Bit(x, k + s) ELSE 0
  <2>1. k < n => k + s <= 7
    BY DEF Places
  <2> QED
    BY <1>2, <1>3, <2>1 DEF z
<1> QED
  BY <1>3, <1>4, <1>5 DEF z

LEMMA LongBits ==
  ASSUME NEW x \in Octet, NEW y \in Octet, NEW s \in 0..7, NEW n \in 1..8, n + s > 8
  PROVE  /\ Long(x, y, s, n) \in Octet
         /\ \A k \in Places : Bit(Long(x, y, s, n), k)
              = IF k < n THEN (IF k + s <= 7 THEN Bit(x, k + s) ELSE Bit(y, k + s - 8)) ELSE 0
<1> DEFINE q == 8 - s
           low == x \div 2^s
           whole == y * 2^q
           up == Up(y, q)
           high == up % 2^n
<1>1. s \in 0..8 /\ n \in 0..8 /\ q \in 0..8
  OBVIOUS
<1> HIDE DEF q
<1>2. low \in Octet /\ \A k \in Places : Bit(low, k) = IF k + s <= 7 THEN Bit(x, k + s) ELSE 0
  BY <1>1, Halves
<1>3. up \in Octet /\ \A k \in Places : Bit(up, k) = IF k >= q THEN Bit(y, k - q) ELSE 0
  BY <1>1, Multiple
<1>4. whole \in Nat
  <2> DEFINE m == 2^q
  <2>1. m \in {1, 2, 4, 8, 16, 32, 64, 128, 256}
    BY <1>1, EachPower
  <2> HIDE DEF m
  <2>2. m \in Nat /\ y \in Nat
    BY <2>1 DEF Octet
  <2>3. y * m \in Nat
    BY <2>2
  <2> QED
    BY <2>3 DEF m
<1>5. up = whole % 256
  BY DEF Up
<1> HIDE DEF low, whole, up
<1>6. high \in Octet /\ \A k \in Places : Bit(high, k) = IF k < n THEN Bit(up, k) ELSE 0
  BY <1>1, <1>3, Halves
<1>7. whole % 2^n = high
  BY <1>1, <1>4, <1>5, Remainders
<1> HIDE DEF high
<1>8. low + high \in Octet /\ \A k \in Places : Bit(low + high, k) = Bit(low, k) + Bit(high, k)
  <2>1. \A k \in Places : Bit(low, k) = 0 \/ Bit(high, k) = 0
    BY <1>2, <1>3, <1>6 DEF Places, q
  <2> QED
    BY <1>2, <1>6, <2>1, Beside
<1> DEFINE z == low + high
<1>9. ASSUME NEW k \in Places
      PROVE  Bit(z, k) = IF k < n THEN (IF k + s <= 7 THEN Bit(x, k + s) ELSE Bit(y, k + s - 8)) ELSE 0
  <2>1. Bit(z, k) = Bit(low, k) + Bit(high, k)
    BY <1>8
  <2> HIDE DEF z
  <2>2. CASE k + s <= 7
    <3>1. k < n /\ ~(k >= q) /\ k + s \in Places
      BY <2>2 DEF Places, q
    <3>2. Bit(x, k + s) \in {0, 1} /\ Bit(low, k) = Bit(x, k + s) /\ Bit(high, k) = 0
      BY <1>2, <1>3, <1>6, <2>2, <3>1, BitIsBinary
    <3> QED
      BY <2>1, <2>2, <3>1, <3>2
  <2>3. CASE ~(k + s <= 7) /\ k < n
    <3>1. k >= q /\ k - q = k + s - 8 /\ k - q \in Places
      BY <2>3 DEF Places, q
    <3>2. Bit(y, k - q) \in {0, 1} /\ Bit(low, k) = 0 /\ Bit(high, k) = Bit(y, k - q)
      BY <1>2, <1>3, <1>6, <2>3, <3>1, BitIsBinary
    <3>3. Bit(z, k) = Bit(y, k - q)
      BY <2>1, <3>2
    <3> QED
      BY <2>3, <3>1, <3>3
  <2>4. CASE ~(k < n)
    <3>1. ~(k + s <= 7)
      BY <2>4 DEF Places
    <3>2. Bit(low, k) = 0 /\ Bit(high, k) = 0
      BY <1>2, <1>6, <2>4, <3>1
    <3> QED
      BY <2>1, <2>4, <3>2
  <2> QED
    BY <2>2, <2>3, <2>4
<1>10. Long(x, y, s, n) = z
  BY <1>7 DEF Long, whole, low, q
<1> HIDE DEF z
<1>11. z \in Octet
  BY <1>8 DEF z
<1> QED
  BY <1>9, <1>10, <1>11

LEMMA TakenBits ==
  ASSUME buffer \in Octets, NEW i \in Nat, NEW n \in 1..8, i + n <= 8 * Len(buffer)
  PROVE  /\ Taken(i, n) \in Octet
         /\ \A k \in Places : Bit(Taken(i, n), k) = IF k < n THEN BitIn(buffer, i + k) ELSE 0
<1> DEFINE q == i \div 8
           s == i % 8
           x == buffer[q + 1]
           y == buffer[q + 2]
<1>1. q \in Nat /\ s \in 0..7 /\ i = 8 * q + s /\ Len(buffer) \in Nat
  <2>1. 0 \in Places
    BY DEF Places
  <2> QED
    BY <2>1, Place, OctetsAre DEF Places
<1>2. x \in Octet
  <2>1. q + 1 \in 1..Len(buffer)
    <3>1. i < 8 * Len(buffer)
      BY <1>1
    <3> QED
      BY <3>1, OctetsAre
  <2> QED
    BY <2>1, OctetsAre
<1>3. CASE n + s <= 8
  <2>1. Taken(i, n) = Short(x, s, n)
    BY <1>3 DEF Taken, Short
  <2>2. ASSUME NEW k \in Places, k < n PROVE Bit(x, k + s) = BitIn(buffer, i + k)
    <3>1. (i + k) \div 8 = q /\ (i + k) % 8 = k + s
      BY <1>1, <1>3, <2>2, Place DEF Places
    <3> HIDE DEF q, s
    <3> QED
      BY <3>1 DEF BitIn
  <2> HIDE DEF x, s
  <2>3. /\ Short(x, s, n) \in Octet
        /\ \A k \in Places : Bit(Short(x, s, n), k) = IF k < n THEN Bit(x, k + s) ELSE 0
    BY <1>1, <1>2, <1>3, ShortBits
  <2> QED
    BY <2>1, <2>2, <2>3
<1>4. CASE n + s > 8
  <2>1. Taken(i, n) = Long(x, y, s, n)
    <3>1. ~(n + s <= 8)
      BY <1>1, <1>4
    <3> QED
      BY <3>1 DEF Taken, Long
  <2>2. ASSUME NEW k \in Places, k < n
        PROVE  BitIn(buffer, i + k) = IF k + s <= 7 THEN Bit(x, k + s) ELSE Bit(y, k + s - 8)
    <3>1. k + s <= 7 => (i + k) \div 8 = q /\ (i + k) % 8 = k + s
      BY Place
    <3>2. ~(k + s <= 7) => (i + k) \div 8 = q + 1 /\ (i + k) % 8 = k + s - 8
      BY Place
    <3>3. q + 1 + 1 = q + 2
      BY <1>1
    <3> HIDE DEF q, s
    <3> QED
      BY <3>1, <3>2, <3>3 DEF BitIn
  <2>3. y \in Octet
    <3> HIDE DEF q, s
    <3>1. q + 2 \in 1..Len(buffer)
      BY <1>1, <1>4
    <3> QED
      BY <3>1, OctetsAre
  <2> HIDE DEF x, y, s
  <2>4. /\ Long(x, y, s, n) \in Octet
        /\ \A k \in Places : Bit(Long(x, y, s, n), k)
             = IF k < n THEN (IF k + s <= 7 THEN Bit(x, k + s) ELSE Bit(y, k + s - 8)) ELSE 0
    BY <1>1, <1>2, <1>4, <2>3, LongBits
  <2> QED
    BY <2>1, <2>2, <2>4
<1> QED
  BY <1>1, <1>3, <1>4

\* Data of so many bits, and where a buffer has them.
Whole(data, n) ==
  /\ data \in Octets /\ n \in Nat /\ n > 0 /\ Len(data) = (n + 7) \div 8
  /\ \A i \in Nat : n <= i /\ i < 8 * Len(data) => BitIn(data, i) = 0
Holds(b, start, data, n) ==
  /\ start + n <= 8 * Len(b)
  /\ \A k \in Nat : k < n => BitIn(b, start + k) = BitIn(data, k)

LEMMA WholeIs ==
  ASSUME NEW data, NEW n, Whole(data, n)
  PROVE  /\ data \in Octets /\ n \in Nat /\ n > 0 /\ Len(data) \in Nat /\ n <= 8 * Len(data)
         /\ \A i \in 1..Len(data) : 8 * (i - 1) < n
<1>1. data \in Octets /\ n \in Nat /\ n > 0 /\ Len(data) = (n + 7) \div 8
  BY DEF Whole
<1>2. Len(data) \in Nat
  BY <1>1, OctetsAre
<1> QED
  BY <1>1, <1>2

LEMMA TookIs ==
  ASSUME buffer \in Octets, NEW start \in Nat, NEW data, NEW n, Whole(data, n),
         Holds(buffer, start, data, n)
  PROVE  Took(start, n) = data
<1>1. /\ data \in Octets /\ n \in Nat /\ n > 0 /\ Len(data) \in Nat /\ n <= 8 * Len(data)
      /\ Len(data) = (n + 7) \div 8
      /\ \A i \in 1..Len(data) : 8 * (i - 1) < n
  BY WholeIs DEF Whole
<1>2. ASSUME NEW i \in 1..Len(data)
      PROVE  Taken(start + 8 * (i - 1), Least(n - 8 * (i - 1), 8)) = data[i]
  <2> DEFINE base == 8 * (i - 1)
             g == start + base
             m == Least(n - base, 8)
  <2>8. data[i] \in Octet
    BY <1>1, OctetsAre
  <2>9. base \in Nat /\ base < n /\ g \in Nat
    BY <1>1
  <2>1. base \in Nat /\ base < n /\ g \in Nat /\ data[i] \in Octet
    BY <2>8, <2>9
  <2>2. m \in 1..8 /\ base + m <= n /\ (m = 8 \/ base + m = n)
    <3> HIDE DEF base
    <3> QED
      BY <1>1, <2>1 DEF Least
  <2>3. g + m <= 8 * Len(buffer)
    <3> HIDE DEF base, m
    <3>1. start + n <= 8 * Len(buffer) /\ Len(buffer) \in Nat
      BY OctetsAre DEF Holds
    <3> QED
      BY <1>1, <2>1, <2>2, <3>1
  <2> DEFINE z == Taken(g, m)
  <2>4. z \in Octet /\ \A k \in Places : Bit(z, k) = IF k < m THEN BitIn(buffer, g + k) ELSE 0
    <3> HIDE DEF g, m
    <3> QED
      BY <2>1, <2>2, <2>3, TakenBits
  <2>5. ASSUME NEW k \in Places PROVE BitIn(data, base + k) = Bit(data[i], k)
    <3> DEFINE j == i - 1  h == base + k
    <3>1. j \in Nat /\ h = k + 8 * j /\ k \in Nat /\ k < 8
      BY <2>1 DEF Places
    <3> HIDE DEF j, h
    <3>2. h % 8 = k /\ h \div 8 = j
      BY <3>1, CutAt
    <3>3. j + 1 = i
      BY <1>1 DEF j
    <3>4. BitIn(data, h) = Bit(data[i], k)
      BY <3>2, <3>3 DEF BitIn
    <3> QED
      BY <3>4 DEF h
  <2>6. ASSUME NEW k \in Places PROVE Bit(z, k) = Bit(data[i], k)
    <3> DEFINE h == base + k
    <3>1. h \in Nat /\ start + h = g + k /\ h < 8 * Len(data)
      BY <1>1, <2>1 DEF Places
    <3>2. BitIn(data, h) = Bit(data[i], k)
      BY <2>5
    <3>3. CASE k < m
      <4>1. h < n
        <5> HIDE DEF base, m
        <5> QED
          BY <1>1, <2>1, <2>2, <3>3 DEF Places
      <4> HIDE DEF h, g, m, z
      <4>2. BitIn(buffer, start + h) = BitIn(data, h)
        BY <3>1, <4>1 DEF Holds
      <4> QED
        BY <2>4, <3>1, <3>2, <3>3, <4>2
    <3>4. CASE ~(k < m)
      <4>1. n <= h
        <5> HIDE DEF base, m
        <5> QED
          BY <1>1, <2>1, <2>2, <3>4 DEF Places
      <4> HIDE DEF h, g, m, z
      <4>2. BitIn(data, h) = 0
        BY <3>1, <4>1 DEF Whole
      <4> QED
        BY <2>4, <3>2, <3>4, <4>2
    <3> QED
      BY <3>3, <3>4
  <2>7. z = data[i]
    <3> HIDE DEF z
    <3> QED
      BY <2>1, <2>4, <2>6, SameBits
  <2> QED
    BY <2>7
<1>3. data = [i \in 1..Len(data) |-> data[i]]
  BY <1>1 DEF Octets
<1>4. Took(start, n) = [i \in 1..Len(data) |-> data[i]]
  BY <1>1, <1>2 DEF Took
<1> QED
  BY <1>3, <1>4

LEMMA TookOctets ==
  ASSUME buffer \in Octets, NEW start \in Nat, NEW n \in Nat, Fits(start, n)
  PROVE  Took(start, n) \in Octets
<1>1. (n + 7) \div 8 \in Nat
  OBVIOUS
<1>2. ASSUME NEW i \in 1..((n + 7) \div 8)
      PROVE  Taken(start + 8 * (i - 1), Least(n - 8 * (i - 1), 8)) \in Octet
  <2> DEFINE base == 8 * (i - 1)
             g == start + base
             m == Least(n - base, 8)
  <2>1. base \in Nat /\ base < n /\ g \in Nat
    OBVIOUS
  <2>2. m \in 1..8 /\ base + m <= n
    <3> HIDE DEF base
    <3> QED
      BY <2>1 DEF Least
  <2>3. g + m <= 8 * Len(buffer)
    <3> HIDE DEF base, m
    <3>1. start + n <= 8 * Len(buffer) /\ Len(buffer) \in Nat
      BY OctetsAre DEF Fits
    <3> QED
      BY <2>1, <2>2, <3>1
  <2> HIDE DEF g, m
  <2>4. Taken(g, m) \in Octet
    BY <2>1, <2>2, <2>3, TakenBits
  <2> QED
    BY <2>4 DEF g, m
<1> DEFINE last == (n + 7) \div 8
<1> HIDE DEF last
<1>3. [i \in 1..last |-> Taken(start + 8 * (i - 1), Least(n - 8 * (i - 1), 8))] \in Seq(Octet)
  BY <1>1, <1>2 DEF last
<1> QED
  BY <1>3 DEF Took, Octets, last

LEMMA WroteIs ==
  ASSUME NEW b \in Octets, NEW start \in Nat, start <= 8 * Len(b), NEW data, NEW n, Whole(data, n)
  PROVE  /\ Wrote(b, start, data, n) \in Octets
         /\ Holds(Wrote(b, start, data, n), start, data, n)
         /\ \A i \in Nat : i < start => BitIn(Wrote(b, start, data, n), i) = BitIn(b, i)
<1> DEFINE more == (n \div 8) + 1
           zeros == [i \in 1..more |-> 0]
           c == Grown(b, n)
           w == Wrote(b, start, data, n)
<1>1. data \in Octets /\ n \in Nat /\ n > 0 /\ n <= 8 * Len(data) /\ Len(b) \in Nat
  BY WholeIs, OctetsAre
<1>2. more \in Nat /\ 8 * more > n
  BY <1>1
<1>3. zeros \in Octets /\ Len(zeros) = more
  <2> HIDE DEF more
  <2> QED
    BY <1>2, ZeroBits DEF Octets
<1>4. c = b \o zeros
  BY DEF Grown
<1> HIDE DEF more, zeros, c
<1>5. /\ c \in Octets /\ Len(c) = Len(b) + more
      /\ \A i \in 1..Len(b) : c[i] = b[i]
  <2>1. b \in Seq(Octet) /\ zeros \in Seq(Octet)
    BY <1>3 DEF Octets
  <2>2. /\ b \o zeros \in Seq(Octet) /\ Len(b \o zeros) = Len(b) + Len(zeros)
        /\ \A i \in 1..(Len(b) + Len(zeros)) :
             (b \o zeros)[i] = IF i <= Len(b) THEN b[i] ELSE zeros[i - Len(b)]
    BY <2>1, ConcatProperties
  <2>3. \A i \in 1..Len(b) : i \in 1..(Len(b) + Len(zeros)) /\ i <= Len(b)
    BY <1>1, <1>2, <1>3
  <2> QED
    BY <1>3, <1>4, <2>2, <2>3 DEF Octets
<1>6. start + n <= 8 * Len(c)
  BY <1>1, <1>2, <1>5
<1>7. w = Filled(c, start, data, n)
  BY DEF Wrote, c
<1>8. /\ w \in Octets /\ Len(w) = Len(c)
      /\ \A i \in Nat : i < 8 * Len(c) =>
           BitIn(w, i) = IF start <= i /\ i < start + n THEN BitIn(data, i - start) ELSE BitIn(c, i)
  BY <1>1, <1>5, <1>6, <1>7, FilledBits
<1> HIDE DEF w
<1>9. ASSUME NEW k \in Nat, k < n PROVE BitIn(w, start + k) = BitIn(data, k)
  <2> DEFINE i == start + k
  <2>1. i \in Nat /\ i < 8 * Len(c) /\ start <= i /\ i < start + n /\ i - start = k
    BY <1>1, <1>5, <1>6, <1>9
  <2> HIDE DEF i
  <2>2. BitIn(w, i) = BitIn(data, k)
    BY <1>8, <2>1
  <2> QED
    BY <2>2 DEF i
<1>10. ASSUME NEW i \in Nat, i < start PROVE BitIn(w, i) = BitIn(b, i)
  <2>1. i < 8 * Len(c) /\ ~(start <= i) /\ i < 8 * Len(b)
    BY <1>1, <1>2, <1>5, <1>10
  <2>2. (i \div 8) + 1 \in 1..Len(b)
    BY <2>1, OctetsAre
  <2>3. BitIn(c, i) = BitIn(b, i)
    BY <1>5, <2>2 DEF BitIn
  <2> QED
    BY <1>8, <2>1, <2>3
<1>11. Holds(w, start, data, n)
  BY <1>6, <1>8, <1>9 DEF Holds
<1> QED
  BY <1>8, <1>10, <1>11 DEF w

-----------------------------------------------------------------------------
LEMMA SmallBits ==
  ASSUME NEW x \in Octet, NEW n \in 0..8, x < 2^n
  PROVE  \A k \in Places : k >= n => Bit(x, k) = 0
<1>1. x % 2^n = x
  <2> DEFINE m == 2^n
  <2>1. m \in {1, 2, 4, 8, 16, 32, 64, 128, 256} /\ x < m
    BY EachPower
  <2> HIDE DEF m
  <2>2. x % m = x
    BY <2>1 DEF Octet
  <2> QED
    BY <2>2 DEF m
<1>2. \A k \in Places : Bit(x % 2^n, k) = IF k < n THEN Bit(x, k) ELSE 0
  BY Halves
<1> DEFINE y == x % 2^n
<1> HIDE DEF y
<1>3. y = x /\ \A k \in Places : Bit(y, k) = IF k < n THEN Bit(x, k) ELSE 0
  BY <1>1, <1>2 DEF y
<1> QED
  BY <1>3 DEF Places

LEMMA SmallWhole ==
  ASSUME NEW x \in Octet, NEW n \in 1..8, x < 2^n
  PROVE  Whole(<<x>>, n)
<1>1. <<x>> \in Octets /\ Len(<<x>>) = 1 /\ (n + 7) \div 8 = 1 /\ n \in Nat /\ n > 0
  BY DEF Octets
<1>2. ASSUME NEW i \in Nat, n <= i, i < 8 PROVE BitIn(<<x>>, i) = 0
  <2>1. i \in Places /\ i \div 8 = 0 /\ i % 8 = i /\ i >= n
    BY <1>2 DEF Places
  <2>3. n \in 0..8
    OBVIOUS
  <2>2. Bit(x, i) = 0
    BY <2>1, <2>3, SmallBits
  <2> QED
    BY <2>1, <2>2 DEF BitIn
<1> QED
  BY <1>1, <1>2 DEF Whole

LEMMA FullWhole ==
  ASSUME NEW data \in Octets, Len(data) > 0
  PROVE  Whole(data, 8 * Len(data))
<1>1. Len(data) \in Nat
  BY OctetsAre
<1>2. (8 * Len(data) + 7) \div 8 = Len(data) /\ 8 * Len(data) \in Nat /\ 8 * Len(data) > 0
  BY <1>1
<1> QED
  BY <1>1, <1>2 DEF Whole

-----------------------------------------------------------------------------
(* Where the values are in a bit buffer.                                   *)

\* The bits in front of a value, and the value with them.
TagBits(typed, kind) == IF typed /\ kind # "bytes" THEN 5 ELSE 0
Kept(typed, b, from, to, v) ==
  LET tag == TagBits(typed, v.kind)
  IN  /\ to = from + tag + Bits(v)
      /\ tag > 0 => Holds(b, from, <<Type(v.kind)>>, 5)
      /\ Holds(b, from + tag, v.data, Bits(v))
Packed(typed, pos, b, values, end) ==
  /\ pos \in [0..Len(values) -> Nat]
  /\ pos[0] = 0 /\ pos[Len(values)] = end
  /\ \A n \in 1..Len(values) :
       Kept(typed, b, pos[n - 1], pos[n], values[n]) /\ pos[n] <= end

Reads == [ok : BOOLEAN, data : Octets, kind : {"bool", "uint32", "bytes"}, bits : Nat]
BitsInv ==
  /\ types \in BOOLEAN /\ buffer \in Octets /\ written \in Seq(Values) /\ read \in Seq(Reads)
  /\ current_bit_ \in Nat /\ current_bit_ <= 8 * Len(buffer)
  /\ reader \in Nat \cup {-1} /\ (reader = -1 => read = <<>>)
  /\ \E pos : /\ Packed(types, pos, buffer, written, current_bit_)
              /\ reader # -1 /\ InStep(Len(read)) => reader = pos[Len(read)]
  /\ ReadsWhatWasWritten

LEMMA TypesAre ==
  ASSUME NEW kind, kind \in {"bool", "int32", "uint32"}
  PROVE  /\ Type(kind) \in {1, 7, 8} /\ Whole(<<Type(kind)>>, 5)
         /\ \A k \in {"bool", "int32", "uint32"} : Type(k) = Type(kind) => k = kind
<1>1. Type("bool") = 1 /\ Type("int32") = 7 /\ Type("uint32") = 8
  BY DEF Type
<1>2. Type(kind) \in {1, 7, 8}
  BY <1>1
<1>3. Type(kind) \in Octet /\ Type(kind) < 2^5
  BY <1>2, Powers DEF Octet
<1>4. Whole(<<Type(kind)>>, 5)
  <2>1. 5 \in 1..8
    OBVIOUS
  <2> QED
    BY <1>3, <2>1, SmallWhole
<1> QED
  BY <1>1, <1>2, <1>4

LEMMA ValuesHave ==
  ASSUME NEW v \in Values
  PROVE  /\ v.kind \in {"bool", "int32", "uint32", "bytes"} /\ Whole(v.data, Bits(v))
         /\ Bits(v) \in Nat
<1>1. CASE v.kind = "bool"
  <2>1. PICK x \in {0, 1} : v.data = <<x>>
    BY <1>1 DEF Values
  <2>2. Bits(v) = 1
    BY <1>1 DEF Bits
  <2>3. x \in Octet /\ x < 2^1 /\ 1 \in 1..8
    BY Powers DEF Octet
  <2>4. Whole(<<x>>, 1)
    BY <2>3, SmallWhole
  <2> QED
    BY <1>1, <2>1, <2>2, <2>4
<1>2. CASE v.kind # "bool"
  <2>1. /\ v.kind \in {"int32", "uint32", "bytes"}
        /\ v.data \in Words \cup [1..1 -> Bytes] \cup [1..2 -> Bytes]
    BY <1>2 DEF Values
  <2>2. Bits(v) = 8 * Len(v.data)
    BY <1>2 DEF Bits
  <2>3. v.data \in Octets /\ Len(v.data) \in Nat /\ Len(v.data) > 0
    <3> DEFINE d == v.data
    <3> HIDE DEF d
    <3>5. Words \subseteq [1..4 -> Octet] /\ Bytes \subseteq Octet
      BY BytesAssumption DEF Octet
    <3>1. CASE d \in Words
      <4>1. d \in [1..4 -> Octet]
        BY <3>1, <3>5
      <4>2. d \in Octets
        BY <4>1, SeqDef DEF Octets
      <4>3. Len(d) = 4
        BY <4>1
      <4> QED
        BY <4>2, <4>3 DEF d
    <3>2. CASE d \in [1..1 -> Bytes]
      <4>1. d \in [1..1 -> Octet]
        BY <3>2, <3>5
      <4>2. d \in Octets
        BY <4>1, SeqDef DEF Octets
      <4>3. Len(d) = 1
        BY <4>1
      <4> QED
        BY <4>2, <4>3 DEF d
    <3>3. CASE d \in [1..2 -> Bytes]
      <4>1. d \in [1..2 -> Octet]
        BY <3>3, <3>5
      <4>2. d \in Octets
        BY <4>1, SeqDef DEF Octets
      <4>3. Len(d) = 2
        BY <4>1
      <4> QED
        BY <4>2, <4>3 DEF d
    <3> QED
      BY <2>1, <3>1, <3>2, <3>3 DEF d
  <2>4. Whole(v.data, Bits(v))
    BY <2>2, <2>3, FullWhole
  <2> QED
    BY <2>1, <2>4 DEF Whole
<1> QED
  BY <1>1, <1>2 DEF Whole

LEMMA TagBitsAre ==
  ASSUME NEW typed \in BOOLEAN, NEW kind
  PROVE  TagBits(typed, kind) \in {0, 5} /\ (TagBits(typed, kind) > 0 <=> typed /\ kind # "bytes")
  BY DEF TagBits

\* A value stays where nothing changes up to its end.
LEMMA KeptOn ==
  ASSUME NEW typed \in BOOLEAN, NEW b \in Octets, NEW c \in Octets, NEW from \in Nat, NEW to \in Nat,
         NEW v \in Values, Kept(typed, b, from, to, v), to <= 8 * Len(c),
         \A i \in Nat : i < to => BitIn(c, i) = BitIn(b, i)
  PROVE  Kept(typed, c, from, to, v)
<1> DEFINE tag == TagBits(typed, v.kind)
           size == Bits(v)
<1>1. tag \in Nat /\ size \in Nat /\ to = from + tag + size /\ tag \in {0, 5}
  BY TagBitsAre, ValuesHave DEF Kept
<1>2. ASSUME NEW data, NEW start \in Nat, NEW n \in Nat, start + n <= to, Holds(b, start, data, n)
      PROVE  Holds(c, start, data, n)
  <2>1. start + n <= 8 * Len(c)
    BY <1>1, <1>2, OctetsAre
  <2>2. ASSUME NEW k \in Nat, k < n PROVE BitIn(c, start + k) = BitIn(data, k)
    <3> DEFINE i == start + k
    <3>1. i \in Nat /\ i < to
      BY <1>2, <2>2
    <3>2. BitIn(b, i) = BitIn(data, k)
      BY <1>2, <2>2 DEF Holds
    <3> HIDE DEF i
    <3>3. BitIn(c, i) = BitIn(data, k)
      BY <3>1, <3>2
    <3> QED
      BY <3>3 DEF i
  <2> QED
    BY <2>1, <2>2 DEF Holds
<1>3. tag > 0 => Holds(c, from, <<Type(v.kind)>>, 5)
  <2> SUFFICES ASSUME tag > 0 PROVE Holds(c, from, <<Type(v.kind)>>, 5)
    OBVIOUS
  <2>1. Holds(b, from, <<Type(v.kind)>>, 5) /\ tag = 5 /\ from + 5 <= to
    BY <1>1 DEF Kept
  <2> QED
    BY <1>2, <2>1
<1>4. Holds(c, from + tag, v.data, size)
  <2>1. Holds(b, from + tag, v.data, size)
    BY DEF Kept
  <2>2. from + tag \in Nat /\ (from + tag) + size <= to
    BY <1>1
  <2> HIDE DEF tag, size
  <2> QED
    BY <1>1, <1>2, <2>1, <2>2
<1> QED
  BY <1>1, <1>3, <1>4 DEF Kept

LEMMA PackedOn ==
  ASSUME NEW typed \in BOOLEAN, NEW b \in Octets, NEW c \in Octets, NEW values \in Seq(Values),
         NEW end \in Nat, NEW pos, Packed(typed, pos, b, values, end), end <= 8 * Len(c),
         \A i \in Nat : i < end => BitIn(c, i) = BitIn(b, i)
  PROVE  Packed(typed, pos, c, values, end)
<1>1. ASSUME NEW n \in 1..Len(values) PROVE Kept(typed, c, pos[n - 1], pos[n], values[n])
  <2>1. /\ Kept(typed, b, pos[n - 1], pos[n], values[n]) /\ pos[n] <= end
        /\ pos[n - 1] \in Nat /\ pos[n] \in Nat /\ values[n] \in Values
    <3>1. n - 1 \in 0..Len(values) /\ n \in 0..Len(values)
      BY LenProperties
    <3> QED
      BY <3>1, ElementOfSeq DEF Packed
  <2>2. pos[n] <= 8 * Len(c) /\ \A i \in Nat : i < pos[n] => BitIn(c, i) = BitIn(b, i)
    BY <2>1, OctetsAre
  <2> QED
    BY <2>1, <2>2, KeptOn
<1> QED
  BY <1>1 DEF Packed

\* What WriteValue puts there.
LEMMA ValueKept ==
  ASSUME NEW typed \in BOOLEAN, NEW b \in Octets, NEW from \in Nat, from <= 8 * Len(b), NEW v \in Values
  PROVE  LET tag == TagBits(typed, v.kind)
             tagged == IF tag > 0 THEN Wrote(b, from, <<Type(v.kind)>>, 5) ELSE b
             c == Wrote(tagged, from + tag, v.data, Bits(v))
         IN  /\ c \in Octets /\ from + tag + Bits(v) <= 8 * Len(c)
             /\ Kept(typed, c, from, from + tag + Bits(v), v)
             /\ \A i \in Nat : i < from => BitIn(c, i) = BitIn(b, i)
<1> DEFINE tag == TagBits(typed, v.kind)
           tagged == IF tag > 0 THEN Wrote(b, from, <<Type(v.kind)>>, 5) ELSE b
           size == Bits(v)
           start == from + tag
           c == Wrote(tagged, start, v.data, size)
<1>1. tag \in {0, 5} /\ size \in Nat /\ Whole(v.data, size) /\ start \in Nat
  BY TagBitsAre, ValuesHave
<1>2. /\ tagged \in Octets /\ start <= 8 * Len(tagged)
      /\ tag > 0 => Holds(tagged, from, <<Type(v.kind)>>, 5)
      /\ \A i \in Nat : i < from => BitIn(tagged, i) = BitIn(b, i)
  <2>1. CASE tag > 0
    <3>1. v.kind \in {"bool", "int32", "uint32"}
      BY <2>1, TagBitsAre, ValuesHave
    <3>2. Whole(<<Type(v.kind)>>, 5)
      BY <3>1, TypesAre
    <3> DEFINE w == Wrote(b, from, <<Type(v.kind)>>, 5)
    <3>3. /\ w \in Octets /\ Holds(w, from, <<Type(v.kind)>>, 5)
          /\ \A i \in Nat : i < from => BitIn(w, i) = BitIn(b, i)
      BY <3>2, WroteIs
    <3>4. tagged = w /\ tag = 5
      BY <1>1, <2>1
    <3> HIDE DEF w, tagged
    <3>5. start <= 8 * Len(tagged)
      BY <3>3, <3>4 DEF Holds
    <3> QED
      BY <3>3, <3>4, <3>5
  <2>2. CASE ~(tag > 0)
    <3>1. tagged = b /\ tag = 0
      BY <1>1, <2>2
    <3> QED
      BY <2>2, <3>1
  <2> QED
    BY <2>1, <2>2
<1> HIDE DEF tagged, size, start
<1>3. /\ c \in Octets /\ Holds(c, start, v.data, size)
      /\ \A i \in Nat : i < start => BitIn(c, i) = BitIn(tagged, i)
  BY <1>1, <1>2, WroteIs
<1> HIDE DEF c
<1>4. start + size <= 8 * Len(c) /\ Len(c) \in Nat
  BY <1>3, OctetsAre DEF Holds
<1>5. tag > 0 => Holds(c, from, <<Type(v.kind)>>, 5)
  <2> SUFFICES ASSUME tag > 0 PROVE Holds(c, from, <<Type(v.kind)>>, 5)
    OBVIOUS
  <2>1. from + 5 = start /\ from + 5 <= 8 * Len(c)
    BY <1>1, <1>4 DEF start
  <2>2. ASSUME NEW k \in Nat, k < 5 PROVE BitIn(c, from + k) = BitIn(<<Type(v.kind)>>, k)
    <3> DEFINE i == from + k
    <3>1. i \in Nat /\ i < start
      BY <2>1, <2>2
    <3>2. BitIn(tagged, i) = BitIn(<<Type(v.kind)>>, k)
      BY <1>2, <2>2 DEF Holds
    <3> HIDE DEF i
    <3>3. BitIn(c, i) = BitIn(<<Type(v.kind)>>, k)
      BY <1>3, <3>1, <3>2
    <3> QED
      BY <3>3 DEF i
  <2> QED
    BY <2>1, <2>2 DEF Holds
<1>6. Kept(typed, c, from, start + size, v)
  BY <1>3, <1>5 DEF Kept, start, size
<1>7. ASSUME NEW i \in Nat, i < from PROVE BitIn(c, i) = BitIn(b, i)
  <2>1. i < start
    BY <1>1, <1>7 DEF start
  <2> QED
    BY <1>2, <1>3, <1>7, <2>1
<1> QED
  BY <1>3, <1>4, <1>6, <1>7 DEF c, tagged, start, size

-----------------------------------------------------------------------------
(* The steps of a bit buffer.                                              *)

LEMMA BitsStart == Init => BitsInv
<1> SUFFICES ASSUME Init PROVE BitsInv
  OBVIOUS
<1>1. /\ buffer = <<>> /\ current_bit_ = 0 /\ types \in BOOLEAN /\ written = <<>>
      /\ reader = -1 /\ read = <<>>
  BY DEF Init
<1>2. Packed(types, [i \in 0..0 |-> 0], <<>>, <<>>, 0)
  BY DEF Packed
<1>3. ReadsWhatWasWritten
  BY <1>1 DEF ReadsWhatWasWritten
<1>4. <<>> \in Octets /\ Len(<<>>) = 0 /\ -1 \in Nat \cup {-1}
  BY DEF Octets
<1> QED
  BY <1>1, <1>2, <1>3, <1>4 DEF BitsInv

LEMMA BitsWrite ==
  ASSUME BitsInv, NEW v \in Values, WriteValue(v)
  PROVE  BitsInv'
<1> DEFINE tag == TagBits(types, v.kind)
           tagged == IF tag > 0 THEN Wrote(buffer, current_bit_, <<Type(v.kind)>>, 5) ELSE buffer
           from == current_bit_
           to == from + tag + Bits(v)
           c == Wrote(tagged, from + tag, v.data, Bits(v))
           n == Len(written)
<1>1. /\ types \in BOOLEAN /\ buffer \in Octets /\ written \in Seq(Values) /\ n \in Nat
      /\ from \in Nat /\ from <= 8 * Len(buffer) /\ reader = -1 /\ read = <<>>
  BY LenProperties DEF BitsInv, WriteValue
<1>2. /\ c \in Octets /\ to <= 8 * Len(c)
      /\ Kept(types, c, from, to, v)
      /\ \A i \in Nat : i < from => BitIn(c, i) = BitIn(buffer, i)
  BY <1>1, ValueKept
<1>3. tag \in {0, 5} /\ (tag > 0 <=> HasType(v.kind)) /\ tag = (IF HasType(v.kind) THEN 5 ELSE 0)
  BY <1>1 DEF TagBits, HasType
<1>4. /\ buffer' = c /\ current_bit_' = to /\ written' = Append(written, v)
      /\ types' = types /\ reader' = reader /\ read' = read
  <2>1. tagged = IF HasType(v.kind) THEN Wrote(buffer, current_bit_, <<Type(v.kind)>>, 5) ELSE buffer
    BY <1>3
  <2> HIDE DEF tagged
  <2> QED
    BY <1>3, <2>1 DEF WriteValue
<1>5. PICK pos : Packed(types, pos, buffer, written, from)
  BY DEF BitsInv
<1>6. to \in Nat /\ from <= to
  BY <1>1, <1>3, ValuesHave
<1> HIDE DEF c, to, from, tag, tagged
<1>7. Packed(types, pos, c, written, from)
  <2>1. from <= 8 * Len(c)
    BY <1>1, <1>2, <1>6, OctetsAre
  <2> QED
    BY <1>1, <1>2, <1>5, <2>1, PackedOn
<1> DEFINE more == Append(written, v)
           next == [i \in 0..(n + 1) |-> IF i <= n THEN pos[i] ELSE to]
<1>8. /\ Len(more) = n + 1 /\ more[n + 1] = v /\ more \in Seq(Values)
      /\ \A i \in 1..n : more[i] = written[i]
  BY <1>1, AppendProperties
<1>9. pos \in [0..n -> Nat] /\ pos[0] = 0 /\ pos[n] = from
  BY <1>7 DEF Packed
<1> HIDE DEF n, more
<1>10. /\ next \in [0..(n + 1) -> Nat] /\ next[0] = 0 /\ next[n + 1] = to
       /\ \A i \in 0..n : next[i] = pos[i]
  BY <1>1, <1>6, <1>9
<1> HIDE DEF next
<1>11. ASSUME NEW i \in 1..(n + 1)
       PROVE  Kept(types, c, next[i - 1], next[i], more[i]) /\ next[i] <= to
  <2>1. CASE i = n + 1
    <3>1. i - 1 = n /\ n \in 0..n
      BY <1>1, <2>1
    <3>2. next[i - 1] = from /\ next[i] = to /\ more[i] = v
      BY <1>8, <1>9, <1>10, <2>1, <3>1
    <3> QED
      BY <1>2, <1>6, <3>2
  <2>2. CASE i # n + 1
    <3>1. i \in 1..n /\ i \in 0..n /\ i - 1 \in 0..n
      BY <1>1, <2>2
    <3>2. next[i] = pos[i] /\ next[i - 1] = pos[i - 1] /\ more[i] = written[i] /\ pos[i] \in Nat
      BY <1>8, <1>9, <1>10, <3>1
    <3>3. Kept(types, c, pos[i - 1], pos[i], written[i]) /\ pos[i] <= from
      BY <1>7, <3>1 DEF Packed, n
    <3>4. pos[i] <= to
      BY <1>1, <1>6, <3>2, <3>3
    <3> QED
      BY <3>2, <3>3, <3>4
  <2> QED
    BY <2>1, <2>2
<1>12. Packed(types, next, c, more, to)
  BY <1>8, <1>10, <1>11 DEF Packed
<1>13. ReadsWhatWasWritten'
  BY <1>1, <1>4 DEF ReadsWhatWasWritten
<1>14. /\ types' \in BOOLEAN /\ buffer' \in Octets /\ written' \in Seq(Values) /\ read' \in Seq(Reads)
       /\ current_bit_' \in Nat /\ current_bit_' <= 8 * Len(buffer')
       /\ reader' \in Nat \cup {-1} /\ read' = <<>> /\ reader' = -1
  BY <1>1, <1>2, <1>4, <1>6, <1>8 DEF more
<1>15. Packed(types', next, buffer', written', current_bit_')
  BY <1>4, <1>12 DEF more
<1> QED
  BY <1>13, <1>14, <1>15 DEF BitsInv

LEMMA BitsHandOver ==
  ASSUME BitsInv, HandOver
  PROVE  BitsInv'
<1> DEFINE m == Size
           c == SubSeq(buffer, 1, m)
<1>1. /\ types \in BOOLEAN /\ buffer \in Octets /\ written \in Seq(Values) /\ Len(buffer) \in Nat
      /\ current_bit_ \in Nat /\ current_bit_ <= 8 * Len(buffer) /\ reader = -1 /\ read = <<>>
  BY OctetsAre DEF BitsInv, HandOver
<1>2. /\ buffer' = c /\ reader' = 0 /\ current_bit_' = current_bit_ /\ types' = types
      /\ written' = written /\ read' = read
  BY DEF HandOver
<1>3. m \in Nat /\ m <= Len(buffer) /\ current_bit_ <= 8 * m
  <2>1. CASE current_bit_ % 8 = 0
    <3>1. m = current_bit_ \div 8
      BY <1>1, <2>1 DEF Size
    <3> HIDE DEF m
    <3> QED
      BY <1>1, <2>1, <3>1
  <2>2. CASE current_bit_ % 8 # 0
    <3>1. m = (current_bit_ \div 8) + 1
      BY <2>2 DEF Size
    <3> HIDE DEF m
    <3> QED
      BY <1>1, <2>2, <3>1
  <2> QED
    BY <2>1, <2>2
<1> HIDE DEF m
<1>4. c \in Octets /\ Len(c) = m /\ \A i \in 1..m : c[i] = buffer[i]
  <2>1. \A i \in 1..m : buffer[i] \in Octet
    BY <1>1, <1>3, OctetsAre
  <2>2. 1 \in Int /\ m \in Int
    BY <1>3
  <2>3. /\ c \in Seq(Octet) /\ Len(c) = (IF 1 <= m THEN m - 1 + 1 ELSE 0)
        /\ \A i \in 1..(m - 1 + 1) : c[i] = buffer[1 + i - 1]
    BY <2>1, <2>2, SubSeqProperties
  <2>4. m - 1 + 1 = m /\ (IF 1 <= m THEN m - 1 + 1 ELSE 0) = m /\ \A i \in 1..m : 1 + i - 1 = i
    BY <1>3
  <2> HIDE DEF c
  <2> QED
    BY <2>3, <2>4 DEF Octets
<1> HIDE DEF c
<1>5. ASSUME NEW i \in Nat, i < current_bit_ PROVE BitIn(c, i) = BitIn(buffer, i)
  <2>1. i < 8 * Len(c)
    BY <1>1, <1>3, <1>4, <1>5
  <2>2. (i \div 8) + 1 \in 1..m
    BY <1>4, <2>1, OctetsAre
  <2> QED
    BY <1>4, <2>2 DEF BitIn
<1>6. PICK pos : Packed(types, pos, buffer, written, current_bit_)
  BY DEF BitsInv
<1>7. Packed(types, pos, c, written, current_bit_)
  BY <1>1, <1>3, <1>4, <1>5, <1>6, PackedOn
<1>8. ReadsWhatWasWritten'
  BY <1>1, <1>2 DEF ReadsWhatWasWritten
<1>9. /\ types' \in BOOLEAN /\ buffer' \in Octets /\ written' \in Seq(Values) /\ read' \in Seq(Reads)
      /\ current_bit_' \in Nat /\ current_bit_' <= 8 * Len(buffer')
      /\ reader' \in Nat \cup {-1} /\ reader' = 0 /\ reader' # -1 /\ Len(read') = 0
  BY <1>1, <1>2, <1>3, <1>4
<1>10. Packed(types', pos, buffer', written', current_bit_')
  BY <1>2, <1>7
<1>11. reader' = pos[Len(read')]
  <2>1. pos[0] = 0
    BY <1>6 DEF Packed
  <2> QED
    BY <1>9, <2>1
<1>12. \E p : /\ Packed(types', p, buffer', written', current_bit_')
              /\ reader' # -1 /\ InStep(Len(read))' => reader' = p[Len(read')]
  BY <1>10, <1>11
<1> QED
  BY <1>8, <1>9, <1>12 DEF BitsInv

LEMMA TypesDiffer ==
  ASSUME NEW kind, kind \in {"bool", "int32", "uint32"},
         NEW other, other \in {"bool", "int32", "uint32"}, other # kind
  PROVE  Type(other) # Type(kind)
<1>1. Type("bool") = 1 /\ Type("int32") = 7 /\ Type("uint32") = 8
  BY DEF Type
<1> QED
  BY <1>1

LEMMA HoldsFits ==
  ASSUME NEW start, NEW data, NEW n, Holds(buffer, start, data, n)
  PROVE  Fits(start, n)
  BY DEF Holds, Fits

\* Whatever it finds, a read says whether it succeeded.
LEMMA ResultIs ==
  ASSUME types \in BOOLEAN, buffer \in Octets, NEW start \in Nat, NEW kind, NEW n \in Nat
  PROVE  /\ Result(start, kind, n).ok \in BOOLEAN /\ Result(start, kind, n).data \in Octets
         /\ Result(start, kind, n).used \in Nat
<1> DEFINE tag == IF HasType(kind) THEN 5 ELSE 0
           first == tag > 0 /\ ~Fits(start, 5)
           second == tag > 0 /\ Took(start, 5)[1] # Type(kind)
           third == ~Fits(start + tag, n)
<1>1. tag \in Nat /\ <<>> \in Octets /\ start + tag \in Nat /\ tag + n \in Nat
  BY DEF Octets
<1>2. CASE first
  <2>1. Result(start, kind, n) = [ok |-> FALSE, data |-> <<>>, used |-> 0]
    BY <1>2 DEF Result
  <2> QED
    BY <1>1, <2>1
<1>3. CASE ~first /\ second
  <2>1. Result(start, kind, n) = [ok |-> FALSE, data |-> <<>>, used |-> 5]
    BY <1>3 DEF Result
  <2> QED
    BY <1>1, <2>1
<1>4. CASE ~first /\ ~second /\ third
  <2>1. Result(start, kind, n) = [ok |-> FALSE, data |-> <<>>, used |-> tag]
    BY <1>4 DEF Result
  <2> HIDE DEF tag
  <2> QED
    BY <1>1, <2>1
<1>5. CASE ~first /\ ~second /\ ~third
  <2>1. Result(start, kind, n) = [ok |-> TRUE, data |-> Took(start + tag, n), used |-> tag + n]
    BY <1>5 DEF Result
  <2>2. Fits(start + tag, n)
    BY <1>5
  <2> HIDE DEF tag
  <2>3. Took(start + tag, n) \in Octets
    BY <1>1, <2>2, TookOctets
  <2> QED
    BY <1>1, <2>1, <2>3
<1> HIDE DEF first, second, third
<1> QED
  BY <1>2, <1>3, <1>4, <1>5

\* What is read where a value is kept.
LEMMA ValueRead ==
  ASSUME types \in BOOLEAN, buffer \in Octets, NEW from \in Nat, NEW to \in Nat, NEW v \in Values,
         Kept(types, buffer, from, to, v), NEW kind, kind \in {"bool", "uint32", "bytes"}, NEW n \in Nat
  PROVE  /\ kind = v.kind /\ n = Bits(v) =>
              /\ Result(from, kind, n).ok /\ Result(from, kind, n).data = v.data
              /\ from + Result(from, kind, n).used = to
         /\ HasType(v.kind) /\ HasType(kind) /\ v.kind # kind => ~Result(from, kind, n).ok
<1> DEFINE tag == TagBits(types, v.kind)
           size == Bits(v)
<1>1. /\ tag \in {0, 5} /\ (tag > 0 <=> HasType(v.kind)) /\ tag = (IF HasType(v.kind) THEN 5 ELSE 0)
      /\ size \in Nat /\ to = from + tag + size
  BY ValuesHave DEF TagBits, HasType, Kept
<1>2. Whole(v.data, size) /\ v.kind \in {"bool", "int32", "uint32", "bytes"}
  BY ValuesHave
<1>3. Holds(buffer, from + tag, v.data, size) /\ from + tag \in Nat
  BY <1>1 DEF Kept
<1>4. Fits(from + tag, size) /\ Took(from + tag, size) = v.data
  <2> HIDE DEF tag, size
  <2>1. Fits(from + tag, size)
    BY <1>3, HoldsFits
  <2>2. Took(from + tag, size) = v.data
    BY <1>2, <1>3, TookIs
  <2> QED
    BY <2>1, <2>2
<1>5. ASSUME HasType(v.kind) PROVE Fits(from, 5) /\ Took(from, 5)[1] = Type(v.kind)
  <2>1. v.kind \in {"bool", "int32", "uint32"}
    BY <1>2, <1>5 DEF HasType
  <2>2. Whole(<<Type(v.kind)>>, 5)
    BY <2>1, TypesAre
  <2>3. Holds(buffer, from, <<Type(v.kind)>>, 5)
    BY <1>1, <1>5 DEF Kept
  <2>4. Took(from, 5) = <<Type(v.kind)>>
    BY <2>2, <2>3, TookIs
  <2> QED
    BY <2>3, <2>4, HoldsFits
<1> HIDE DEF tag, size
<1>6. ASSUME kind = v.kind, n = size
      PROVE  Result(from, kind, n) = [ok |-> TRUE, data |-> v.data, used |-> tag + size]
  <2>1. CASE HasType(v.kind)
    <3>1. tag = 5
      BY <1>1, <2>1
    <3>2. Fits(from, 5) /\ Took(from, 5)[1] = Type(kind) /\ Fits(from + 5, n)
          /\ Took(from + 5, n) = v.data /\ HasType(kind)
      BY <1>4, <1>5, <1>6, <2>1, <3>1
    <3>3. Result(from, kind, n) = [ok |-> TRUE, data |-> Took(from + 5, n), used |-> 5 + n]
      BY <3>2 DEF Result
    <3> QED
      BY <1>6, <3>1, <3>2, <3>3
  <2>2. CASE ~HasType(v.kind)
    <3>1. tag = 0 /\ from + 0 = from
      BY <1>1, <2>2
    <3>2. Fits(from + 0, n) /\ Took(from + 0, n) = v.data /\ ~HasType(kind)
      BY <1>4, <1>6, <2>2, <3>1
    <3>3. Result(from, kind, n) = [ok |-> TRUE, data |-> Took(from + 0, n), used |-> 0 + n]
      BY <3>2 DEF Result
    <3> QED
      BY <1>6, <3>1, <3>2, <3>3
  <2> QED
    BY <2>1, <2>2
<1>7. ASSUME HasType(v.kind), HasType(kind), v.kind # kind
      PROVE  Result(from, kind, n) = [ok |-> FALSE, data |-> <<>>, used |-> 5]
  <2>1. v.kind \in {"bool", "int32", "uint32"} /\ kind \in {"bool", "int32", "uint32"}
    BY <1>2, <1>7 DEF HasType
  <2>2. Type(v.kind) # Type(kind)
    <3> DEFINE other == v.kind
    <3>1. other \in {"bool", "int32", "uint32"} /\ other # kind
      BY <1>7, <2>1
    <3> HIDE DEF other
    <3>2. kind \in {"bool", "int32", "uint32"}
      BY <2>1
    <3>4. Type(other) # Type(kind)
      BY <3>1, <3>2, TypesDiffer
    <3> QED
      BY <3>4 DEF other
  <2>3. Fits(from, 5) /\ Took(from, 5)[1] # Type(kind)
    BY <1>5, <1>7, <2>2
  <2> QED
    BY <1>7, <2>3 DEF Result
<1>8. from + (tag + size) = to
  BY <1>1
<1> QED
  BY <1>6, <1>7, <1>8 DEF size


\* The same, said of any histories.
AskedIn(w, r, k) == r[k].kind = w[k].kind /\ r[k].bits = Bits(w[k])
InStepIn(w, r, n) == n <= Len(w) /\ \A k \in 1..n : AskedIn(w, r, k)
TypedIn(typed, kind) == typed /\ kind # "bytes"
ReadRight(typed, w, r, n) ==
  /\ AskedIn(w, r, n) => r[n].ok /\ r[n].data = w[n].data
  /\ TypedIn(typed, w[n].kind) /\ TypedIn(typed, r[n].kind) /\ w[n].kind # r[n].kind => ~r[n].ok
RightIn(typed, w, r) ==
  \A n \in 1..Len(r) : n <= Len(w) /\ InStepIn(w, r, n - 1) => ReadRight(typed, w, r, n)

LEMMA Histories ==
  /\ ReadsWhatWasWritten <=> RightIn(types, written, read)
  /\ \A n : InStep(n) <=> InStepIn(written, read, n)
  /\ ReadsWhatWasWritten' <=> RightIn(types', written', read')
  /\ InStep(Len(read))' <=> InStepIn(written', read', Len(read'))
<1>1. ReadsWhatWasWritten <=> RightIn(types, written, read)
  BY DEF ReadsWhatWasWritten, RightIn, InStep, InStepIn, Asked, AskedIn, HasType, TypedIn, ReadRight
<1>2. \A n : InStep(n) <=> InStepIn(written, read, n)
  BY DEF InStep, InStepIn, Asked, AskedIn
<1>3. ReadsWhatWasWritten' <=> RightIn(types', written', read')
  BY DEF ReadsWhatWasWritten, RightIn, InStep, InStepIn, Asked, AskedIn, HasType, TypedIn, ReadRight
<1>4. InStep(Len(read))' <=> InStepIn(written', read', Len(read'))
  BY DEF InStep, InStepIn, Asked, AskedIn
<1> QED
  BY <1>1, <1>2, <1>3, <1>4

LEMMA OneMoreRead ==
  ASSUME NEW typed \in BOOLEAN, NEW w \in Seq(Values), NEW r, NEW more, NEW m \in Nat,
         Len(r) = m, Len(more) = m + 1, \A i \in 1..m : more[i] = r[i], RightIn(typed, w, r),
         m + 1 <= Len(w) /\ InStepIn(w, r, m) => ReadRight(typed, w, more, m + 1)
  PROVE  /\ RightIn(typed, w, more)
         /\ InStepIn(w, more, m + 1) =>
              m + 1 <= Len(w) /\ InStepIn(w, r, m) /\ AskedIn(w, more, m + 1)
<1>1. \A k \in 1..m : AskedIn(w, more, k) <=> AskedIn(w, r, k)
  BY DEF AskedIn
<1>2. Len(w) \in Nat
  BY LenProperties
<1>3. \A k \in 0..m : InStepIn(w, more, k) <=> InStepIn(w, r, k)
  BY <1>1 DEF InStepIn
<1>4. ASSUME NEW k \in 1..m PROVE ReadRight(typed, w, more, k) <=> ReadRight(typed, w, r, k)
  <2>1. more[k] = r[k]
    OBVIOUS
  <2>2. AskedIn(w, more, k) <=> AskedIn(w, r, k)
    BY <1>1
  <2> QED
    BY <2>1, <2>2 DEF ReadRight
<1>5. ASSUME NEW k \in 1..Len(more), k <= Len(w), InStepIn(w, more, k - 1)
      PROVE  ReadRight(typed, w, more, k)
  <2>1. CASE k = m + 1
    <3>1. k - 1 = m /\ m \in 0..m
      BY <2>1
    <3>2. InStepIn(w, r, m)
      BY <1>3, <1>5, <3>1
    <3> QED
      BY <1>5, <2>1, <3>2
  <2>2. CASE k # m + 1
    <3>1. k \in 1..m /\ k - 1 \in 0..m
      BY <2>2
    <3>2. InStepIn(w, r, k - 1)
      BY <1>3, <1>5, <3>1
    <3>3. ReadRight(typed, w, r, k)
      BY <1>5, <3>1, <3>2 DEF RightIn
    <3> QED
      BY <1>4, <3>1, <3>3
  <2> QED
    BY <2>1, <2>2
<1>6. RightIn(typed, w, more)
  BY <1>5 DEF RightIn
<1>7. ASSUME InStepIn(w, more, m + 1)
      PROVE  m + 1 <= Len(w) /\ InStepIn(w, r, m) /\ AskedIn(w, more, m + 1)
  <2>1. m + 1 <= Len(w) /\ \A k \in 1..(m + 1) : AskedIn(w, more, k)
    BY <1>7 DEF InStepIn
  <2>2. m + 1 \in 1..(m + 1) /\ m <= Len(w) /\ \A k \in 1..m : k \in 1..(m + 1)
    BY <1>2, <2>1
  <2>3. \A k \in 1..m : AskedIn(w, r, k)
    BY <1>1, <2>1, <2>2
  <2> QED
    BY <2>1, <2>2, <2>3 DEF InStepIn
<1> QED
  BY <1>6, <1>7

LEMMA BitsRead ==
  ASSUME BitsInv, NEW kind, kind \in {"bool", "uint32", "bytes"}, NEW size \in Nat, ReadValue(kind, size)
  PROVE  BitsInv'
<1> DEFINE m == Len(read)
           n == m + 1
           result == Result(reader, kind, size)
           answer == [ok |-> result.ok, data |-> result.data, kind |-> kind, bits |-> size]
           more == Append(read, answer)
<1>1. /\ types \in BOOLEAN /\ buffer \in Octets /\ written \in Seq(Values) /\ read \in Seq(Reads)
      /\ current_bit_ \in Nat /\ current_bit_ <= 8 * Len(buffer)
      /\ reader \in Nat /\ m \in Nat /\ Len(written) \in Nat
  BY LenProperties DEF BitsInv, ReadValue
<1>2. /\ read' = more /\ reader' = reader + result.used
      /\ buffer' = buffer /\ current_bit_' = current_bit_ /\ types' = types /\ written' = written
  BY DEF ReadValue
<1>3. result.ok \in BOOLEAN /\ result.data \in Octets /\ result.used \in Nat
  BY <1>1, ResultIs
<1> HIDE DEF result
<1>4. answer \in Reads /\ answer.ok = result.ok /\ answer.data = result.data /\ answer.kind = kind
      /\ answer.bits = size
  BY <1>3 DEF Reads
<1> HIDE DEF answer
<1>5. more \in Seq(Reads) /\ Len(more) = n /\ more[n] = answer /\ \A i \in 1..m : more[i] = read[i]
  BY <1>1, <1>4, AppendProperties
<1> HIDE DEF more
<1>6. PICK pos : /\ Packed(types, pos, buffer, written, current_bit_)
                 /\ InStepIn(written, read, m) => reader = pos[m]
  <2>1. reader # -1
    BY <1>1
  <2> QED
    BY <2>1, Histories DEF BitsInv
\* The value that is next, when the reader has kept in step.
<1>7. ASSUME n <= Len(written), InStepIn(written, read, m)
      PROVE  /\ ReadRight(types, written, more, n)
             /\ AskedIn(written, more, n) => reader + result.used = pos[n]
  <2> DEFINE v == written[n]
             from == pos[n - 1]
             to == pos[n]
  <2>1. n - 1 = m /\ n \in 1..Len(written) /\ n - 1 \in 0..Len(written) /\ n \in 0..Len(written)
    BY <1>1, <1>7
  <2>2. Kept(types, buffer, from, to, v) /\ to \in Nat
    BY <2>1, <1>6 DEF Packed
  <2>3. v \in Values
    BY <1>1, <2>1, ElementOfSeq
  <2>4. reader = from
    BY <1>6, <1>7, <2>1
  <2> HIDE DEF v, from, to, n, m
  <2>5. Kept(types, buffer, reader, to, v)
    BY <2>2, <2>4
  <2>6. /\ kind = v.kind /\ size = Bits(v) =>
             result.ok /\ result.data = v.data /\ reader + result.used = to
        /\ HasType(v.kind) /\ HasType(kind) /\ v.kind # kind => ~result.ok
    <3>1. types \in BOOLEAN /\ buffer \in Octets /\ reader \in Nat /\ to \in Nat /\ size \in Nat
      BY <1>1, <2>2
    <3>2. kind \in {"bool", "uint32", "bytes"}
      OBVIOUS
    <3>3. /\ kind = v.kind /\ size = Bits(v) =>
              /\ Result(reader, kind, size).ok /\ Result(reader, kind, size).data = v.data
              /\ reader + Result(reader, kind, size).used = to
          /\ HasType(v.kind) /\ HasType(kind) /\ v.kind # kind => ~Result(reader, kind, size).ok
      BY <2>3, <2>5, <3>1, <3>2, ValueRead
    <3> QED
      BY <3>3 DEF result
  <2>7. more[n].ok = result.ok /\ more[n].data = result.data /\ more[n].kind = kind
        /\ more[n].bits = size
    BY <1>4, <1>5
  <2>8. AskedIn(written, more, n) <=> kind = v.kind /\ size = Bits(v)
    BY <2>7 DEF AskedIn, v
  <2>9. AskedIn(written, more, n) => more[n].ok /\ more[n].data = written[n].data
    BY <2>6, <2>7, <2>8 DEF v
  <2>10. TypedIn(types, written[n].kind) /\ TypedIn(types, more[n].kind)
         /\ written[n].kind # more[n].kind => ~more[n].ok
    BY <2>6, <2>7 DEF v, TypedIn, HasType
  <2> QED
    BY <2>6, <2>8, <2>9, <2>10 DEF ReadRight, to
<1>8. RightIn(types, written, read)
  BY Histories DEF BitsInv
<1>9. /\ RightIn(types, written, more)
      /\ InStepIn(written, more, n) => n <= Len(written) /\ InStepIn(written, read, m)
                                       /\ AskedIn(written, more, n)
  BY <1>1, <1>5, <1>7, <1>8, OneMoreRead
<1>10. InStepIn(written, more, n) => reader' = pos[n]
  BY <1>2, <1>7, <1>9
<1>11. ReadsWhatWasWritten'
  BY <1>2, <1>9, Histories
<1>12. Len(read') = n /\ (InStep(Len(read))' => reader' = pos[Len(read')])
  <2>1. Len(read') = n
    BY <1>2, <1>5
  <2>2. InStep(Len(read))' <=> InStepIn(written, more, n)
    BY <1>2, <1>5, Histories
  <2> QED
    BY <1>10, <2>1, <2>2
<1>13. /\ types' \in BOOLEAN /\ buffer' \in Octets /\ written' \in Seq(Values) /\ read' \in Seq(Reads)
       /\ current_bit_' \in Nat /\ current_bit_' <= 8 * Len(buffer')
       /\ reader' \in Nat \cup {-1} /\ reader' # -1
  BY <1>1, <1>2, <1>3, <1>5
<1>14. Packed(types', pos, buffer', written', current_bit_')
  BY <1>2, <1>6
<1> HIDE DEF n, m
<1>15. \E p : /\ Packed(types', p, buffer', written', current_bit_')
              /\ reader' # -1 /\ InStep(Len(read))' => reader' = p[Len(read')]
  BY <1>12, <1>14
<1> QED
  BY <1>11, <1>13, <1>15 DEF BitsInv

LEMMA BitsStep ==
  ASSUME BitsInv, UNCHANGED bits,
         \/ \E v \in Values : OnBits(WriteValue(v))
         \/ OnBits(HandOver) \/ OnBits(ReadBool) \/ OnBits(ReadUint32) \/ OnBits(ReadBytes)
         \/ UNCHANGED vars
  PROVE  BitsInv'
<1>1. CASE \E v \in Values : OnBits(WriteValue(v))
  BY <1>1, BitsWrite DEF OnBits
<1>2. CASE OnBits(HandOver)
  BY <1>2, BitsHandOver DEF OnBits
<1>3. CASE OnBits(ReadBool)
  <2>1. ReadValue("bool", 1)
    BY <1>3 DEF OnBits, ReadBool
  <2> QED
    BY <2>1, BitsRead
<1>4. CASE OnBits(ReadUint32)
  <2>1. ReadValue("uint32", 32)
    BY <1>4 DEF OnBits, ReadUint32
  <2> QED
    BY <2>1, BitsRead
<1>5. CASE OnBits(ReadBytes)
  <2>1. PICK n \in 1..2 : ReadValue("bytes", 8 * n)
    BY <1>5 DEF OnBits, ReadBytes
  <2>2. 8 * n \in Nat
    OBVIOUS
  <2> QED
    BY <2>1, <2>2, BitsRead
<1>6. CASE UNCHANGED vars
  <2>1. /\ buffer' = buffer /\ current_bit_' = current_bit_ /\ types' = types /\ written' = written
        /\ reader' = reader /\ read' = read
    BY <1>6 DEF vars
  <2>2. ReadsWhatWasWritten' <=> ReadsWhatWasWritten
    BY <2>1, Histories
  <2>3. InStep(Len(read))' <=> InStep(Len(read))
    BY <2>1, Histories
  <2> QED
    BY <2>1, <2>2, <2>3 DEF BitsInv
<1> QED
  BY <1>1, <1>2, <1>3, <1>4, <1>5, <1>6

-----------------------------------------------------------------------------
(* The classes of the lobby, and what a writer of a byte buffer may write. *)

\* Every class is made of the kinds.
LEMMA ClassesAre ==
  ASSUME NEW layout \in Classes
  PROVE  layout \in Seq(Kinds)
<1> DEFINE rest == MatchMakingRest
           six == [i \in 1..6 |-> "int32"]
           ten == <<"uint32", "uint32", "float", "float", "int32", "int32",
                    "blob", "blob", "uint32", "uint32">>
           addresses == [i \in 1..6 |-> "address"]
<1>1. \A s, t \in Seq(Kinds) : s \o t \in Seq(Kinds)
  BY ConcatProperties
<1>2. six \in Seq(Kinds) /\ ten \in Seq(Kinds) /\ addresses \in Seq(Kinds)
  BY KindsAre
<1>3. rest \in Seq(Kinds)
  <2> HIDE DEF six, ten
  <2>1. six \o ten \in Seq(Kinds)
    BY <1>1, <1>2
  <2> QED
    BY <2>1 DEF MatchMakingRest, six, ten
<1>4. /\ bdFileData \in Seq(Kinds) /\ bdFileInfo \in Seq(Kinds)
      /\ bdGroupCount \in Seq(Kinds) /\ bdTimeStamp \in Seq(Kinds)
      /\ bdSessionID \in Seq(Kinds) /\ bdPerformanceValue \in Seq(Kinds)
      /\ bdAddr \in Seq(Kinds)
  BY KindsAre DEF bdFileData, bdFileInfo, bdGroupCount, bdTimeStamp,
     bdSessionID, bdPerformanceValue, bdAddr
<1>5. /\ bdDMLInfo \in Seq(Kinds) /\ bdMatchmakingInfo \in Seq(Kinds)
      /\ bdMatchmakingInfoRead \in Seq(Kinds)
  BY KindsAre DEF bdDMLInfo, bdMatchmakingInfo, bdMatchmakingInfoRead
<1>6. <<"uint32", "string">> \in Seq(Kinds) /\ <<"nat_type">> \in Seq(Kinds)
  BY KindsAre
<1>7. bdDMLRawData \in Seq(Kinds)
  BY <1>1, <1>5, <1>6 DEF bdDMLRawData
<1>8. MatchMakingInfo \in Seq(Kinds) /\ MatchMakingInfoRead \in Seq(Kinds)
  BY <1>1, <1>3, <1>5 DEF MatchMakingInfo, MatchMakingInfoRead
<1>9. bdCommonAddr \in Seq(Kinds)
  BY <1>1, <1>2, <1>6 DEF bdCommonAddr
<1> QED
  BY <1>4, <1>5, <1>7, <1>8, <1>9 DEF Classes

LEMMA SamplesAre ==
  ASSUME NEW layout \in Classes, NEW n \in {1, 2}
  PROVE  IsObject(layout, Object(layout, n))
<1>1. layout \in Seq(Kinds) /\ DOMAIN layout = 1..Len(layout)
  BY ClassesAre, LenProperties
<1> DEFINE object == Object(layout, n)
<1>2. object = [i \in 1..Len(layout) |-> object[i]]
  BY <1>1 DEF Object
<1>3. ASSUME NEW i \in 1..Len(layout) PROVE object[i] \in ValuesOf(layout[i])
  <2>1. Sample[layout[i]] \in [1..2 -> ValuesOf(layout[i])]
    BY <1>1, SampleAssumption
  <2>2. ((n + i) % 2) + 1 \in 1..2
    <3>1. n + i \in Nat
      BY <1>1, LenProperties
    <3> QED
      BY <3>1
  <2>3. object[i] = Sample[layout[i]][((n + i) % 2) + 1]
    BY <1>1 DEF Object
  <2> QED
    BY <2>1, <2>2, <2>3
<1> HIDE DEF object
<1> QED
  BY <1>1, <1>2, <1>3 DEF IsObject, object

-----------------------------------------------------------------------------
\* What an item is written as and read by.
Written_(item, b) ==
  IF item.what = "object" THEN Serialize(item.layout, Contents(item), b)
  ELSE WriteArrayHeader(b, Tag.uint32, item.header.count, item.header.size)
Value(item, p) ==
  IF item.what = "object" THEN Deserialize(item.layout, p).object
  ELSE ReadArrayHeader(p, Tag.uint32).value
After(item, p) ==
  IF item.what = "object" THEN Deserialize(item.layout, p).buffer
  ELSE ReadArrayHeader(p, Tag.uint32).buffer
Comes(item) == IF SaysNone(item) THEN <<0>> ELSE Contents(item)
Carries(item, c) ==
  \A p \in Buffer : p.typed = item.typed /\ Ahead(p, c) =>
    Value(item, p) = Comes(item) /\ After(item, p) = Past(p, Len(c))

LEMMA ItemsAre ==
  ASSUME NEW item \in Items
  PROVE  /\ item.typed \in BOOLEAN
         /\ item.what = "object" => item.layout \in Classes /\ item.nth \in {1, 2}
         /\ item.what # "object" =>
              item.what = "array" /\ item.header \in Headers /\ item.typed = TRUE
  BY DEF Items

\* What the reader divides by what the writer multiplied with.
LEMMA DivideBack ==
  ASSUME NEW m \in Nat, NEW n \in Nat, n # 0
  PROVE  (n * m) \div n = m
  OBVIOUS

LEMMA HeadersAre ==
  ASSUME NEW header \in Headers
  PROVE  Countable(header.count, header.size)
<1> DEFINE count == header.count  size == header.size
<1>1. count \in Int31 /\ size \in Int31 /\ count * size \in Int31
  BY HeadersAssumption
<1> HIDE DEF count, size
<1>2. count \in Nat /\ size \in Nat
  BY <1>1, SMT DEF Int31
<1>5. count # 0 => (count * size) \div count = size
  BY <1>2, DivideBack, Zenon
<1> QED
  BY <1>1, <1>5, Zenon DEF Countable, count, size

LEMMA ItemsComeBack ==
  ASSUME NEW item \in Items, NEW b \in Buffer, b.typed = item.typed
  PROVE  \E c \in ByteString : Written_(item, b) = Write(b, c) /\ Carries(item, c)
<1>1. CASE item.what = "object"
  <2> DEFINE layout == item.layout
             object == Object(layout, item.nth)
  <2>1. IsObject(layout, object)
    BY <1>1, ItemsAre, SamplesAre
  <2>2. PICK c \in ByteString :
           /\ Serialize(layout, object, b) = Write(b, c)
           /\ \A p \in Buffer : p.typed = b.typed /\ Ahead(p, c) =>
                Deserialize(layout, p) = [object |-> object, buffer |-> Past(p, Len(c))]
    BY <2>1, ObjectsComeBack
  <2>3. Contents(item) = object
    BY <1>1 DEF Contents
  <2> HIDE DEF layout, object
  <2>4. Written_(item, b) = Write(b, c)
    BY <1>1, <2>2, <2>3 DEF Written_, layout
  <2>5. Carries(item, c)
    <3> SUFFICES ASSUME NEW p \in Buffer, p.typed = item.typed, Ahead(p, c)
                 PROVE  Value(item, p) = Comes(item) /\ After(item, p) = Past(p, Len(c))
      BY DEF Carries
    <3>1. Deserialize(layout, p) = [object |-> object, buffer |-> Past(p, Len(c))]
      BY <2>2
    <3>2. Comes(item) = Contents(item)
      BY <1>1 DEF Comes, SaysNone
    <3> QED
      BY <1>1, <2>3, <3>1, <3>2 DEF Value, After, layout
  <2> QED
    BY <2>4, <2>5
<1>2. CASE item.what # "object"
  <2> DEFINE tag == Tag.uint32
             count == item.header.count
             size == item.header.size
             c == HeaderImage(tag, count, size)
  <2>1. tag \in 0..155
    BY DEF Tag
  <2>9. item.header \in Headers
    BY <1>2, ItemsAre
  <2>10. item.typed = TRUE
    BY <1>2, ItemsAre
  <2>2. Comes(item) = HeaderValue(count, size)
    BY <1>2, ItemsAre DEF Contents, Comes, SaysNone, HeaderValue
  <2>3. Countable(count, size)
    BY <2>9, HeadersAre
  <2> HIDE DEF tag, count, size
  <2>12. /\ c \in ByteString
         /\ WriteArrayHeader(b, tag, count, size) = Write(b, c)
         /\ \A p \in Buffer : p.typed = TRUE /\ Ahead(p, c) =>
              /\ ReadArrayHeader(p, tag).value = HeaderValue(count, size)
              /\ ReadArrayHeader(p, tag).buffer = Past(p, Len(c))
    BY <2>1, <2>3, HeadersComeBack
  <2>4. c \in ByteString
    BY <2>12
  <2>5. WriteArrayHeader(b, tag, count, size) = Write(b, c)
    BY <2>12
  <2>6. ASSUME NEW p \in Buffer, p.typed = TRUE, Ahead(p, c)
        PROVE  /\ ReadArrayHeader(p, tag).value = HeaderValue(count, size)
               /\ ReadArrayHeader(p, tag).buffer = Past(p, Len(c))
    BY <2>6, <2>12
  <2> HIDE DEF c
  <2>7. Written_(item, b) = Write(b, c)
    BY <1>2, <2>5 DEF Written_, tag, count, size
  <2>8. Carries(item, c)
    BY <1>2, <2>2, <2>6, <2>10 DEF Carries, Value, After, tag, count, size
  <2> QED
    BY <2>4, <2>7, <2>8
<1> QED
  BY <1>1, <1>2

-----------------------------------------------------------------------------
(* Where the items are in a byte buffer.                                   *)

\* Where in the buffer each item is: pos[n] is where the n-th ends.
Laid(pos, items, data) ==
  /\ pos \in [0..Len(items) -> Nat]
  /\ pos[0] = 0 /\ pos[Len(items)] = Len(data)
  /\ \A n \in 1..Len(items) : \E c \in ByteString :
       /\ Carries(items[n], c)
       /\ pos[n] = pos[n - 1] + Len(c)
       /\ Ahead(Buf(data, pos[n - 1], items[n].typed), c)

ItemsInv ==
  /\ sent \in Seq(Items) /\ stream \in Buffer /\ reading \in BOOLEAN
  /\ got \in Seq({Contents(item) : item \in Items}) /\ Len(got) <= Len(sent)
  /\ \A n \in 1..Len(got) : got[n] = Contents(sent[n]) /\ ~SaysNone(sent[n])
  /\ ended => Len(got) < Len(sent) /\ SaysNone(sent[Len(got) + 1]) /\ reading
  /\ ~reading => got = <<>>
  /\ \E pos : Laid(pos, sent, stream.data) /\ (reading => stream.at = pos[Len(got)])

LEMMA ItemsStart == BuffersInit => ItemsInv
<1> SUFFICES ASSUME BuffersInit PROVE ItemsInv
  OBVIOUS
<1>1. stream = Buf(<<>>, 0, TRUE) /\ sent = <<>> /\ reading = FALSE /\ got = <<>>
      /\ ended = FALSE
  BY DEF BuffersInit, Fresh, Buf
<1>2. <<>> \in ByteString
  BY DEF ByteString
<1>3. stream \in Buffer /\ stream.data = <<>>
  BY <1>1, <1>2, BufIs
<1>4. Laid([i \in 0..0 |-> 0], <<>>, <<>>)
  BY DEF Laid
<1> QED
  BY <1>1, <1>3, <1>4 DEF ItemsInv

\* What is ahead somewhere stays so when the buffer grows.
LEMMA StaysAhead ==
  ASSUME NEW data \in ByteString, NEW m \in Nat, NEW typed \in BOOLEAN, NEW c \in ByteString,
         NEW more \in ByteString, Ahead(Buf(data, m, typed), c)
  PROVE  Ahead(Buf(data \o more, m, typed), c)
<1>1. data \o more \in ByteString /\ Len(data \o more) = Len(data) + Len(more)
      /\ Len(data) \in Nat /\ Len(more) \in Nat /\ Len(c) \in Nat
      /\ \A i \in 1..Len(data) : (data \o more)[i] = data[i]
  BY ConcatProperties, LenProperties DEF ByteString
<1>2. m + Len(c) <= Len(data) /\ \A i \in 1..Len(c) : data[m + i] = c[i]
  BY DEF Ahead, Buf
<1> DEFINE whole == data \o more
<1> HIDE DEF whole
<1>3. m + Len(c) <= Len(whole)
  BY <1>1, <1>2 DEF whole
<1>4. ASSUME NEW i \in 1..Len(c) PROVE whole[m + i] = c[i]
  <2>1. m + i \in 1..Len(data)
    BY <1>1, <1>2
  <2> QED
    BY <1>1, <1>2, <2>1 DEF whole
<1> QED
  BY <1>3, <1>4 DEF Ahead, Buf, whole

LEMMA NewIsAhead ==
  ASSUME NEW data \in ByteString, NEW typed \in BOOLEAN, NEW c \in ByteString
  PROVE  Ahead(Buf(data \o c, Len(data), typed), c)
<1>1. data \o c \in ByteString /\ Len(data \o c) = Len(data) + Len(c)
      /\ Len(data) \in Nat /\ Len(c) \in Nat
      /\ \A i \in 1..(Len(data) + Len(c)) : (data \o c)[i] = IF i <= Len(data) THEN data[i] ELSE c[i - Len(data)]
  BY ConcatProperties, LenProperties DEF ByteString
<1> DEFINE whole == data \o c
<1> HIDE DEF whole
<1>2. ASSUME NEW i \in 1..Len(c) PROVE whole[Len(data) + i] = c[i]
  <2>1. Len(data) + i \in 1..(Len(data) + Len(c)) /\ ~(Len(data) + i <= Len(data))
        /\ Len(data) + i - Len(data) = i
    BY <1>1
  <2> QED
    BY <1>1, <2>1 DEF whole
<1> QED
  BY <1>1, <1>2 DEF Ahead, Buf, whole

LEMMA LaidOn ==
  ASSUME NEW items \in Seq(Items), NEW data \in ByteString, NEW pos, Laid(pos, items, data),
         NEW item \in Items, NEW c \in ByteString, Carries(item, c)
  PROVE  \E next : Laid(next, Append(items, item), data \o c)
<1> DEFINE n == Len(items)
           more == Append(items, item)
           whole == data \o c
           next == [i \in 0..(n + 1) |-> IF i <= n THEN pos[i] ELSE Len(whole)]
<1>1. /\ n \in Nat /\ Len(more) = n + 1 /\ more[n + 1] = item
      /\ \A i \in 1..n : more[i] = items[i] /\ items[i] \in Items
  BY AppendProperties, LenProperties, ElementOfSeq
<1>2. whole \in ByteString /\ Len(whole) = Len(data) + Len(c) /\ Len(whole) \in Nat
  BY ConcatProperties, LenProperties DEF ByteString
<1>3. pos \in [0..n -> Nat] /\ pos[0] = 0 /\ pos[n] = Len(data)
  BY DEF Laid
<1> HIDE DEF n, more
<1>4. /\ next \in [0..(n + 1) -> Nat] /\ next[0] = 0 /\ next[n + 1] = Len(whole)
      /\ \A i \in 0..n : next[i] = pos[i]
  <2> HIDE DEF whole
  <2> QED
    BY <1>1, <1>2, <1>3
<1> HIDE DEF next, whole
<1>5. ASSUME NEW i \in 1..(n + 1)
      PROVE  \E d \in ByteString : /\ Carries(more[i], d) /\ next[i] = next[i - 1] + Len(d)
                                   /\ Ahead(Buf(whole, next[i - 1], more[i].typed), d)
  <2>1. CASE i = n + 1
    <3>1. i - 1 = n /\ n \in 0..n
      BY <1>1, <2>1
    <3>4. item.typed \in BOOLEAN
      BY ItemsAre
    <3>2. next[i - 1] = Len(data) /\ next[i] = Len(data) + Len(c) /\ more[i] = item
      BY <1>1, <1>2, <1>3, <1>4, <2>1, <3>1
    <3>3. Ahead(Buf(whole, Len(data), item.typed), c)
      BY <3>4, NewIsAhead DEF whole
    <3> QED
      BY <3>2, <3>3
  <2>2. CASE i # n + 1
    <3>1. i \in 1..n /\ i \in 0..n /\ i - 1 \in 0..n
      BY <1>1, <2>2
    <3>2. next[i] = pos[i] /\ next[i - 1] = pos[i - 1] /\ more[i] = items[i]
          /\ pos[i - 1] \in Nat /\ items[i].typed \in BOOLEAN
      BY <1>1, <1>3, <1>4, <3>1, ItemsAre
    <3>3. PICK d \in ByteString : /\ Carries(items[i], d) /\ pos[i] = pos[i - 1] + Len(d)
                                  /\ Ahead(Buf(data, pos[i - 1], items[i].typed), d)
      BY <3>1 DEF Laid, n
    <3>4. Ahead(Buf(whole, pos[i - 1], items[i].typed), d)
      BY <3>2, <3>3, StaysAhead DEF whole
    <3> QED
      BY <3>2, <3>3, <3>4
  <2> QED
    BY <2>1, <2>2
<1>6. Laid(next, more, whole)
  BY <1>1, <1>4, <1>5 DEF Laid
<1> QED
  BY <1>6 DEF more, whole

LEMMA UsesIs ==
  ASSUME stream \in Buffer, NEW item
  PROVE  Uses(item) = Buf(stream.data, stream.at, item.typed)
<1> DEFINE data == stream.data  m == stream.at  typed == stream.typed
<1>1. data \in ByteString /\ m \in Nat /\ typed \in BOOLEAN /\ stream = Buf(data, m, typed)
  BY BufferIs DEF Buffer
<1> HIDE DEF data, m, typed
<1>2. [Buf(data, m, typed) EXCEPT !.typed = item.typed] = Buf(data, m, item.typed)
  BY DEF Buf
<1>3. Uses(item) = [stream EXCEPT !.typed = item.typed]
  BY DEF Uses
<1> QED
  BY <1>1, <1>2, <1>3 DEF data, m

LEMMA WriteKeeps ==
  ASSUME ItemsInv, NEW item \in Items, WriteItem(item)
  PROVE  ItemsInv'
<1> DEFINE b == Uses(item)
           data == stream.data
           m == stream.at
<1>1. b = Buf(data, m, item.typed) /\ data \in ByteString /\ m \in Nat /\ item.typed \in BOOLEAN
  BY UsesIs, ItemsAre DEF ItemsInv, Buffer
<1>2. b \in Buffer /\ b.typed = item.typed /\ b.data = data
  <2> HIDE DEF b, data, m
  <2> QED
    BY <1>1, BufIs
<1>3. stream' = Written_(item, b)
  BY DEF WriteItem, Written_
<1> HIDE DEF b
<1>4. PICK c \in ByteString : Written_(item, b) = Write(b, c) /\ Carries(item, c)
  BY <1>2, ItemsComeBack
<1>5. stream' \in Buffer /\ stream'.data = data \o c
  BY <1>2, <1>3, <1>4, WriteWrite
<1>6. PICK pos : Laid(pos, sent, data)
  BY DEF ItemsInv
<1>7. sent \in Seq(Items) /\ sent' = Append(sent, item) /\ reading = FALSE /\ reading' = FALSE
      /\ got = <<>> /\ got' = <<>> /\ ended = FALSE /\ ended' = FALSE
  BY DEF ItemsInv, WriteItem
<1> HIDE DEF data
<1>8. PICK next : Laid(next, sent', stream'.data)
  BY <1>1, <1>4, <1>5, <1>6, <1>7, LaidOn
<1>9. sent' \in Seq(Items) /\ Len(sent') \in Nat
  BY <1>7, AppendProperties, LenProperties
<1>10. /\ got' \in Seq({Contents(i) : i \in Items})' /\ Len(got') = 0
       /\ \A n \in 1..Len(got') : got'[n] = Contents(sent'[n]) /\ ~SaysNone(sent'[n])
  BY <1>7
<1>11. stream' \in Buffer
  BY <1>5
<1> QED
  <2>1. \E n : Laid(n, sent', stream'.data) /\ (reading' => stream'.at = n[Len(got')])
    BY <1>7, <1>8
  <2>2. reading' \in BOOLEAN /\ ~reading'
    BY <1>7
  <2>3. Len(got') <= Len(sent')
    BY <1>9, <1>10
  <2> QED
    BY <1>7, <1>9, <1>10, <1>11, <2>1, <2>2, <2>3 DEF ItemsInv

LEMMA HandOverKeeps ==
  ASSUME ItemsInv, HandOverBytes
  PROVE  ItemsInv'
<1> DEFINE data == stream.data
<1>1. data \in ByteString
  BY DEF ItemsInv, Buffer
<1>2. stream' = Buf(data, 0, TRUE) /\ sent' = sent /\ got' = got /\ got = <<>> /\ reading' = TRUE
      /\ ended = FALSE /\ ended' = FALSE
  BY DEF ItemsInv, HandOverBytes, Fresh, Buf
<1>6. PICK pos : Laid(pos, sent, data)
  BY DEF ItemsInv
<1> HIDE DEF data
<1>3. stream' \in Buffer /\ stream'.data = data /\ stream'.at = 0
  <2> DEFINE new == Buf(data, 0, TRUE)
  <2>1. new \in Buffer /\ new.data = data /\ new.at = 0
    BY <1>1 DEF Buf, Buffer
  <2>2. stream' = new
    BY <1>2
  <2> HIDE DEF new
  <2> QED
    BY <2>1, <2>2
<1>4. pos[Len(got')] = 0
  BY <1>2, <1>6 DEF Laid
<1>5. /\ sent' \in Seq(Items) /\ got' \in Seq({Contents(i) : i \in Items})
      /\ Len(got') <= Len(sent')
      /\ \A n \in 1..Len(got') : got'[n] = Contents(sent'[n]) /\ ~SaysNone(sent'[n])
  BY <1>2 DEF ItemsInv
<1> QED
  <2>1. \E n : Laid(n, sent', stream'.data) /\ (reading' => stream'.at = n[Len(got')])
    <3>1. sent' = sent
      BY <1>2
    <3>2. Laid(pos, sent', stream'.data)
      BY <1>3, <1>6, <3>1
    <3>3. stream'.at = pos[Len(got')]
      BY <1>3, <1>4
    <3> QED
      BY <3>2, <3>3
  <2>2. reading' \in BOOLEAN /\ reading' = TRUE
    BY <1>2
  <2>3. stream' \in Buffer
    BY <1>3
  <2> QED
    BY <1>2, <1>5, <2>1, <2>2, <2>3 DEF ItemsInv

\* Two numbers are not one.
LEMMA NotNone ==
  ASSUME NEW m, NEW n
  PROVE  <<m, n>> # <<0>>
<1>1. Len(<<m, n>>) = 2 /\ Len(<<0>>) = 1
  OBVIOUS
<1> QED
  BY <1>1

\* A header divides by zero when it says that there are no elements.
LEMMA Divides ==
  ASSUME NEW item \in Items, NEW p, item.what # "object", Value(item, p) = Comes(item)
  PROVE  DividesByZero(ReadArrayHeader(p, Tag.uint32)) <=> SaysNone(item)
<1>1. Value(item, p) = ReadArrayHeader(p, Tag.uint32).value
  BY DEF Value
<1>2. SaysNone(item) \/ Comes(item) = <<item.header.count, item.header.size>>
  BY DEF Comes, Contents
<1>3. Comes(item) # <<0>> \/ SaysNone(item)
  BY <1>2, NotNone
<1>4. SaysNone(item) => Comes(item) = <<0>>
  BY DEF Comes
<1> QED
  BY <1>1, <1>3, <1>4 DEF DividesByZero

LEMMA ReadKeeps ==
  ASSUME ItemsInv, ReadItem
  PROVE  ItemsInv'
<1> DEFINE k == Len(got) + 1
           item == sent[k]
           data == stream.data
           p == Uses(item)
<1>1. /\ sent \in Seq(Items) /\ Len(sent) \in Nat /\ Len(got) \in Nat /\ k \in 1..Len(sent)
      /\ reading = TRUE /\ sent' = sent /\ reading' = reading /\ got \in Seq({Contents(i) : i \in Items})
      /\ \A n \in 1..Len(got) : got[n] = Contents(sent[n]) /\ ~SaysNone(sent[n])
      /\ ended = FALSE
  BY LenProperties DEF ItemsInv, ReadItem
<1>2. item \in Items
  BY <1>1, ElementOfSeq
<1>3. PICK pos : Laid(pos, sent, data) /\ stream.at = pos[Len(got)]
  BY <1>1 DEF ItemsInv
<1>4. data \in ByteString /\ stream.at \in Nat /\ item.typed \in BOOLEAN
  BY <1>2, ItemsAre DEF ItemsInv, Buffer
<1>5. p = Buf(data, pos[k - 1], item.typed) /\ pos[k - 1] \in Nat
  <2>1. k - 1 = Len(got)
    BY <1>1
  <2>2. p = Buf(stream.data, stream.at, item.typed)
    BY UsesIs DEF ItemsInv
  <2> QED
    BY <1>3, <1>4, <2>1, <2>2
<1>6. \/ /\ item.what = "object" \/ ~DividesByZero(ReadArrayHeader(p, Tag.uint32))
         /\ got' = Append(got, Value(item, p)) /\ stream' = After(item, p) /\ ended' = ended
      \/ /\ item.what # "object" /\ DividesByZero(ReadArrayHeader(p, Tag.uint32))
         /\ ended' = TRUE /\ got' = got /\ stream' = stream
  <2>1. item.what = "object" =>
          Value(item, p) = Deserialize(item.layout, p).object
          /\ After(item, p) = Deserialize(item.layout, p).buffer
    BY DEF Value, After
  <2>2. item.what # "object" =>
          Value(item, p) = ReadArrayHeader(p, Tag.uint32).value
          /\ After(item, p) = ReadArrayHeader(p, Tag.uint32).buffer
    BY DEF Value, After
  <2>3. "array" # "object"
    OBVIOUS
  <2> QED
    BY <2>1, <2>2, <2>3, Zenon DEF ReadItem
<1> HIDE DEF k, item, data, p
<1>7. PICK c \in ByteString : /\ Carries(item, c) /\ pos[k] = pos[k - 1] + Len(c)
                              /\ Ahead(Buf(data, pos[k - 1], item.typed), c)
  BY <1>1, <1>3 DEF Laid, item
<1>8. p \in Buffer /\ p.typed = item.typed /\ p.data = data /\ p.at = pos[k - 1]
  BY <1>4, <1>5, BufIs
<1>9. Value(item, p) = Comes(item) /\ After(item, p) = Past(p, Len(c))
  BY <1>5, <1>7, <1>8 DEF Carries
<1>10. CASE SaysNone(item)
  <2>1. item.what # "object"
    BY <1>10 DEF SaysNone
  <2>2. DividesByZero(ReadArrayHeader(p, Tag.uint32))
    BY <1>2, <1>9, <1>10, <2>1, Divides
  <2>3. ended' = TRUE /\ got' = got /\ stream' = stream
    BY <1>6, <2>1, <2>2
  <2>4. SaysNone(sent'[Len(got') + 1]) /\ Len(got') < Len(sent')
    BY <1>1, <1>10, <2>3 DEF item, k
  <2>5. Laid(pos, sent', stream'.data) /\ stream'.at = pos[Len(got')]
    BY <1>1, <1>3, <2>3 DEF data
  <2> QED
    BY <1>1, <2>3, <2>4, <2>5 DEF ItemsInv
<1>11. CASE ~SaysNone(item)
  <2>1. item.what = "object" \/ ~DividesByZero(ReadArrayHeader(p, Tag.uint32))
    BY <1>2, <1>9, <1>11, Divides
  <2>2. got' = Append(got, Value(item, p)) /\ stream' = After(item, p) /\ ended' = FALSE
    BY <1>1, <1>6, <2>1
  <2>3. Value(item, p) = Contents(item)
    BY <1>9, <1>11 DEF Comes
  <2>4. stream' = Buf(data, pos[k], item.typed) /\ pos[k] \in Nat
    <3>1. Len(c) \in Nat
      BY LenProperties DEF ByteString
    <3>2. Past(p, Len(c)) = Buf(p.data, p.at + Len(c), p.typed)
      BY <1>8, BufferIs
    <3>3. pos[k] = p.at + Len(c)
      BY <1>7, <1>8
    <3>4. pos[k] \in Nat
      BY <1>5, <1>7, <3>1
    <3>5. stream' = Buf(p.data, pos[k], p.typed)
      BY <2>2, <1>9, <3>2, <3>3
    <3> QED
      BY <1>8, <3>4, <3>5
  <2>5. stream' \in Buffer /\ stream'.data = data /\ stream'.at = pos[k]
    BY <1>4, <2>4, BufIs
  <2>6. /\ got' \in Seq({Contents(i) : i \in Items}) /\ Len(got') = k /\ got'[k] = Contents(item)
         /\ \A n \in 1..Len(got) : got'[n] = got[n]
    <3> DEFINE C == {Contents(i) : i \in Items}
    <3>1. got \in Seq(C) /\ Contents(item) \in C /\ got' = Append(got, Contents(item))
      BY <1>1, <1>2, <2>2, <2>3
    <3> HIDE DEF C
    <3>2. /\ got' \in Seq(C) /\ Len(got') = Len(got) + 1 /\ got'[Len(got) + 1] = Contents(item)
          /\ \A n \in 1..Len(got) : got'[n] = got[n]
      BY <3>1, AppendProperties
    <3> QED
      BY <3>2 DEF C, k
  <2>7. ASSUME NEW n \in 1..k PROVE got'[n] = Contents(sent[n]) /\ ~SaysNone(sent[n])
    <3>1. CASE n = k
      BY <1>11, <2>6, <3>1 DEF item
    <3>2. CASE n # k
      <4>1. n \in 1..Len(got)
        BY <1>1, <3>2 DEF k
      <4> QED
        BY <1>1, <2>6, <4>1
    <3> QED
      BY <3>1, <3>2
  <2>8. Laid(pos, sent', stream'.data) /\ stream'.at = pos[Len(got')]
    BY <1>1, <1>3, <2>5, <2>6
  <2> QED
    BY <1>1, <2>2, <2>5, <2>6, <2>7, <2>8 DEF ItemsInv
<1> QED
  BY <1>10, <1>11

LEMMA ItemsArrive == ItemsInv => ObjectsArrive
<1> SUFFICES ASSUME ItemsInv PROVE ObjectsArrive
  OBVIOUS
<1>1. DOMAIN got = 1..Len(got) /\ Len(got) \in Nat
  BY LenProperties DEF ItemsInv
<1>2. ASSUME reading, Len(got) = Len(sent) PROVE ~HasMoreData(stream)
  <2>1. PICK pos : Laid(pos, sent, stream.data) /\ stream.at = pos[Len(got)]
    BY <1>2 DEF ItemsInv
  <2>2. Len(stream.data) = stream.at /\ stream.at \in Nat
    BY <1>2, <2>1 DEF Laid, ItemsInv, Buffer
  <2> QED
    BY <2>2 DEF HasMoreData
<1> QED
  BY <1>1, <1>2 DEF ObjectsArrive, ItemsInv

-----------------------------------------------------------------------------
(* Both.                                                                   *)

\* Both kinds of buffers, whichever is in use.
MessagesInv == BitsInv /\ ItemsInv

LEMMA MessagesStart == PartsInit => MessagesInv
  BY BitsStart, ItemsStart DEF PartsInit, BuffersInit, MessagesInv

LEMMA ItemsStep ==
  ASSUME ItemsInv, (\E item \in Items : WriteItem(item)) \/ HandOverBytes \/ ReadItem
                   \/ UNCHANGED bytes
  PROVE  ItemsInv'
<1>1. CASE \E item \in Items : WriteItem(item)
  BY <1>1, WriteKeeps
<1>2. CASE HandOverBytes
  BY <1>2, HandOverKeeps
<1>3. CASE ReadItem
  BY <1>3, ReadKeeps
<1>4. CASE UNCHANGED bytes
  BY <1>4 DEF bytes, ItemsInv
<1> QED
  BY <1>1, <1>2, <1>3, <1>4

LEMMA MessagesStep == MessagesInv /\ [PartsNext]_<<part, poolVars, messagesVars>> => MessagesInv'
<1> SUFFICES ASSUME MessagesInv, [PartsNext]_<<part, poolVars, messagesVars>>
             PROVE  MessagesInv'
  OBVIOUS
<1>1. CASE UNCHANGED messagesVars
  <2>1. UNCHANGED vars /\ UNCHANGED bits /\ UNCHANGED bytes
    BY <1>1 DEF messagesVars
  <2> QED
    BY <2>1, BitsStep, ItemsStep DEF MessagesInv
<1>2. CASE BuffersNext
  <2>1. CASE \/ \E v \in Values : OnBits(WriteValue(v))
             \/ OnBits(HandOver) \/ OnBits(ReadBool) \/ OnBits(ReadUint32) \/ OnBits(ReadBytes)
    <3>1. UNCHANGED bits /\ UNCHANGED bytes
      BY <2>1 DEF OnBits
    <3> QED
      BY <2>1, <3>1, BitsStep, ItemsStep DEF MessagesInv
  <2>2. CASE (\E item \in Items : WriteItem(item)) \/ HandOverBytes \/ ReadItem
    <3>1. UNCHANGED vars /\ UNCHANGED bits
      BY <2>2 DEF WriteItem, HandOverBytes, ReadItem, OnBytes
    <3> QED
      BY <2>2, <3>1, BitsStep, ItemsStep DEF MessagesInv
  <2> QED
    BY <1>2, <2>1, <2>2 DEF BuffersNext
<1> QED
  BY <1>1, <1>2 DEF PartsNext

\* A reader that asks for what was written gets it: values of any numbers of
\* bits from a bit buffer (bit_buffer::write and read), objects and array
\* headers from a byte buffer, for any bytes, words and members and any numbers
\* and sizes of elements below 2^31. The header of no elements is the exception
\* ObjectsArrive states: the reader divides by their number (byte_buffer.cpp:150).
THEOREM Written_Is_Read == PartsSpec => []WrittenIsRead
<1>1. PartsInit => MessagesInv
  BY MessagesStart
<1>2. MessagesInv /\ [PartsNext]_<<part, poolVars, messagesVars>> => MessagesInv'
  BY MessagesStep
<1>3. MessagesInv => WrittenIsRead
  BY ItemsArrive DEF MessagesInv, BitsInv, WrittenIsRead
<1> QED
  BY <1>1, <1>2, <1>3, PTL DEF PartsSpec
=============================================================================
