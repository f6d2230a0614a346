--------------------------- MODULE RingArithmetic ---------------------------
(* Facts about the remainders that index a ring of buffers. *)
EXTENDS Integers, TLAPS

(* Numbers less than a ring's size apart have different places in it. *)
LEMMA NeighboursApart ==
  ASSUME NEW n \in Nat \ {0}, NEW a \in Nat, NEW b \in Nat, a < b, b < a + n
  PROVE  a % n # b % n
<1>1. a = n * (a \div n) + (a % n) /\ a \div n \in Int /\ a % n \in 0 .. n - 1
  OBVIOUS
<1>2. b = n * (b \div n) + (b % n) /\ b \div n \in Int /\ b % n \in 0 .. n - 1
  OBVIOUS
<1> DEFINE d == (b \div n) - (a \div n)
<1>3. SUFFICES ASSUME a % n = b % n PROVE FALSE
  OBVIOUS
<1>4. d \in Int /\ b - a = n * d
  BY <1>1, <1>2, <1>3
<1> HIDE DEF d
<1>5. ASSUME d >= 1 PROVE n * d >= n
  BY <1>4, <1>5
<1>6. ASSUME d <= 0 PROVE n * d <= 0
  BY <1>4, <1>6
<1>7. QED
  BY <1>4, <1>5, <1>6

(* A number is so many rounds and a place in only one way. *)
LEMMA OnePlace ==
  ASSUME NEW n \in Nat \ {0}, NEW r \in 0 .. n - 1, NEW q \in Int
  PROVE  (n * q + r) % n = r
<1> DEFINE a == n * q + r
           d == q - (a \div n)
<1>1. a \in Int /\ a = n * (a \div n) + (a % n) /\ a \div n \in Int /\ a % n \in 0 .. n - 1
  OBVIOUS
<1>2. d \in Int /\ n * d = (a % n) - r
  BY <1>1
<1>3. a % n \in 0 .. n - 1
  BY <1>1
<1> HIDE DEF d, a
<1>4. ASSUME d >= 1 PROVE n * d >= n
  BY <1>2, <1>4
<1>5. ASSUME d <= -1 PROVE n * d <= -n
  BY <1>2, <1>5
<1>6. d = 0
  BY <1>2, <1>3, <1>4, <1>5
<1>7. n * d = 0
  BY <1>6
<1>8. QED
  BY <1>2, <1>3, <1>7 DEF a

(* The place after a number's place is the next number's. *)
LEMMA NextPlace ==
  ASSUME NEW n \in Nat \ {0}, NEW a \in Nat
  PROVE  ((a % n) + 1) % n = (a + 1) % n
<1> DEFINE q == a \div n
           r == a % n
<1>1. a = n * q + r /\ q \in Int /\ r \in 0 .. n - 1
  OBVIOUS
<1> HIDE DEF q, r
<1>2. CASE r + 1 < n
  <2>1. r + 1 \in 0 .. n - 1 /\ a + 1 = n * q + (r + 1) /\ r + 1 = n * 0 + (r + 1)
    BY <1>1, <1>2
  <2>2. (a + 1) % n = r + 1
    BY <1>1, <2>1, OnePlace
  <2>3. (r + 1) % n = r + 1
    BY <2>1, OnePlace
  <2>4. QED
    BY <2>2, <2>3 DEF r
<1>3. CASE r + 1 = n
  <2>1. 0 \in 0 .. n - 1 /\ a + 1 = n * (q + 1) + 0 /\ r + 1 = n * 1 + 0
    BY <1>1, <1>3
  <2>2. (a + 1) % n = 0
    BY <1>1, <2>1, OnePlace
  <2>3. (r + 1) % n = 0
    BY <2>1, OnePlace
  <2>4. QED
    BY <2>2, <2>3 DEF r
<1>4. QED
  BY <1>1, <1>2, <1>3
=============================================================================
