-------------------------- MODULE DecoderSetsProofs --------------------------
(***************************************************************************)
(* The two sets of the decoder that have a representation of their own.    *)
(* U32Set, its set of sequence numbers, knows exactly the keys inserted,   *)
(* for every width of a key, every odd multiplier and every first size;    *)
(* BlockSet, the blocks a frame lacks, implements the set that LtDecoder   *)
(* computes with, for every number of blocks, limit and word size.         *)
(***************************************************************************)
EXTENDS U32Set, BlockSet, FiniteSetTheorems, WellFoundedInduction, TLAPS

-----------------------------------------------------------------------------
(* Numbers.                                                                *)

\* A set of numbers that has 0, and with a number the next, has them all.
LEMMA SetInduction ==
  ASSUME NEW T \in SUBSET Nat, 0 \in T, \A n \in T : n + 1 \in T
  PROVE  T = Nat
<1> SUFFICES ASSUME Nat \ T # {}
             PROVE  FALSE
  OBVIOUS
<1>1. PICK x \in Nat \ T : \A y \in Nat \ T : ~ (<<y, x>> \in OpToRel(<, Nat))
  BY WFMin, NatLessThanWellFounded
<1>2. \A y \in Nat \ T : ~ (y < x)
  BY <1>1 DEF OpToRel
<1>3. x - 1 \in Nat /\ x - 1 < x
  OBVIOUS
<1>4. x - 1 \in T
  BY <1>2, <1>3
<1> QED
  BY <1>4

\* A set of numbers that is not empty has a least one.
LEMMA MinIn ==
  ASSUME NEW T \in SUBSET Nat, T # {}
  PROVE  Min(T) \in T /\ \A y \in T : Min(T) <= y
<1>1. PICK x \in T : \A y \in T : ~ (<<y, x>> \in OpToRel(<, Nat))
  BY WFMin, NatLessThanWellFounded
<1>2. \A y \in T : ~ (y < x)
  BY <1>1 DEF OpToRel
<1>3. \A y \in T : x <= y
  BY <1>2
<1> QED
  BY <1>3 DEF Min

\* A factor that is not zero cancels.
LEMMA Cancel ==
  ASSUME NEW p \in Nat \ {0}, NEW a \in Int, NEW b \in Int, p * a = p * b
  PROVE  a = b
<1>1. CASE a < b
  <2>1. PICK c \in Nat : b = a + c + 1
    <3>1. b - a - 1 \in Nat /\ b = a + (b - a - 1) + 1
      BY <1>1
    <3> QED
      BY <3>1
  <2>2. p * b = p * a + p * c + p
    BY <2>1
  <2>3. p * c >= 0
    BY <2>1
  <2> QED
    BY <2>2, <2>3
<1>2. CASE b < a
  <2>1. PICK c \in Nat : a = b + c + 1
    <3>1. a - b - 1 \in Nat /\ a = b + (a - b - 1) + 1
      BY <1>2
    <3> QED
      BY <3>1
  <2>2. p * a = p * b + p * c + p
    BY <2>1
  <2>3. p * c >= 0
    BY <2>1
  <2> QED
    BY <2>2, <2>3
<1> QED
  BY <1>1, <1>2

\* A quotient and a remainder.
LEMMA Divided ==
  ASSUME NEW a \in Int, NEW p \in Nat \ {0}
  PROVE  /\ a % p \in 0 .. (p - 1)
         /\ \E q \in Int : a = (p * q) + (a % p)
         /\ \E q \in Int, r \in 0 .. (p - 1) : r = a % p /\ a = (p * q) + r
<1>1. a \div p \in Int /\ a = (p * (a \div p)) + (a % p) /\ a % p \in 0 .. (p - 1)
  BY SMTT(30)
<1> QED
  BY <1>1

\* ... of which there is only one.
LEMMA RemainderUnique ==
  ASSUME NEW p \in Nat \ {0}, NEW q \in Int, NEW r \in 0 .. (p - 1)
  PROVE  (p * q + r) % p = r
<1> DEFINE a == p * q + r
<1>1. a \in Int
  OBVIOUS
<1>2. PICK k \in Int : a = (p * k) + (a % p)
  BY <1>1, Divided
<1>3. a % p \in 0 .. (p - 1)
  BY <1>1, Divided
<1>4. PICK s \in 0 .. (p - 1) : s = a % p
  BY <1>3
<1>5. p * k + s = p * q + r
  BY <1>2, <1>4
<1>6. p * (k - q) = r - s
  BY <1>5
<1>7. PICK d \in Int : d = k - q
  OBVIOUS
<1>8. d = 0
  <2>1. CASE d >= 1
    <3>1. PICK c \in Nat : d = c + 1
      <4>1. d - 1 \in Nat /\ d = (d - 1) + 1
        BY <2>1
      <4> QED
        BY <4>1
    <3>2. p * d = p * c + p /\ p * c >= 0
      BY <3>1
    <3> QED
      BY <3>2, <1>6, <1>7
  <2>2. CASE d <= -1
    <3>1. PICK c \in Nat : d = -1 - c
      <4>1. -1 - d \in Nat /\ d = -1 - (-1 - d)
        BY <2>2
      <4> QED
        BY <4>1
    <3>2. p * d = - p - p * c /\ p * c >= 0
      BY <3>1
    <3> QED
      BY <3>2, <1>6, <1>7
  <2> QED
    BY <2>1, <2>2
<1>9. p * d = 0
  BY <1>8
<1> QED
  BY <1>9, <1>6, <1>7, <1>4

-----------------------------------------------------------------------------
(* Powers of two.                                                          *)

Exponents == 0 .. Width + 1

Doubled(f, n) == IF n = 0 THEN 1 ELSE 2 * f[n - 1]

\* The recursion goes down by one, so there is such a function.
LEMMA PowerExists == \E f : f = [n \in Exponents |-> Doubled(f, n)]
<1> DEFINE Made(f) == [n \in Exponents |-> Doubled(f, n)]
           Upto(f, b) == \A n \in Exponents : n < b => f[n] = Doubled(f, n)
           T == {b \in Nat : \E f : Upto(f, b)}
<1>0. Width + 2 \in Nat /\ Exponents = 0 .. Width + 1 /\ Exponents \subseteq Nat
  BY WidthAssumption DEF Exponents
<1>1. 0 \in T
  BY <1>0
<1>2. ASSUME NEW b \in T
      PROVE  b + 1 \in T
  <2>1. PICK f : Upto(f, b)
    OBVIOUS
  <2>2. ASSUME NEW n \in Exponents, n < b + 1
        PROVE  Made(f)[n] = Doubled(Made(f), n)
    <3>1. Made(f)[n] = Doubled(f, n)
      OBVIOUS
    <3>2. n # 0 => Made(f)[n - 1] = f[n - 1]
      BY <1>0, <2>1, <2>2, WidthAssumption
    <3> HIDE DEF Made
    <3> QED
      BY <3>1, <3>2 DEF Doubled
  <2>3. b + 1 \in Nat /\ Upto(Made(f), b + 1)
    BY <2>2
  <2> HIDE DEF Upto, Made
  <2> QED
    BY <2>3
<1>3. PICK f : Upto(f, Width + 2)
  <2>1. T \in SUBSET Nat
    OBVIOUS
  <2>2. T = Nat
    <3> HIDE DEF T
    <3> QED
      BY <1>1, <1>2, <2>1, SetInduction
  <2>3. Width + 2 \in T
    <3> HIDE DEF T
    <3> QED
      BY <1>0, <2>2
  <2> HIDE DEF Upto
  <2> QED
    BY <2>3
<1>4. \A n \in Exponents : Made(f)[n] = f[n]
  BY <1>0, <1>3, WidthAssumption
<1>5. \A n \in Exponents : Doubled(f, n) = Doubled(Made(f), n)
  <2> SUFFICES ASSUME NEW n \in Exponents, n # 0
               PROVE  Doubled(f, n) = Doubled(Made(f), n)
    BY DEF Doubled
  <2>1. n - 1 \in Exponents
    BY <1>0, WidthAssumption
  <2>2. Made(f)[n - 1] = f[n - 1]
    BY <1>4, <2>1
  <2> HIDE DEF Made
  <2> QED
    BY <2>2 DEF Doubled
<1>6. Made(f) = [n \in Exponents |-> Doubled(Made(f), n)]
  BY <1>5
<1> QED
  BY <1>6

\* Power is that function.
LEMMA PowerSteps ==
  /\ Power[0] = 1
  /\ \A n \in 0 .. Width : Power[n + 1] = 2 * Power[n]
<1>1. Power = [n \in Exponents |-> Doubled(Power, n)]
  BY PowerExists DEF Power, Exponents, Doubled
<1>2. 0 \in Exponents
  BY WidthAssumption DEF Exponents
<1>3. Power[0] = 1
  BY <1>1, <1>2 DEF Doubled
<1>4. ASSUME NEW n \in 0 .. Width
      PROVE  Power[n + 1] = 2 * Power[n]
  <2>1. n + 1 \in Exponents /\ n + 1 # 0 /\ (n + 1) - 1 = n
    BY WidthAssumption DEF Exponents
  <2>2. Power[n + 1] = Doubled(Power, n + 1)
    BY <1>1, <2>1
  <2> QED
    BY <2>1, <2>2 DEF Doubled
<1> QED
  BY <1>3, <1>4

\* A power divides every larger one.
LEMMA PowerDivides ==
  ASSUME NEW n \in Exponents, NEW t \in 0 .. n
  PROVE  /\ Power[t] \in Nat \ {0}
         /\ \E k \in Nat \ {0} : Power[n] = Power[t] * k
<1> DEFINE Good(b) == b \in Exponents =>
             \A u \in 0 .. b : /\ Power[u] \in Nat \ {0}
                               /\ \E k \in Nat \ {0} : Power[b] = Power[u] * k
           T == {b \in Nat : Good(b)}
<1>0. Width \in Nat /\ \A b \in Exponents : b \in Nat /\ b <= Width + 1
  BY WidthAssumption DEF Exponents
<1>1. 0 \in T
  BY PowerSteps
<1>2. ASSUME NEW b \in T
      PROVE  b + 1 \in T
  <2> SUFFICES ASSUME b + 1 \in Exponents
               PROVE  Good(b + 1)
    BY <1>2
  <2>1. b \in Nat /\ b \in 0 .. Width /\ b \in Exponents
    BY <1>0, <1>2 DEF Exponents
  <2>2. Power[b] \in Nat \ {0}
    BY <2>1, <1>2
  <2>3. Power[b + 1] = 2 * Power[b] /\ Power[b + 1] \in Nat \ {0}
    BY <2>1, <2>2, PowerSteps
  <2>4. ASSUME NEW u \in 0 .. b + 1
        PROVE  /\ Power[u] \in Nat \ {0}
               /\ \E k \in Nat \ {0} : Power[b + 1] = Power[u] * k
    <3>1. CASE u = b + 1
      BY <3>1, <2>3
    <3>2. CASE u # b + 1
      <4>1. u \in 0 .. b
        BY <3>2, <2>1
      <4>2. PICK k \in Nat \ {0} : Power[b] = Power[u] * k
        BY <1>2, <2>1, <4>1
      <4>3. PICK x \in Nat \ {0} : x = Power[u]
        BY <1>2, <2>1, <4>1
      <4>4. Power[b + 1] = x * (2 * k) /\ 2 * k \in Nat \ {0}
        BY <4>2, <4>3, <2>3
      <4> QED
        BY <4>3, <4>4
    <3> QED
      BY <3>1, <3>2
  <2> QED
    BY <2>4
<1>3. T = Nat
  <2>1. T \in SUBSET Nat
    OBVIOUS
  <2> HIDE DEF T
  <2> QED
    BY <1>1, <1>2, <2>1, SetInduction
<1>4. n \in T
  <2> HIDE DEF T
  <2> QED
    BY <1>0, <1>3
<1> QED
  BY <1>4

\* What an odd factor times a number is divisible by, the number is.
LEMMA OddFactor ==
  ASSUME NEW n \in Exponents, NEW x \in Int, NEW q \in Int,
         x * Multiplier = Power[n] * q
  PROVE  \E r \in Int : x = Power[n] * r
<1> DEFINE Good(b) == b \in Exponents =>
             \A y \in Int : x * Multiplier = Power[b] * y =>
               \E r \in Int : x = Power[b] * r
           T == {b \in Nat : Good(b)}
<1>0. /\ Width \in Nat
      /\ \A b \in Exponents : b \in Nat /\ b <= Width + 1 /\ Power[b] \in Nat \ {0}
  <2>1. Width \in Nat /\ \A b \in Exponents : b \in Nat /\ b <= Width + 1
    BY WidthAssumption DEF Exponents
  <2>2. \A b \in Exponents : 0 \in 0 .. b /\ b \in 0 .. b
    BY <2>1
  <2> QED
    BY <2>1, <2>2, PowerDivides
<1>1. 0 \in T
  <2>1. x = 1 * x
    OBVIOUS
  <2> QED
    BY <2>1, PowerSteps
<1>2. ASSUME NEW b \in T
      PROVE  b + 1 \in T
  <2> SUFFICES ASSUME b + 1 \in Exponents, NEW y \in Int,
                      x * Multiplier = Power[b + 1] * y
               PROVE  \E r \in Int : x = Power[b + 1] * r
    BY <1>2
  <2>1. b \in 0 .. Width /\ b \in Exponents
    BY <1>0 DEF Exponents
  <2>2. PICK p \in Nat \ {0} : p = Power[b] /\ Power[b + 1] = 2 * p
    BY <2>1, <1>0, PowerSteps
  <2>3. PICK m \in Nat : Multiplier = 2 * m + 1
    <3>1. Multiplier \in Nat /\ Multiplier % 2 = 1
      BY MultiplierAssumption DEF Keys
    <3>2. Multiplier = 2 * (Multiplier \div 2) + 1 /\ Multiplier \div 2 \in Nat
      BY <3>1
    <3> QED
      BY <3>2
  <2>4. x * Multiplier = p * (2 * y) /\ 2 * y \in Int
    BY <2>2
  <2>5. PICK z \in Int : x = p * z
    BY <2>1, <2>2, <2>4
  <2>6. p * (z * Multiplier) = p * (2 * y)
    <3>1. (p * z) * Multiplier = p * (z * Multiplier)
      BY <2>3
    <3> QED
      BY <3>1, <2>4, <2>5
  <2>7. z * Multiplier = 2 * y
    <3>1. z * Multiplier \in Int
      BY <2>3
    <3> QED
      BY <3>1, <2>6, Cancel
  <2>8. PICK w \in Int : w = m * z
    OBVIOUS
  <2>9. PICK r \in Int : z = 2 * r
    <3>1. z * (2 * m + 1) = 2 * (m * z) + z
      OBVIOUS
    <3>2. y - w \in Int /\ z = 2 * (y - w)
      BY <3>1, <2>3, <2>7, <2>8
    <3> QED
      BY <3>2
  <2> QED
    <3>1. x = (2 * p) * r
      BY <2>5, <2>9
    <3> QED
      BY <3>1, <2>2
<1>3. T = Nat
  <2>1. T \in SUBSET Nat
    OBVIOUS
  <2> HIDE DEF T
  <2> QED
    BY <1>1, <1>2, <2>1, SetInduction
<1>4. n \in T
  <2> HIDE DEF T
  <2> QED
    BY <1>0, <1>3
<1> QED
  BY <1>4

\* A multiple of p that is nearer to zero than p is zero.
LEMMA SmallMultiple ==
  ASSUME NEW p \in Nat \ {0}, NEW r \in Int, p * r < p, p * r > - p
  PROVE  r = 0
<1>1. CASE r >= 1
  <2>1. PICK c \in Nat : r = c + 1
    <3>1. r - 1 \in Nat /\ r = (r - 1) + 1
      BY <1>1
    <3> QED
      BY <3>1
  <2>2. p * r = p * c + p /\ p * c >= 0
    BY <2>1
  <2> QED
    BY <2>2
<1>2. CASE r <= -1
  <2>1. PICK c \in Nat : r = -1 - c
    <3>1. -1 - r \in Nat /\ r = -1 - (-1 - r)
      BY <1>2
    <3> QED
      BY <3>1
  <2>2. p * r = - p - p * c /\ p * c >= 0
    BY <2>1
  <2> QED
    BY <2>2
<1> QED
  BY <1>1, <1>2

\* The hash in a table that is at most as large as there are keys, and in the
\* one larger table.
LEMMA HomeQuotient ==
  ASSUME NEW t \in 0 .. Width + 1, NEW v \in Keys
  PROVE  /\ Home(v, Power[t]) \in 0 .. (Power[t] - 1)
         /\ \E q \in Int : v * Multiplier = (Power[IF t <= Width THEN t ELSE Width] * q)
                                              + Home(v, Power[t])
<1>1. Width \in Exponents /\ t \in Exponents /\ Width \in 0 .. Width /\ t \in 0 .. t
      /\ Width \in Nat /\ t \in Nat
  BY WidthAssumption DEF Exponents
<1>2. PICK N \in Nat \ {0} : N = Power[Width]
  BY <1>1, PowerDivides
<1>3. PICK c \in Nat \ {0} : c = Power[t]
  BY <1>1, PowerDivides
<1>4. PICK a \in Nat : a = v * Multiplier
  <2>1. v \in Nat /\ Multiplier \in Nat
    BY MultiplierAssumption DEF Keys
  <2> QED
    BY <2>1
<1>5. PICK q1 \in Int, b \in 0 .. (N - 1) : b = a % N /\ a = (N * q1) + b
  <2>1. a \in Int
    OBVIOUS
  <2> QED
    BY <2>1, Divided, Zenon
<1>6. PICK q2 \in Int, h \in 0 .. (c - 1) : h = b % c /\ b = (c * q2) + h
  <2>1. b \in Int
    OBVIOUS
  <2> QED
    BY <2>1, Divided, Zenon
<1>7. Home(v, Power[t]) = h
  BY <1>2, <1>3, <1>4, <1>5, <1>6 DEF Home
<1>8. CASE t <= Width
  <2>1. PICK k \in Nat \ {0} : N = c * k
    <3>1. t \in 0 .. Width
      BY <1>1, <1>8
    <3> QED
      BY <1>1, <1>2, <1>3, <3>1, PowerDivides
  <2>2. a = (c * ((k * q1) + q2)) + h
    <3>1. PICK d \in Int : d = k * q1
      OBVIOUS
    <3>2. N * q1 = c * d
      <4>1. (c * k) * q1 = c * (k * q1)
        OBVIOUS
      <4> QED
        BY <4>1, <3>1, <2>1
    <3>3. c * (d + q2) = (c * d) + (c * q2)
      OBVIOUS
    <3>4. PICK x \in Int, y \in Int : x = c * d /\ y = c * q2
      OBVIOUS
    <3>5. b = y + h /\ a = x + b /\ c * (d + q2) = x + y
      BY <3>2, <3>3, <3>4, <1>5, <1>6
    <3>6. a = (c * (d + q2)) + h
      BY <3>5
    <3> QED
      BY <3>1, <3>6
  <2> QED
    BY <2>2, <1>3, <1>4, <1>7, <1>8
<1>9. CASE ~ (t <= Width)
  <2>1. t = Width + 1 /\ c = 2 * N
    BY <1>1, <1>2, <1>3, <1>9, PowerSteps
  <2>2. b \in 0 .. (c - 1)
    BY <2>1
  <2>3. (c * 0 + b) % c = b
    BY <2>2, RemainderUnique
  <2>4. h = b
    <3>1. c * 0 + b = b
      OBVIOUS
    <3> QED
      BY <3>1, <2>3, <1>6
  <2> QED
    BY <2>4, <1>2, <1>3, <1>4, <1>5, <1>7, <1>9
<1> QED
  BY <1>8, <1>9, <1>3, <1>7

\* hash is a bijection on the bits that the mask keeps: keys that are less than
\* the table apart have slots of their own.
LEMMA HomesDiffer ==
  ASSUME NEW t \in 0 .. Width + 1, NEW u \in Keys, NEW v \in Keys,
         v - u < Power[t], u - v < Power[t], Home(u, Power[t]) = Home(v, Power[t])
  PROVE  u = v
<1> DEFINE e == IF t <= Width THEN t ELSE Width
<1>1. t \in Nat /\ Width \in Nat /\ t <= Width + 1 /\ u \in Nat /\ v \in Nat
      /\ Multiplier \in Nat
  BY WidthAssumption, MultiplierAssumption DEF Keys
<1>2. e \in Exponents /\ e \in 0 .. e
  BY <1>1 DEF Exponents
<1>3. PICK p \in Nat \ {0} : p = Power[e]
  BY <1>2, PowerDivides
<1>4. v - u < p /\ u - v < p
  <2>1. CASE t <= Width
    BY <1>3, <2>1
  <2>2. CASE ~ (t <= Width)
    BY <1>1, <1>3, <2>2 DEF Keys
  <2> QED
    BY <2>1, <2>2
<1>5. PICK h \in Int : h = Home(u, Power[t]) /\ h = Home(v, Power[t])
  <2>1. t \in Exponents /\ t \in 0 .. t
    BY <1>1 DEF Exponents
  <2>2. Power[t] \in Nat
    BY <2>1, PowerDivides
  <2> QED
    BY <2>2, HomeQuotient
<1>6. PICK q1 \in Int : u * Multiplier = (p * q1) + h
  BY <1>3, <1>5, HomeQuotient
<1>7. PICK q2 \in Int : v * Multiplier = (p * q2) + h
  BY <1>3, <1>5, HomeQuotient
<1>8. (v - u) * Multiplier = p * (q2 - q1)
  <2>1. (v - u) * Multiplier = v * Multiplier - u * Multiplier
    BY <1>1
  <2>2. p * (q2 - q1) = p * q2 - p * q1
    OBVIOUS
  <2>3. p * q2 \in Int /\ p * q1 \in Int
    OBVIOUS
  <2> QED
    BY <2>1, <2>2, <2>3, <1>6, <1>7
<1>9. PICK r \in Int : v - u = p * r
  <2>1. v - u \in Int /\ q2 - q1 \in Int
    BY <1>1
  <2> HIDE DEF e
  <2> QED
    BY <2>1, <1>2, <1>3, <1>8, OddFactor
<1>10. p * r < p /\ p * r > - p
  BY <1>1, <1>4, <1>9
<1>11. r = 0
  BY <1>10, SmallMultiple
<1> QED
  BY <1>1, <1>9, <1>11

-----------------------------------------------------------------------------
(* Probing.                                                                *)

Slots(cap) == 0 .. (cap - 1)

\* A probe finds v before it comes to a free slot.
Reachable(t, cap, v) ==
  \E d \in Slots(cap) :
    /\ t[Probe(v, d, cap)] = v
    /\ \A e \in 0 .. (d - 1) : t[Probe(v, e, cap)] # Free

\* Keys whose hashes differ are where their hashes say.
AtHome(t, cap, keys) ==
  (\A u, v \in keys : Home(u, cap) = Home(v, cap) => u = v) =>
    \A v \in keys : t[Home(v, cap)] = v

\* A table of cap slots has each of the keys once, where a probe finds it, and
\* nothing else.
Holds(t, cap, keys) ==
  /\ t \in [Slots(cap) -> Keys \cup {Free}]
  /\ keys \subseteq Keys
  /\ \A v \in keys : Reachable(t, cap, v)
  /\ \A i \in Slots(cap) : t[i] # Free => t[i] \in keys
  /\ \A i, j \in Slots(cap) : t[i] = t[j] /\ t[i] # Free => i = j
  /\ AtHome(t, cap, keys)

\* The mask keeps every probe in the table.
LEMMA ProbeIn ==
  ASSUME NEW cap \in Nat \ {0}, NEW v \in Keys, NEW d \in Nat
  PROVE  /\ Home(v, cap) \in Slots(cap)
         /\ Probe(v, d, cap) \in Slots(cap)
         /\ Probe(v, 0, cap) = Home(v, cap)
<1>1. PICK a \in Nat : a = v * Multiplier
  <2>1. v \in Nat /\ Multiplier \in Nat
    BY MultiplierAssumption DEF Keys
  <2> QED
    BY <2>1
<1>2. PICK N \in Nat \ {0} : N = Power[Width]
  <2>1. Width \in Exponents /\ Width \in 0 .. Width
    BY WidthAssumption DEF Exponents
  <2> QED
    BY <2>1, PowerDivides
<1>3. a % N \in Nat
  <2>1. a % N \in 0 .. (N - 1)
    BY Divided
  <2> QED
    BY <2>1
<1>4. (a % N) % cap \in 0 .. (cap - 1)
  BY <1>3, Divided
<1>5. PICK h \in 0 .. (cap - 1) : h = Home(v, cap)
  BY <1>1, <1>2, <1>4 DEF Home
<1>6. (h + d) % cap \in 0 .. (cap - 1)
  <2>1. h + d \in Int
    OBVIOUS
  <2> QED
    BY <2>1, Divided
<1>7. (h + 0) % cap = h
  <2>1. (cap * 0 + h) % cap = h
    BY RemainderUnique
  <2>2. cap * 0 + h = h /\ h + 0 = h
    OBVIOUS
  <2> QED
    BY <2>1, <2>2
<1> QED
  BY <1>5, <1>6, <1>7 DEF Probe, Slots

\* A probe comes to every slot.
LEMMA ProbeOnto ==
  ASSUME NEW cap \in Nat \ {0}, NEW v \in Keys, NEW i \in Slots(cap)
  PROVE  \E d \in Slots(cap) : Probe(v, d, cap) = i
<1>1. PICK h \in 0 .. (cap - 1) : h = Home(v, cap)
  BY ProbeIn DEF Slots
<1>2. i \in 0 .. (cap - 1)
  BY DEF Slots
<1>3. CASE h <= i
  <2>1. i - h \in 0 .. (cap - 1) /\ h + (i - h) = (cap * 0) + i
    BY <1>2, <1>3
  <2>2. (h + (i - h)) % cap = i
    BY <2>1, <1>2, RemainderUnique
  <2> QED
    BY <2>1, <2>2, <1>1 DEF Probe, Slots
<1>4. CASE ~ (h <= i)
  <2>1. i - h + cap \in 0 .. (cap - 1) /\ h + (i - h + cap) = (cap * 1) + i
    BY <1>2, <1>4
  <2>2. (h + (i - h + cap)) % cap = i
    BY <2>1, <1>2, RemainderUnique
  <2> QED
    BY <2>1, <2>2, <1>1 DEF Probe, Slots
<1> QED
  BY <1>3, <1>4

\* Where the loops of contains and insert stop.
LEMMA StopsAt ==
  ASSUME NEW t, NEW cap \in Nat \ {0}, NEW v \in Keys, Stops(t, cap, v) # {}
  PROVE  \E m \in Slots(cap) :
           /\ Slot(t, cap, v) = Probe(v, m, cap)
           /\ Slot(t, cap, v) \in Slots(cap)
           /\ t[Slot(t, cap, v)] \in {Free, v}
           /\ \A d \in Slots(cap) : t[Probe(v, d, cap)] \in {Free, v} => m <= d
<1> DEFINE m == Min(Stops(t, cap, v))
<1>1. Stops(t, cap, v) \in SUBSET Nat
  BY DEF Stops
<1>2. m \in Stops(t, cap, v) /\ \A d \in Stops(t, cap, v) : m <= d
  BY <1>1, MinIn
<1>3. m \in Slots(cap) /\ m \in Nat
  BY <1>2 DEF Stops, Slots
<1>4. Slot(t, cap, v) = Probe(v, m, cap)
  BY DEF Slot
<1>5. Probe(v, m, cap) \in Slots(cap)
  BY <1>3, ProbeIn
<1>6. t[Probe(v, m, cap)] \in {Free, v}
  BY <1>2 DEF Stops
<1>7. ASSUME NEW d \in Slots(cap), t[Probe(v, d, cap)] \in {Free, v}
      PROVE  m <= d
  BY <1>2, <1>7 DEF Stops, Slots
<1> HIDE DEF m
<1> QED
  BY <1>3, <1>4, <1>5, <1>6, <1>7

\* contains tells the keys of the table from all others.
LEMMA Found ==
  ASSUME NEW t, NEW cap \in Nat \ {0}, NEW keys, Holds(t, cap, keys),
         NEW v \in Keys, Stops(t, cap, v) # {}
  PROVE  t[Slot(t, cap, v)] = v <=> v \in keys
<1>1. PICK m \in Slots(cap) :
        /\ Slot(t, cap, v) = Probe(v, m, cap)
        /\ Slot(t, cap, v) \in Slots(cap)
        /\ t[Slot(t, cap, v)] \in {Free, v}
        /\ \A d \in Slots(cap) : t[Probe(v, d, cap)] \in {Free, v} => m <= d
  BY StopsAt
<1>2. v # Free
  BY FreeAssumption
<1>3. ASSUME v \in keys
      PROVE  t[Slot(t, cap, v)] = v
  <2>1. PICK d \in Slots(cap) :
          /\ t[Probe(v, d, cap)] = v
          /\ \A e \in 0 .. (d - 1) : t[Probe(v, e, cap)] # Free
    BY <1>3 DEF Holds, Reachable
  <2>2. m <= d
    BY <1>1, <2>1
  <2>3. CASE m = d
    BY <1>1, <2>1, <2>3
  <2>4. CASE m # d
    <3>1. m \in 0 .. (d - 1)
      BY <2>2, <2>4 DEF Slots
    <3> QED
      BY <3>1, <2>1, <1>1
  <2> QED
    BY <2>3, <2>4
<1>4. ASSUME t[Slot(t, cap, v)] = v
      PROVE  v \in keys
  BY <1>1, <1>2, <1>4 DEF Holds
<1> QED
  BY <1>3, <1>4

\* Keys are finitely many, and at most as many as a word has values.
LEMMA KeysFinite ==
  ASSUME NEW keys, keys \subseteq Keys
  PROVE  IsFiniteSet(keys) /\ Cardinality(keys) \in Nat /\ Cardinality(keys) <= Power[Width]
<1>1. Width \in Exponents /\ Width \in 0 .. Width
  BY WidthAssumption DEF Exponents
<1>2. PICK N \in Nat \ {0} : N = Power[Width]
  BY <1>1, PowerDivides
<1>3. IsFiniteSet(0 .. (N - 1)) /\ Cardinality(0 .. (N - 1)) = N
  BY FS_Interval
<1>4. keys \subseteq 0 .. (N - 1)
  BY <1>2 DEF Keys
<1> QED
  BY <1>2, <1>3, <1>4, FS_Subset, FS_CardinalityType

\* A table with fewer keys than slots has a free slot.
LEMMA FreeSlot ==
  ASSUME NEW t, NEW cap \in Nat \ {0}, NEW keys, Holds(t, cap, keys),
         Cardinality(keys) < cap
  PROVE  \E i \in Slots(cap) : t[i] = Free
<1> SUFFICES ASSUME \A i \in Slots(cap) : t[i] # Free
             PROVE  FALSE
  OBVIOUS
<1>1. IsFiniteSet(Slots(cap)) /\ Cardinality(Slots(cap)) = cap
  <2>1. IsFiniteSet(0 .. (cap - 1)) /\ Cardinality(0 .. (cap - 1)) = cap
    BY FS_Interval
  <2> QED
    BY <2>1 DEF Slots
<1>2. IsFiniteSet(keys) /\ Cardinality(keys) \in Nat
  BY KeysFinite DEF Holds
<1>3. PICK i \in Slots(cap), j \in Slots(cap) : i # j /\ t[i] = t[j]
  <2>1. t \in [Slots(cap) -> keys]
    BY DEF Holds
  <2> QED
    BY <2>1, <1>1, <1>2, FS_PigeonHole
<1> QED
  BY <1>3 DEF Holds

\* ... so that every probe stops.
LEMMA ProbeStops ==
  ASSUME NEW t, NEW cap \in Nat \ {0}, NEW keys, Holds(t, cap, keys),
         Cardinality(keys) < cap, NEW v \in Keys
  PROVE  Stops(t, cap, v) # {}
<1>1. PICK i \in Slots(cap) : t[i] = Free
  BY FreeSlot
<1>2. PICK d \in Slots(cap) : Probe(v, d, cap) = i
  BY ProbeOnto
<1> QED
  BY <1>1, <1>2 DEF Stops, Slots

\* An empty table.
LEMMA EmptyHolds ==
  ASSUME NEW cap \in Nat \ {0}
  PROVE  Holds(EmptyTable(cap), cap, {})
BY DEF Holds, EmptyTable, Slots, AtHome

\* insert adds a key where its probe stopped, and moves none.
LEMMA PlacedHolds ==
  ASSUME NEW t, NEW cap \in Nat \ {0}, NEW keys, Holds(t, cap, keys),
         NEW v \in Keys, Stops(t, cap, v) # {}
  PROVE  Holds(Placed(t, cap, v), cap, keys \cup {v})
<1> DEFINE s == Slot(t, cap, v)
           u == Placed(t, cap, v)
<1>1. PICK m \in Slots(cap) :
        /\ s = Probe(v, m, cap)
        /\ s \in Slots(cap)
        /\ t[s] \in {Free, v}
        /\ \A d \in Slots(cap) : t[Probe(v, d, cap)] \in {Free, v} => m <= d
  BY StopsAt
<1>2. t \in [Slots(cap) -> Keys \cup {Free}] /\ v # Free
  BY FreeAssumption DEF Holds
<1>3. /\ u \in [Slots(cap) -> Keys \cup {Free}]
      /\ u[s] = v
      /\ \A i \in Slots(cap) : i # s => u[i] = t[i]
  BY <1>1, <1>2 DEF Placed
<1>4. \A i \in Slots(cap) : t[i] # Free => u[i] = t[i]
  BY <1>1, <1>3
<1> HIDE DEF u, s
<1>5. ASSUME NEW w \in keys
      PROVE  Reachable(u, cap, w)
  <2>1. w \in Keys /\ w # Free
    BY FreeAssumption DEF Holds
  <2>2. PICK d \in Slots(cap) :
          /\ t[Probe(w, d, cap)] = w
          /\ \A e \in 0 .. (d - 1) : t[Probe(w, e, cap)] # Free
    BY DEF Holds, Reachable
  <2>3. \A e \in Slots(cap) : Probe(w, e, cap) \in Slots(cap)
    BY <2>1, ProbeIn DEF Slots
  <2>4. \A e \in 0 .. (d - 1) : e \in Slots(cap)
    BY DEF Slots
  <2>5. u[Probe(w, d, cap)] = w
    BY <2>1, <2>2, <2>3, <1>4
  <2>6. \A e \in 0 .. (d - 1) : u[Probe(w, e, cap)] # Free
    BY <2>2, <2>3, <2>4, <1>4
  <2> QED
    BY <2>5, <2>6 DEF Reachable
<1>6. Reachable(u, cap, v)
  <2>1. u[Probe(v, m, cap)] = v
    BY <1>1, <1>3
  <2>2. ASSUME NEW e \in 0 .. (m - 1)
        PROVE  u[Probe(v, e, cap)] # Free
    <3>1. e \in Slots(cap) /\ ~ (m <= e)
      BY DEF Slots
    <3>2. Probe(v, e, cap) \in Slots(cap) /\ t[Probe(v, e, cap)] # Free
      BY <3>1, <1>1, ProbeIn DEF Slots
    <3> QED
      BY <3>2, <1>4
  <2> QED
    BY <2>1, <2>2 DEF Reachable
<1>7. ASSUME NEW i \in Slots(cap), u[i] # Free
      PROVE  u[i] \in keys \cup {v}
  BY <1>3, <1>7 DEF Holds
<1>8. v \in keys => t[s] = v
  BY Found DEF s
<1>9. ASSUME NEW i \in Slots(cap), u[i] = v
      PROVE  i = s
  <2> SUFFICES ASSUME i # s
               PROVE  FALSE
    OBVIOUS
  <2>1. t[i] = v
    BY <1>3, <1>9
  <2>2. v \in keys
    BY <2>1, <1>2 DEF Holds
  <2> QED
    BY <2>1, <2>2, <1>1, <1>2, <1>8 DEF Holds
<1>10. ASSUME NEW i \in Slots(cap), NEW j \in Slots(cap), u[i] = u[j], u[i] # Free
       PROVE  i = j
  <2>1. CASE u[i] = v
    BY <2>1, <1>9, <1>10
  <2>2. CASE u[i] # v
    <3>1. i # s /\ j # s
      BY <2>2, <1>3, <1>10
    <3> QED
      BY <3>1, <1>3, <1>10 DEF Holds
  <2> QED
    BY <2>1, <2>2
<1>11. AtHome(u, cap, keys \cup {v})
  <2> SUFFICES ASSUME \A x, y \in keys \cup {v} : Home(x, cap) = Home(y, cap) => x = y
               PROVE  \A w \in keys \cup {v} : u[Home(w, cap)] = w
    BY DEF AtHome
  <2>1. \A w \in keys : t[Home(w, cap)] = w /\ w \in Keys /\ w # Free
    BY FreeAssumption DEF Holds, AtHome
  <2>2. ASSUME NEW w \in keys
        PROVE  u[Home(w, cap)] = w
    <3>1. Home(w, cap) \in Slots(cap)
      BY <2>1, ProbeIn
    <3> QED
      BY <3>1, <2>1, <1>4
  <2>3. Home(v, cap) \in Slots(cap) /\ Probe(v, 0, cap) = Home(v, cap) /\ 0 \in Slots(cap)
    BY ProbeIn DEF Slots
  <2>4. t[Home(v, cap)] \in {Free, v}
    <3> SUFFICES ASSUME t[Home(v, cap)] # Free
                 PROVE  t[Home(v, cap)] = v
      OBVIOUS
    <3>1. PICK x \in keys : x = t[Home(v, cap)]
      BY <2>3 DEF Holds
    <3>2. t[Home(x, cap)] = x /\ Home(x, cap) \in Slots(cap) /\ x # Free
      BY <2>1, ProbeIn
    <3>3. Home(x, cap) = Home(v, cap)
      BY <3>1, <3>2, <2>3 DEF Holds
    <3> QED
      BY <3>1, <3>3
  <2>5. m <= 0 /\ m \in Nat
    BY <2>3, <2>4, <1>1 DEF Slots
  <2>6. m = 0
    BY <2>5
  <2>7. u[Home(v, cap)] = v
    BY <2>3, <2>6, <1>1, <1>3
  <2> QED
    BY <2>2, <2>7
<1>12. keys \cup {v} \subseteq Keys
  BY DEF Holds
<1>13. Holds(u, cap, keys \cup {v})
  BY <1>3, <1>5, <1>6, <1>7, <1>10, <1>11, <1>12 DEF Holds
<1> QED
  BY <1>13 DEF u

-----------------------------------------------------------------------------
(* Growth.                                                                 *)

Move(f, t, cap, n) ==
  IF n = 0 THEN EmptyTable(NewCap(cap))
  ELSE IF t[n - 1] = Free THEN f[n - 1]
  ELSE Placed(f[n - 1], NewCap(cap), t[n - 1])

\* The loop of grow goes on by one, so there is such a function.
LEMMA MovedExists ==
  ASSUME NEW t, NEW cap \in Nat
  PROVE  \E f : f = [n \in 0 .. cap |-> Move(f, t, cap, n)]
<1> DEFINE Made(f) == [n \in 0 .. cap |-> Move(f, t, cap, n)]
           Upto(f, b) == \A n \in 0 .. cap : n < b => f[n] = Move(f, t, cap, n)
           T == {b \in Nat : \E f : Upto(f, b)}
<1>1. 0 \in T
  OBVIOUS
<1>2. ASSUME NEW b \in T
      PROVE  b + 1 \in T
  <2>1. PICK f : Upto(f, b)
    OBVIOUS
  <2>2. ASSUME NEW n \in 0 .. cap, n < b + 1
        PROVE  Made(f)[n] = Move(Made(f), t, cap, n)
    <3>1. Made(f)[n] = Move(f, t, cap, n)
      OBVIOUS
    <3>2. n # 0 => Made(f)[n - 1] = f[n - 1]
      BY <2>1, <2>2
    <3> HIDE DEF Made
    <3> QED
      BY <3>1, <3>2 DEF Move
  <2>3. b + 1 \in Nat /\ Upto(Made(f), b + 1)
    BY <2>2
  <2> HIDE DEF Upto, Made
  <2> QED
    BY <2>3
<1>3. PICK f : Upto(f, cap + 1)
  <2>1. T \in SUBSET Nat
    OBVIOUS
  <2>2. T = Nat
    <3> HIDE DEF T
    <3> QED
      BY <1>1, <1>2, <2>1, SetInduction
  <2>3. cap + 1 \in T
    <3> HIDE DEF T
    <3> QED
      BY <2>2
  <2> HIDE DEF Upto
  <2> QED
    BY <2>3
<1>4. \A n \in 0 .. cap : Made(f)[n] = f[n]
  BY <1>3
<1>5. \A n \in 0 .. cap : Move(f, t, cap, n) = Move(Made(f), t, cap, n)
  <2> SUFFICES ASSUME NEW n \in 0 .. cap, n # 0
               PROVE  Move(f, t, cap, n) = Move(Made(f), t, cap, n)
    BY DEF Move
  <2>1. n - 1 \in 0 .. cap
    OBVIOUS
  <2>2. Made(f)[n - 1] = f[n - 1]
    BY <1>4, <2>1
  <2> HIDE DEF Made
  <2> QED
    BY <2>2 DEF Move
<1>6. Made(f) = [n \in 0 .. cap |-> Move(Made(f), t, cap, n)]
  BY <1>5
<1> QED
  BY <1>6

\* Moved is that function.
LEMMA MovedSteps ==
  ASSUME NEW t, NEW cap \in Nat
  PROVE  \A n \in 0 .. cap : Moved(t, cap)[n] = Move(Moved(t, cap), t, cap, n)
<1> DEFINE f == CHOOSE f : f = [n \in 0 .. cap |-> Move(f, t, cap, n)]
<1>1. f = [n \in 0 .. cap |-> Move(f, t, cap, n)]
  BY MovedExists
<1>2. Moved(t, cap) = f
  BY DEF Moved, Move
<1> HIDE DEF f
<1> QED
  BY <1>1, <1>2

\* grow makes a table of twice the size that holds the same keys.
LEMMA GrownHolds ==
  ASSUME NEW t, NEW cap \in Nat \ {0}, NEW keys, Holds(t, cap, keys),
         Cardinality(keys) < cap
  PROVE  Holds(Grown(t, cap), NewCap(cap), keys)
<1> DEFINE Before(n) == {w \in keys : \E i \in 0 .. (n - 1) : t[i] = w}
           Good(n) == n <= cap => Holds(Moved(t, cap)[n], NewCap(cap), Before(n))
           T == {n \in Nat : Good(n)}
<1>0. NewCap(cap) \in Nat \ {0} /\ NewCap(cap) > cap
  BY DEF NewCap
<1>1. 0 \in T
  <2>1. 0 \in 0 .. cap /\ Before(0) = {}
    OBVIOUS
  <2>2. Moved(t, cap)[0] = EmptyTable(NewCap(cap))
    BY <2>1, MovedSteps DEF Move
  <2> QED
    BY <1>0, <2>1, <2>2, EmptyHolds
<1>2. ASSUME NEW n \in T
      PROVE  n + 1 \in T
  <2> SUFFICES ASSUME n + 1 <= cap
               PROVE  Holds(Moved(t, cap)[n + 1], NewCap(cap), Before(n + 1))
    BY <1>2
  <2>1. n + 1 \in 0 .. cap /\ n + 1 # 0 /\ (n + 1) - 1 = n /\ n \in Slots(cap)
    BY DEF Slots
  <2>2. Holds(Moved(t, cap)[n], NewCap(cap), Before(n))
    BY <1>2, <2>1
  <2>3. Moved(t, cap)[n + 1] = IF t[n] = Free THEN Moved(t, cap)[n]
                               ELSE Placed(Moved(t, cap)[n], NewCap(cap), t[n])
    BY <2>1, MovedSteps DEF Move
  <2>4. \A i \in 0 .. n : i \in 0 .. (n - 1) \/ i = n
    OBVIOUS
  <2>5. CASE t[n] = Free
    <3>1. Free \notin keys
      BY FreeAssumption DEF Holds
    <3>2. Before(n + 1) = Before(n)
      BY <2>4, <2>5, <3>1
    <3> QED
      BY <2>2, <2>3, <2>5, <3>2
  <2>6. CASE t[n] # Free
    <3>1. t[n] \in keys /\ t[n] \in Keys
      BY <2>1, <2>6 DEF Holds
    <3>2. Before(n + 1) = Before(n) \cup {t[n]}
      BY <2>4, <3>1
    <3>3. Cardinality(Before(n)) < NewCap(cap)
      <4>1. IsFiniteSet(keys) /\ Cardinality(keys) \in Nat
        BY KeysFinite DEF Holds
      <4>2. Before(n) \in SUBSET keys
        OBVIOUS
      <4>3. Cardinality(Before(n)) <= Cardinality(keys) /\ Cardinality(Before(n)) \in Nat
        <5> HIDE DEF Before
        <5> QED
          BY <4>1, <4>2, FS_Subset, FS_CardinalityType
      <4> HIDE DEF Before
      <4> QED
        BY <4>1, <4>3, <1>0
    <3> HIDE DEF Before
    <3>4. Stops(Moved(t, cap)[n], NewCap(cap), t[n]) # {}
      BY <1>0, <2>2, <3>1, <3>3, ProbeStops
    <3>5. Holds(Placed(Moved(t, cap)[n], NewCap(cap), t[n]), NewCap(cap), Before(n) \cup {t[n]})
      BY <1>0, <2>2, <3>1, <3>4, PlacedHolds
    <3> QED
      BY <2>3, <2>6, <3>2, <3>5
  <2> QED
    BY <2>5, <2>6
<1>3. T = Nat
  <2>1. T \in SUBSET Nat
    OBVIOUS
  <2> HIDE DEF T
  <2> QED
    BY <1>1, <1>2, <2>1, SetInduction
<1>4. Good(cap)
  <2>1. cap \in T
    <3> HIDE DEF T
    <3> QED
      BY <1>3
  <2> HIDE DEF Good
  <2> QED
    BY <2>1
<1>5. Before(cap) = keys
  <2>1. ASSUME NEW w \in keys
        PROVE  \E i \in 0 .. (cap - 1) : t[i] = w
    <3>1. PICK d \in Slots(cap) : t[Probe(w, d, cap)] = w
      BY DEF Holds, Reachable
    <3>2. w \in Keys /\ d \in Nat
      BY DEF Holds, Slots
    <3>3. Probe(w, d, cap) \in Slots(cap)
      BY <3>2, ProbeIn
    <3> QED
      BY <3>1, <3>3 DEF Slots
  <2> QED
    BY <2>1
<1> HIDE DEF Before
<1> QED
  BY <1>4, <1>5 DEF Grown

\* No insert of grow finds the new table crowded, so grow does not call itself:
\* fewer keys are in it than the old table had slots.
LEMMA GrowthEnds ==
  ASSUME NEW cap \in Nat, cap >= 3, NEW t, NEW keys, Holds(t, cap, keys),
         Cardinality(keys) < cap, NEW moved \in SUBSET keys
  PROVE  ~ ((Cardinality(moved) + 1) * 10 >= NewCap(cap) * 7)
<1>1. IsFiniteSet(keys) /\ Cardinality(keys) \in Nat
  BY KeysFinite DEF Holds
<1>2. Cardinality(moved) \in Nat /\ Cardinality(moved) <= Cardinality(keys)
  BY <1>1, FS_Subset, FS_CardinalityType
<1> QED
  BY <1>1, <1>2 DEF NewCap

-----------------------------------------------------------------------------
(* The set.                                                                *)

\* A set that new made, before the first key comes.
Unallocated == table = EmptyTable(0) /\ len = 0 /\ inserted = {}

\* A set with a table: it holds the keys inserted, each where a probe finds it, and
\* is below the load at which it grows.
Allocated ==
  /\ \E t \in 3 .. Width + 1 : DOMAIN table = 0 .. (Power[t] - 1)
  /\ Holds(table, Cap, inserted)
  /\ len = Cardinality(inserted)
  /\ len * 10 < Cap * 7

\* The inductive invariant of the set.
TableInv == Unallocated \/ Allocated

\* Cap is the number of slots.
LEMMA CapIs ==
  ASSUME NEW c \in Nat, DOMAIN table = 0 .. (c - 1)
  PROVE  Cap = c
<1>1. Cardinality(0 .. (c - 1)) = c
  BY FS_Interval
<1> QED
  BY <1>1 DEF Cap

\* The sizes a table can have.
LEMMA PowerSizes ==
  ASSUME NEW t \in 3 .. Width + 1
  PROVE  Power[t] \in Nat /\ Power[t] >= 8 /\ Power[3] = 8
<1>1. Width \in Nat /\ t \in Exponents /\ 3 \in 0 .. t /\ t \in 0 .. t
      /\ 0 \in 0 .. Width /\ 1 \in 0 .. Width /\ 2 \in 0 .. Width
  BY WidthAssumption DEF Exponents
<1>2. Power[3] = 8
  <2>1. Power[0 + 1] = 2 * Power[0] /\ Power[1 + 1] = 2 * Power[1]
        /\ Power[2 + 1] = 2 * Power[2] /\ Power[0] = 1
    BY <1>1, PowerSteps
  <2> QED
    BY <2>1
<1>3. PICK k \in Nat \ {0} : Power[t] = 8 * k
  BY <1>1, <1>2, PowerDivides
<1> QED
  BY <1>2, <1>3

\* What the invariant says of the size of the table and of the load.
LEMMA Sizes ==
  ASSUME Allocated
  PROVE  /\ \E t \in 3 .. Width + 1 : Cap = Power[t] /\ DOMAIN table = 0 .. (Power[t] - 1)
         /\ Cap \in Nat \ {0} /\ Cap >= 8
         /\ len = Cardinality(inserted) /\ len \in Nat /\ len <= Power[Width]
         /\ len < Cap
<1>1. PICK t \in 3 .. Width + 1 : DOMAIN table = 0 .. (Power[t] - 1)
  BY DEF Allocated
<1>2. Power[t] \in Nat /\ Power[t] >= 8
  BY PowerSizes
<1>3. Cap = Power[t]
  BY <1>1, <1>2, CapIs
<1>4. len = Cardinality(inserted) /\ len \in Nat /\ len <= Power[Width]
  BY KeysFinite DEF Allocated, Holds
<1>5. len * 10 < Cap * 7
  BY DEF Allocated
<1> QED
  BY <1>1, <1>2, <1>3, <1>4, <1>5

\* Without a table there are no slots.
LEMMA NoSlots ==
  ASSUME Unallocated
  PROVE  Cap = 0
<1>1. DOMAIN table = {}
  BY DEF Unallocated, EmptyTable
<1> QED
  BY <1>1, FS_EmptySet DEF Cap

\* A new set is empty.
LEMMA TableInitInv ==
  ASSUME TableInit
  PROVE  TableInv
<1>1. PICK cap \in InitialCaps : table = EmptyTable(cap)
  BY DEF TableInit
<1>2. len = 0 /\ inserted = {}
  BY DEF TableInit
<1>3. CASE cap = 0
  BY <1>1, <1>2, <1>3 DEF TableInv, Unallocated
<1>4. CASE cap # 0
  <2>1. PICK t \in 3 .. Width : cap = Power[t]
    BY <1>4, CapAssumption
  <2>2. t \in 3 .. Width + 1
    BY WidthAssumption
  <2>3. Power[t] \in Nat /\ Power[t] >= 8
    BY <2>2, PowerSizes
  <2>4. DOMAIN table = 0 .. (Power[t] - 1)
    BY <1>1, <2>1 DEF EmptyTable
  <2>5. Cap = Power[t]
    BY <2>3, <2>4, CapIs
  <2>6. Holds(table, Cap, inserted)
    BY <1>1, <1>2, <2>1, <2>3, <2>5, EmptyHolds
  <2>7. len = Cardinality(inserted)
    BY <1>2, FS_EmptySet
  <2> QED
    BY <1>2, <2>2, <2>3, <2>4, <2>5, <2>6, <2>7 DEF TableInv, Allocated
<1> QED
  BY <1>3, <1>4

\* The table after insert has room for the key, whether it grew or not.
LEMMA RoomyHolds ==
  ASSUME TableInv
  PROVE  LET cap == IF Crowded THEN NewCap(Cap) ELSE Cap
             roomy == IF Crowded THEN Grown(table, Cap) ELSE table
         IN /\ \E t \in 3 .. Width + 1 : cap = Power[t]
            /\ Holds(roomy, cap, inserted)
            /\ (len + 1) * 10 < cap * 7
<1>1. ASSUME Unallocated
      PROVE  /\ \E t \in 3 .. Width + 1 : NewCap(Cap) = Power[t]
             /\ Holds(Grown(table, Cap), NewCap(Cap), inserted)
             /\ (len + 1) * 10 < NewCap(Cap) * 7
             /\ Crowded
  <2>1. Cap = 0 /\ NewCap(Cap) = 8 /\ len = 0 /\ inserted = {}
    BY <1>1, NoSlots DEF Unallocated, NewCap
  <2>2. 3 \in 3 .. Width + 1
    BY WidthAssumption
  <2>3. Power[3] = 8
    BY <2>2, PowerSizes
  <2>4. Grown(table, Cap) = EmptyTable(8)
    <3>1. 0 \in Nat /\ 0 \in 0 .. 0
      OBVIOUS
    <3>2. Moved(table, 0)[0] = Move(Moved(table, 0), table, 0, 0)
      BY <3>1, MovedSteps
    <3>3. Moved(table, 0)[0] = EmptyTable(8)
      BY <3>2 DEF Move, NewCap
    <3> QED
      BY <2>1, <3>3 DEF Grown
  <2>5. Holds(EmptyTable(8), 8, {})
    BY EmptyHolds
  <2>6. Crowded
    BY <2>1 DEF Crowded
  <2> QED
    BY <2>1, <2>2, <2>3, <2>4, <2>5, <2>6
<1>2. ASSUME Allocated
      PROVE  LET cap == IF Crowded THEN NewCap(Cap) ELSE Cap
                 roomy == IF Crowded THEN Grown(table, Cap) ELSE table
             IN /\ \E t \in 3 .. Width + 1 : cap = Power[t]
                /\ Holds(roomy, cap, inserted)
                /\ (len + 1) * 10 < cap * 7
  <2>1. PICK t \in 3 .. Width + 1 : Cap = Power[t]
    BY <1>2, Sizes
  <2>2. /\ Cap \in Nat \ {0} /\ Cap >= 8 /\ len \in Nat /\ len < Cap
        /\ len = Cardinality(inserted) /\ len <= Power[Width] /\ len * 10 < Cap * 7
    BY <1>2, Sizes DEF Allocated
  <2>3. CASE ~ Crowded
    BY <2>1, <2>2, <2>3, <1>2 DEF Crowded, Allocated
  <2>4. CASE Crowded
    <3>1. Holds(Grown(table, Cap), NewCap(Cap), inserted)
      BY <2>2, <1>2, GrownHolds DEF Allocated
    <3>2. (len + 1) * 10 < NewCap(Cap) * 7
      BY <2>2 DEF NewCap
    <3>3. t # Width + 1
      <4> SUFFICES ASSUME t = Width + 1
                   PROVE  FALSE
        OBVIOUS
      <4>1. Width \in Nat /\ Width \in 0 .. Width
        BY WidthAssumption
      <4>2. Cap = 2 * Power[Width]
        BY <4>1, <2>1, PowerSteps
      <4>3. Power[Width] \in Nat
        <5>1. Width \in Exponents
          BY <4>1 DEF Exponents
        <5> QED
          BY <4>1, <5>1, PowerDivides
      <4>4. (len + 1) * 10 >= Cap * 7
        BY <2>4, <2>2 DEF Crowded
      <4> QED
        BY <4>2, <4>3, <4>4, <2>2
    <3>4. t + 1 \in 3 .. Width + 1 /\ t \in 0 .. Width
      BY <3>3, WidthAssumption
    <3>5. NewCap(Cap) = Power[t + 1]
      BY <3>4, <2>1, <2>2, PowerSteps DEF NewCap
    <3> QED
      BY <2>4, <3>1, <3>2, <3>4, <3>5
  <2> QED
    BY <2>3, <2>4
<1> QED
  BY <1>1, <1>2 DEF TableInv

\* insert keeps the set in order.
LEMMA InsertInv ==
  ASSUME TableInv, NEW v \in Inserts, Insert(v)
  PROVE  TableInv'
<1> DEFINE cap == IF Crowded THEN NewCap(Cap) ELSE Cap
           roomy == IF Crowded THEN Grown(table, Cap) ELSE table
<1>1. /\ Stops(roomy, cap, v) # {}
      /\ table' = Placed(roomy, cap, v)
      /\ len' = IF roomy[Slot(roomy, cap, v)] = v THEN len ELSE len + 1
      /\ inserted' = inserted \cup {v}
  BY DEF Insert
<1>2. PICK t \in 3 .. Width + 1 : cap = Power[t]
  BY RoomyHolds
<1>3. Holds(roomy, cap, inserted) /\ (len + 1) * 10 < cap * 7
  BY RoomyHolds
<1>4. cap \in Nat \ {0}
  BY <1>2, PowerSizes
<1>5. v \in Keys
  BY InsertsAssumption
<1> HIDE DEF cap, roomy
<1>6. Holds(table', cap, inserted')
  BY <1>1, <1>3, <1>4, <1>5, PlacedHolds
<1>7. DOMAIN table' = 0 .. (Power[t] - 1)
  BY <1>2, <1>6 DEF Holds, Slots
<1>8. Cap' = cap
  <2>1. Cardinality(0 .. (cap - 1)) = cap
    BY <1>4, FS_Interval
  <2> QED
    BY <2>1, <1>2, <1>7 DEF Cap
<1>9. inserted \subseteq Keys /\ len = Cardinality(inserted) /\ len \in Nat
  <2>1. inserted \subseteq Keys
    BY <1>3 DEF Holds
  <2>2. len = Cardinality(inserted)
    BY FS_EmptySet DEF TableInv, Unallocated, Allocated
  <2> QED
    BY <2>1, <2>2, KeysFinite
<1>10. len' = Cardinality(inserted')
  <2>1. roomy[Slot(roomy, cap, v)] = v <=> v \in inserted
    BY <1>1, <1>3, <1>4, <1>5, Found
  <2>2. IsFiniteSet(inserted)
    BY <1>9, KeysFinite
  <2> QED
    BY <2>1, <2>2, <1>1, <1>9, FS_AddElement
<1>11. len' * 10 < cap * 7
  BY <1>1, <1>3, <1>4, <1>9
<1> QED
  BY <1>6, <1>7, <1>8, <1>10, <1>11 DEF TableInv, Allocated

\* The invariant of the set of sequence numbers, for every width of a key, every
\* odd multiplier and every initial size.
THEOREM TableInvariant == TableSpec => []TableInv
<1>1. TableInit => TableInv
  BY TableInitInv
<1>2. TableInv /\ [TableNext]_tableVars => TableInv'
  <2> SUFFICES ASSUME TableInv, [TableNext]_tableVars
               PROVE  TableInv'
    OBVIOUS
  <2>1. CASE UNCHANGED tableVars
    BY <2>1 DEF tableVars, TableInv, Allocated, Unallocated, Cap
  <2>2. CASE TableNext
    BY <2>2, InsertInv DEF TableNext
  <2> QED
    BY <2>1, <2>2
<1> QED
  BY <1>1, <1>2, PTL DEF TableSpec

\* Every probe comes to a slot that is free or holds the key.
LEMMA ProbesEndOfInv ==
  ASSUME TableInv
  PROVE  ProbesEnd
<1>1. ASSUME Unallocated
      PROVE  ProbesEnd
  <2>1. Cap = 0
    BY <1>1, NoSlots
  <2>2. Range(table) = {}
    BY <1>1 DEF Unallocated, EmptyTable, Range
  <2> QED
    BY <1>1, <2>1, <2>2 DEF ProbesEnd, TableTypeOK, Unallocated
<1>2. ASSUME Allocated
      PROVE  ProbesEnd
  <2>1. Range(table) \subseteq Keys \cup {Free}
    BY <1>2 DEF Allocated, Holds, Range
  <2>2. len \in 0 .. Cap
    BY <1>2, Sizes
  <2>3. inserted \in SUBSET Keys
    BY <1>2 DEF Allocated, Holds
  <2>4. TableTypeOK
    BY <1>2, <2>1, <2>2, <2>3 DEF TableTypeOK, Allocated
  <2>5. \A v \in Keys : Stops(table, Cap, v) # {}
    BY <1>2, Sizes, ProbeStops DEF Allocated
  <2> QED
    BY <2>4, <2>5 DEF ProbesEnd
<1> QED
  BY <1>1, <1>2 DEF TableInv

\* contains knows the keys inserted.
LEMMA RemembersOfInv ==
  ASSUME TableInv
  PROVE  RemembersExactly
<1>1. ASSUME Unallocated
      PROVE  RemembersExactly
  BY <1>1, NoSlots, FS_EmptySet DEF RemembersExactly, Contains, Unallocated
<1>2. ASSUME Allocated
      PROVE  RemembersExactly
  <2>1. ASSUME NEW v \in Keys
        PROVE  Contains(v) <=> v \in inserted
    <3>1. Stops(table, Cap, v) # {}
      BY <1>2, Sizes, ProbeStops DEF Allocated
    <3> QED
      BY <1>2, <3>1, Sizes, Found DEF Allocated, Contains
  <2> QED
    BY <1>2, <2>1, Sizes DEF RemembersExactly
<1> QED
  BY <1>1, <1>2 DEF TableInv

\* Keys of a run are less than the table apart, so that their hashes differ.
LEMMA RunsOfInv ==
  ASSUME TableInv
  PROVE  RunsDoNotCollide
<1>1. ASSUME Unallocated
      PROVE  RunsDoNotCollide
  BY <1>1 DEF RunsDoNotCollide, Unallocated
<1>2. ASSUME Allocated, NEW first \in Keys, inserted = first .. (first + len - 1)
      PROVE  \A v \in inserted : table[Home(v, Cap)] = v
  <2>1. PICK t \in 3 .. Width + 1 : Cap = Power[t]
    BY <1>2, Sizes
  <2>2. t \in 0 .. Width + 1 /\ len \in Nat /\ Cap \in Nat /\ len < Cap /\ first \in Nat
    BY <1>2, Sizes, WidthAssumption DEF Keys
  <2>3. ASSUME NEW u \in inserted, NEW v \in inserted, Home(u, Cap) = Home(v, Cap)
        PROVE  u = v
    <3>1. u \in Keys /\ v \in Keys
      BY <1>2 DEF Allocated, Holds
    <3>2. v - u < Power[t] /\ u - v < Power[t]
      BY <1>2, <2>1, <2>2
    <3> QED
      BY <3>1, <3>2, <2>1, <2>2, <2>3, HomesDiffer
  <2> QED
    BY <1>2, <2>3 DEF Allocated, Holds, AtHome
<1> QED
  BY <1>1, <1>2 DEF TableInv, RunsDoNotCollide

\* The loops of contains and insert end for every key.
THEOREM EveryProbeEnds == TableSpec => []ProbesEnd
BY TableInvariant, ProbesEndOfInv, PTL

\* contains neither takes a duplicate for a new frame nor refuses a new one.
THEOREM SequenceNumbersAreRemembered == TableSpec => []RemembersExactly
BY TableInvariant, RemembersOfInv, PTL

\* The claim of set.rs: runs of consecutive sequence numbers never collide.
THEOREM ConsecutiveKeysNeverCollide == TableSpec => []RunsDoNotCollide
BY TableInvariant, RunsOfInv, PTL

-----------------------------------------------------------------------------
(* BlockSet: words and bits.                                               *)

\* A block is one bit of one word.
LEMMA Split ==
  ASSUME NEW b \in Nat
  PROVE  /\ WordOf(b) \in Nat
         /\ BitOf(b) \in 0 .. WordBits - 1
         /\ b = (WordOf(b) * WordBits) + BitOf(b)
  BY BlockSetAssumption DEF WordOf, BitOf

\* A bit of a word is one block.
LEMMA Join ==
  ASSUME NEW w \in Nat, NEW i \in 0 .. WordBits - 1
  PROVE  /\ WordOf((w * WordBits) + i) = w
         /\ BitOf((w * WordBits) + i) = i
  BY BlockSetAssumption, SMTT(30) DEF WordOf, BitOf

\* Every block has its word in the bitmap.
LEMMA WordInRange ==
  ASSUME NEW b \in Blocks
  PROVE  WordOf(b) \in Words
<1>1. b \in Nat /\ b + 1 <= K
  BY BlockSetAssumption DEF Blocks
<1> DEFINE n == (K + WordBits - 1) \div WordBits
<1>2. /\ n \in Nat
      /\ K + WordBits - 1 < (n * WordBits) + WordBits
  BY BlockSetAssumption
<1>3. WordOf(b) \in Nat /\ WordOf(b) * WordBits <= b
  BY <1>1, Split, BlockSetAssumption
<1>4. WordOf(b) * WordBits < n * WordBits
  BY <1>1, <1>2, <1>3, BlockSetAssumption
<1>5. WordOf(b) < n
  BY <1>2, <1>3, <1>4, BlockSetAssumption
<1> QED
  BY <1>2, <1>3, <1>5 DEF Words

\* A vector without repetitions has as many entries as members.
LEMMA DistinctCount ==
  ASSUME NEW s, NEW n \in Nat, DOMAIN s = 1 .. n,
         \A i, j \in DOMAIN s : s[i] = s[j] => i = j
  PROVE  IsFiniteSet(Elements(s)) /\ Cardinality(Elements(s)) = n
<1> DEFINE f == [i \in 1 .. n |-> s[i]]
<1>1. f \in Bijection(1 .. n, Elements(s))
  BY DEF Bijection, Injection, Surjection, IsInjective, Elements
<1>2. ExistsBijection(1 .. n, Elements(s))
  BY <1>1 DEF ExistsBijection
<1>3. IsFiniteSet(1 .. n)
  BY FS_Interval
<1> QED
  BY <1>2, <1>3, FS_CountingElements, FS_Bijection

\* The inductive invariant: TypeOK, Canonical and LenExact together are one.
IInv == TypeOK /\ Canonical /\ LenExact

\* A set of blocks is finite, whichever way it is stored.
LEMMA MembersFinite ==
  ASSUME IInv
  PROVE  IsFiniteSet(Members) /\ Members \subseteq Blocks
<1>1. IsFiniteSet(Blocks)
  BY FS_Interval, BlockSetAssumption DEF Blocks
<1>2. Members \subseteq Blocks
  BY DEF Members, IInv, TypeOK, Elements
<1> QED
  BY <1>1, <1>2, FS_Subset

\* BlockSet::new builds either representation right, and not empty.
LEMMA InitInv ==
  ASSUME Init
  PROVE  IInv /\ Members # {}
<1>1. PICK members \in MemberLists :
        IF Len(members) > DenseLimit
        THEN /\ kind = "Sparse" /\ vec = <<>>
             /\ bits = [w \in Words |->
                  {BitOf(b) : b \in {c \in Elements(members) : WordOf(c) = w}}]
             /\ count = Len(members)
        ELSE /\ kind = "Dense" /\ vec = members
             /\ bits = [w \in Words |-> {}] /\ count = 0
  BY DEF Init
<1>2. PICK n \in 1 .. K : members \in [1 .. n -> Blocks]
  BY DEF MemberLists
<1>3. /\ members \in Seq(Blocks) /\ Len(members) = n /\ n \in Nat
      /\ DOMAIN members = 1 .. n /\ 1 \in 1 .. n
  BY <1>2, BlockSetAssumption
<1>4. \A i, j \in DOMAIN members : members[i] = members[j] => i = j
  BY DEF MemberLists
<1>5. Cardinality(Elements(members)) = n
  BY <1>3, <1>4, DistinctCount
<1>6. Elements(members) \subseteq Blocks /\ Elements(members) # {}
  BY <1>2, <1>3 DEF Elements
<1>7. Blocks \subseteq Nat
  BY DEF Blocks
<1>8. CASE Len(members) > DenseLimit
  <2>1. /\ kind = "Sparse" /\ vec = <<>> /\ count = n
        /\ bits = [w \in Words |->
             {BitOf(b) : b \in {c \in Elements(members) : WordOf(c) = w}}]
    BY <1>1, <1>3, <1>8
  <2>2. bits \in [Words -> SUBSET (0 .. WordBits - 1)]
    BY <2>1, <1>6, <1>7, Split
  <2>3. \A b \in Blocks : BitOf(b) \in bits[WordOf(b)] <=> b \in Elements(members)
    <3> TAKE b \in Blocks
    <3>1. WordOf(b) \in Words
      BY WordInRange
    <3>2. ASSUME NEW c \in Elements(members), WordOf(c) = WordOf(b), BitOf(c) = BitOf(b)
          PROVE  c = b
      BY <3>2, <1>6, <1>7, Split
    <3> QED
      BY <2>1, <3>1, <3>2
  <2>4. Members = Elements(members)
    BY <2>1, <2>3, <1>6 DEF Members
  <2>5. ASSUME NEW w \in Words, NEW i \in bits[w]
        PROVE  (w * WordBits) + i \in Blocks
    <3>1. PICK c \in Elements(members) : WordOf(c) = w /\ BitOf(c) = i
      BY <2>1
    <3> QED
      BY <3>1, <1>6, <1>7, Split
  <2> QED
    BY <2>1, <2>2, <2>4, <2>5, <1>3, <1>5, <1>6 DEF IInv, TypeOK, Canonical, LenExact, Length
<1>9. CASE ~ (Len(members) > DenseLimit)
  <2>1. kind = "Dense" /\ vec = members /\ bits = [w \in Words |-> {}] /\ count = 0
    BY <1>1, <1>9
  <2> QED
    BY <2>1, <1>3, <1>4, <1>5, <1>6 DEF IInv, TypeOK, Canonical, LenExact, Length, Members
<1> QED
  BY <1>8, <1>9

\* Taking entry i away leaves the others, each once.
LEMMA DenseStep ==
  ASSUME IInv, NEW block, RemoveDense(block)
  PROVE  IInv' /\ Members' = Members \ {block}
<1>1. PICK i \in DOMAIN vec : vec[i] = block /\ vec' = SwapRemove(vec, i)
  BY DEF RemoveDense
<1>2. kind = "Dense" /\ kind' = "Dense" /\ bits' = bits /\ count' = count
  BY DEF RemoveDense
<1>3. PICK n \in Nat :
        /\ vec \in Seq(Blocks) /\ DOMAIN vec = 1 .. n /\ Len(vec) = n
        /\ \A j, k \in DOMAIN vec : vec[j] = vec[k] => j = k
  BY DEF IInv, TypeOK, Canonical
<1>4. n - 1 \in Nat
  BY <1>1, <1>3
<1>5. /\ vec' = [j \in 1 .. n - 1 |-> IF j = i THEN vec[n] ELSE vec[j]]
      /\ vec' \in Seq(Blocks) /\ Len(vec') = n - 1 /\ DOMAIN vec' = 1 .. n - 1
  BY <1>1, <1>3, <1>4 DEF SwapRemove
<1>6. \A j, k \in DOMAIN vec' : vec'[j] = vec'[k] => j = k
  BY <1>1, <1>3, <1>5
<1>7. Elements(vec') = Elements(vec) \ {block}
  <2>1. ASSUME NEW j \in 1 .. n - 1
        PROVE  vec'[j] \in Elements(vec) \ {block}
    BY <1>1, <1>3, <1>5 DEF Elements
  <2>2. ASSUME NEW j \in 1 .. n, vec[j] # block
        PROVE  vec[j] \in Elements(vec')
    <3>1. CASE j = n
      BY <3>1, <2>2, <1>1, <1>3, <1>4, <1>5 DEF Elements
    <3>2. CASE j # n
      <4>0. j # i
        BY <2>2, <1>1
      <4>1. j \in 1 .. n - 1
        BY <3>2, <1>3
      <4>2. vec'[j] = vec[j]
        BY <4>0, <4>1, <1>5
      <4> QED
        BY <4>1, <4>2, <1>5 DEF Elements
    <3> QED
      BY <3>1, <3>2
  <2> QED
    BY <2>1, <2>2, <1>3, <1>5 DEF Elements
<1>8. Cardinality(Elements(vec')) = n - 1
  BY <1>4, <1>5, <1>6, DistinctCount
<1> QED
  BY <1>2, <1>5, <1>6, <1>7, <1>8
     DEF IInv, TypeOK, Canonical, LenExact, Length, Members

\* Clearing the bit of a block clears that of no other one.
LEMMA SparseStep ==
  ASSUME IInv, NEW block \in Blocks, RemoveSparse(block)
  PROVE  IInv' /\ Members' = Members \ {block}
<1>1. /\ kind = "Sparse" /\ kind' = "Sparse" /\ vec' = vec
      /\ BitOf(block) \in bits[WordOf(block)]
      /\ bits' = [bits EXCEPT ![WordOf(block)] = @ \ {BitOf(block)}]
      /\ count' = count - 1
  BY DEF RemoveSparse
<1>2. WordOf(block) \in Words
  BY WordInRange
<1>3. bits \in [Words -> SUBSET (0 .. WordBits - 1)]
  BY DEF IInv, TypeOK
<1>4. bits' \in [Words -> SUBSET (0 .. WordBits - 1)]
  BY <1>1, <1>2, <1>3
<1>5. \A b \in Blocks : BitOf(b) \in bits'[WordOf(b)]
                          <=> BitOf(b) \in bits[WordOf(b)] /\ b # block
  <2> TAKE b \in Blocks
  <2>1. WordOf(b) \in Words /\ b \in Nat /\ block \in Nat
    BY WordInRange DEF Blocks
  <2>2. WordOf(b) = WordOf(block) /\ BitOf(b) = BitOf(block) => b = block
    BY <2>1, Split
  <2> QED
    BY <2>1, <2>2, <1>1, <1>2, <1>3
<1>6. Members' = Members \ {block} /\ block \in Members
  BY <1>1, <1>5 DEF Members
<1>7. Cardinality(Members') = Cardinality(Members) - 1
  BY <1>6, MembersFinite, FS_RemoveElement
<1>8. count = Cardinality(Members) /\ Cardinality(Members) \in Nat
  BY <1>1, MembersFinite, FS_CardinalityType DEF IInv, LenExact, Length
<1>9. Cardinality(Members) # 0
  BY <1>6, MembersFinite, FS_EmptySet
<1>10. count' \in Nat /\ count' = Cardinality(Members')
  BY <1>1, <1>7, <1>8, <1>9
<1>11. ASSUME NEW w \in Words, NEW i \in bits'[w]
       PROVE  (w * WordBits) + i \in Blocks
  BY <1>1, <1>2, <1>3, <1>11 DEF IInv, Canonical
<1>12. vec \in Seq(Blocks) /\ \A i, j \in DOMAIN vec : vec[i] = vec[j] => i = j
  BY DEF IInv, TypeOK, Canonical
<1> QED
  BY <1>1, <1>4, <1>6, <1>10, <1>11, <1>12 DEF IInv, TypeOK, Canonical, LenExact, Length

\* remove keeps the representation in order and takes away one block.
LEMMA NextStep ==
  ASSUME IInv, NEW block \in Blocks, Remove(block)
  PROVE  IInv' /\ Members' = Members \ {block}
<1>1. CASE RemoveDense(block)
  BY <1>1, DenseStep
<1>2. CASE RemoveSparse(block)
  BY <1>2, SparseStep
<1>3. CASE RemoveAbsent(block)
  BY <1>3 DEF RemoveAbsent, vars, IInv, TypeOK, Canonical, LenExact, Length, Members, Elements
<1> QED
  BY <1>1, <1>2, <1>3 DEF Remove

\* A step that changes nothing changes no representation either.
LEMMA StutterStep ==
  ASSUME IInv, UNCHANGED vars
  PROVE  IInv' /\ Members' = Members
BY DEF vars, IInv, TypeOK, Canonical, LenExact, Length, Members, Elements

\* new and remove keep both representations canonical, with the right length.
THEOREM Invariant == Spec => []IInv
<1>1. Init => IInv
  BY InitInv
<1>2. IInv /\ [Next]_vars => IInv'
  BY NextStep, StutterStep DEF Next
<1> QED
  BY <1>1, <1>2, PTL DEF Spec

\* The length that resolve decides on is the number of blocks still lacking.
THEOREM LengthIsExact == Spec => []LenExact
<1>1. IInv => LenExact
  BY DEF IInv
<1> QED
  BY <1>1, Invariant, PTL

\* With one block left, one word of a bitmap is non-zero and has one bit.
LEMMA SingleOfInv ==
  ASSUME IInv, Length = 1
  PROVE  Members = {Single}
<1>1. PICK b : Members = {b}
  BY MembersFinite, FS_Singleton DEF IInv, LenExact
<1>2. b \in Blocks
  BY <1>1, MembersFinite
<1>3. CASE kind = "Dense"
  BY <1>1, <1>3 DEF Length, Members, Single, Elements, IInv, TypeOK
<1>4. CASE kind # "Dense"
  <2>1. /\ BitOf(b) \in bits[WordOf(b)] /\ WordOf(b) \in Words /\ b \in Nat
        /\ Words \subseteq Nat
    BY <1>1, <1>2, <1>4, WordInRange DEF Members, Blocks, Words
  <2>2. ASSUME NEW w \in Words, NEW i \in bits[w]
        PROVE  w = WordOf(b) /\ i = BitOf(b)
    <3>1. i \in 0 .. WordBits - 1 /\ w \in Nat
      BY <2>1 DEF IInv, TypeOK
    <3>2. (w * WordBits) + i \in Blocks
      BY <1>4 DEF IInv, TypeOK, Canonical
    <3>3. WordOf((w * WordBits) + i) = w /\ BitOf((w * WordBits) + i) = i
      BY <3>1, Join
    <3>4. (w * WordBits) + i \in Members
      BY <1>4, <3>2, <3>3 DEF Members
    <3> QED
      BY <3>3, <3>4, <1>1
  <2>3. {u \in Words : bits[u] # {}} = {WordOf(b)}
    BY <2>1, <2>2
  <2>4. bits[WordOf(b)] = {BitOf(b)}
    BY <2>1, <2>2
  <2>5. \A n \in Nat : Least({n}) = n
    BY DEF Least
  <2>6. WordOf(b) \in Nat /\ BitOf(b) \in Nat /\ b = (WordOf(b) * WordBits) + BitOf(b)
    BY <2>1, Split, BlockSetAssumption
  <2>7. Single = (WordOf(b) * WordBits) + BitOf(b)
    BY <1>4, <2>3, <2>4, <2>5, <2>6 DEF Single
  <2> QED
    BY <1>1, <2>6, <2>7
<1> QED
  BY <1>3, <1>4

\* The block a frame frees is the one it still lacks.
THEOREM SingleIsExact == Spec => []SingleExact
<1>1. IInv => SingleExact
  BY SingleOfInv DEF SingleExact
<1> QED
  BY <1>1, Invariant, PTL

\* BlockSet implements the set that LtDecoder computes with.
THEOREM Refinement == Spec => Refines
<1>1. Init => Set!Init
  BY InitInv, MembersFinite DEF Set!Init, Blocks
<1>2. IInv /\ [Next]_vars => [Set!Next]_(Members)
  <2>1. ASSUME IInv, NEW block \in Blocks, Remove(block)
        PROVE  Set!Next
    BY <2>1, NextStep DEF Set!Next, Set!Remove, Blocks
  <2> QED
    BY <2>1, StutterStep DEF Next
<1> QED
  BY <1>1, <1>2, Invariant, PTL DEF Spec, Refines, Set!Spec

\* remove of BlockSet takes away the block it is asked for and no other, in
\* either representation.
THEOREM RemovalIsExact == Spec => RemovesTheBlock
<1>1. IInv /\ [Next]_vars => [\A block \in Blocks : Remove(block) => Set!Remove(block)]_vars
  BY NextStep DEF Set!Remove
<1> QED
  BY <1>1, Invariant, PTL DEF Spec, RemovesTheBlock
=============================================================================
