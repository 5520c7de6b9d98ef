------------------------ MODULE BlockSelectionProofs ------------------------
(***************************************************************************)
(* The selection of the blocks of a repair frame, for every number of      *)
(* blocks, every resolution of the quantiles and every distribution.       *)
(***************************************************************************)
EXTENDS BlockSelection, FiniteSetTheorems, WellFoundedInduction, TLAPS

-----------------------------------------------------------------------------
(* Numbers.                                                                *)

(* A set of numbers that has 0, and with a number the next, has them all.  *)
LEMMA SetInduction ==
  ASSUME NEW T \in SUBSET Nat, 0 \in T, \A n \in T : n + 1 \in T
  PROVE  T = Nat
<1> SUFFICES ASSUME Nat \ T # {}
             PROVE  FALSE
  OBVIOUS
<1>1. PICK x \in Nat \ T : \A y \in Nat \ T : ~ (<<y, x>> \in OpToRel(<, Nat))
  BY WFMin, NatLessThanWellFounded
<1>2. \A y \in Nat \ T : ~ (y < x)
  BY <1>1 DEF OpToRel
<1>3. x - 1 \in Nat /\ x - 1 < x
  OBVIOUS
<1>4. x - 1 \in T
  BY <1>2, <1>3
<1> QED
  BY <1>4

(* Multiplying by the resolution keeps the order.                          *)
LEMMA TimesMonotone ==
  ASSUME NEW a \in Nat, NEW b \in Nat, NEW q \in Nat
  PROVE  a <= b => a * q <= b * q
OBVIOUS

(* ... and so does dividing by it.                                         *)
LEMMA TimesStrict ==
  ASSUME NEW a \in Nat, NEW b \in Nat, NEW q \in Nat \ {0}
  PROVE  a * q <= b * q => a <= b
<1> SUFFICES ASSUME b + 1 <= a
             PROVE  b * q < a * q
  OBVIOUS
<1>1. (b + 1) * q <= a * q
  BY TimesMonotone
<1>2. (b + 1) * q = b * q + q
  OBVIOUS
<1> QED
  BY <1>1, <1>2

(* What the conversion of the code, which truncates, returns.              *)
LEMMA Truncated ==
  ASSUME NEW a \in Nat, NEW b \in Nat \ {0}
  PROVE  /\ a \div b \in Nat
         /\ (a \div b) * b <= a
         /\ a < (a \div b + 1) * b
OBVIOUS

-----------------------------------------------------------------------------
(* The binary search.                                                      *)

Bounds == 0 .. K
Spans == (0 .. K) \X (0 .. K)

Probe(f, c, x, s) ==
  LET lo == s[1]
      hi == s[2]
      mid == (lo + hi) \div 2
  IN IF lo >= hi THEN lo
     ELSE IF c[mid] * Quant >= x THEN f[<<lo, mid>>]
     ELSE f[<<mid + 1, hi>>]

SearchFcn(c, x) == CHOOSE f : f = [s \in Spans |-> Probe(f, c, x, s)]

(* The search of the model, as a function of a span.                       *)
LEMMA SearchIsFcn ==
  ASSUME NEW c, NEW x, NEW a, NEW b
  PROVE  Search(c, x, a, b) = SearchFcn(c, x)[<<a, b>>]
BY DEF Search, SearchFcn, Probe, Spans

(* The middle of an interval is inside, below its end.                     *)
LEMMA Middle ==
  ASSUME NEW lo \in Bounds, NEW hi \in Bounds, lo < hi
  PROVE  /\ (lo + hi) \div 2 \in lo .. (hi - 1)
         /\ <<lo, (lo + hi) \div 2>> \in Spans
         /\ <<(lo + hi) \div 2 + 1, hi>> \in Spans
<1>1. K \in Nat /\ lo \in Nat /\ hi \in Nat
  BY ConstantAssumption DEF Bounds
<1>2. (lo + hi) \div 2 \in lo .. (hi - 1)
  BY <1>1
<1> QED
  BY <1>1, <1>2 DEF Bounds, Spans

(* The probe of a span reads the function on shorter spans only.           *)
LEMMA ProbeIsLocal ==
  ASSUME NEW c, NEW x, NEW f, NEW g, NEW s \in Spans,
         \A t \in Spans : t[2] - t[1] < s[2] - s[1] => f[t] = g[t]
  PROVE  Probe(f, c, x, s) = Probe(g, c, x, s)
<1> DEFINE lo == s[1]
           hi == s[2]
           mid == (lo + hi) \div 2
<1>1. K \in Nat /\ lo \in Bounds /\ hi \in Bounds
  BY ConstantAssumption DEF Spans, Bounds
<1>2. CASE lo >= hi
  BY <1>2 DEF Probe
<1>3. CASE lo < hi
  <2>1. /\ mid \in lo .. (hi - 1)
        /\ <<lo, mid>> \in Spans
        /\ <<mid + 1, hi>> \in Spans
    BY <1>1, <1>3, Middle
  <2>2. f[<<lo, mid>>] = g[<<lo, mid>>]
    <3>1. <<lo, mid>>[2] - <<lo, mid>>[1] < hi - lo
      BY <1>1, <2>1 DEF Bounds
    <3> QED
      BY <2>1, <3>1
  <2>3. f[<<mid + 1, hi>>] = g[<<mid + 1, hi>>]
    <3>1. <<mid + 1, hi>>[2] - <<mid + 1, hi>>[1] < hi - lo
      BY <1>1, <2>1 DEF Bounds
    <3> QED
      BY <2>1, <3>1
  <2> QED
    BY <2>2, <2>3 DEF Probe
<1> QED
  BY <1>1, <1>2, <1>3 DEF Bounds

(* The recursion ends, so there is such a function.                        *)
LEMMA SearchExists ==
  ASSUME NEW c, NEW x
  PROVE  \E f : f = [s \in Spans |-> Probe(f, c, x, s)]
<1> DEFINE Upto(f, n) == \A s \in Spans : s[2] - s[1] < n => f[s] = Probe(f, c, x, s)
           Made(f) == [s \in Spans |-> Probe(f, c, x, s)]
           T == {n \in Nat : \E f : Upto(f, n)}
<1>0. K \in Nat /\ \A s \in Spans : s[1] \in 0 .. K /\ s[2] \in 0 .. K
  BY ConstantAssumption DEF Spans
<1>1. 0 \in T
  <2>1. Upto([s \in Spans |-> s[1]], 0)
    BY <1>0 DEF Probe
  <2> QED
    BY <2>1
<1>2. ASSUME NEW n \in T
      PROVE  n + 1 \in T
  <2>1. PICK f : Upto(f, n)
    OBVIOUS
  <2>2. ASSUME NEW s \in Spans, s[2] - s[1] < n + 1
        PROVE  Made(f)[s] = Probe(Made(f), c, x, s)
    <3>1. \A t \in Spans : t[2] - t[1] < s[2] - s[1] => f[t] = Made(f)[t]
      BY <1>0, <2>1, <2>2
    <3> HIDE DEF Upto
    <3>2. Made(f)[s] = Probe(f, c, x, s)
      OBVIOUS
    <3> HIDE DEF Made
    <3> QED
      BY <3>1, <3>2, ProbeIsLocal
  <2>3. n + 1 \in Nat /\ Upto(Made(f), n + 1)
    BY <2>2
  <2> HIDE DEF Upto, Made
  <2> QED
    BY <2>3
<1>3. PICK f : Upto(f, K + 1)
  <2> HIDE DEF Upto
  <2>1. T = Nat
    <3> HIDE DEF T
    <3> QED
      BY <1>1, <1>2, SetInduction DEF T
  <2> QED
    BY <1>0, <2>1
<1>4. \A s \in Spans : Made(f)[s] = f[s]
  BY <1>0, <1>3
<1>5. \A s \in Spans : Probe(f, c, x, s) = Probe(Made(f), c, x, s)
  <2> HIDE DEF Made
  <2> QED
    BY <1>4, ProbeIsLocal
<1>6. Made(f) = [s \in Spans |-> Probe(Made(f), c, x, s)]
  BY <1>5
<1> QED
  BY <1>6

(* One iteration of the loops of lower_bound and sample.                   *)
LEMMA SearchStep ==
  ASSUME NEW c, NEW x, NEW lo \in Bounds, NEW hi \in Bounds
  PROVE  Search(c, x, lo, hi) =
           IF lo >= hi THEN lo
           ELSE IF c[(lo + hi) \div 2] * Quant >= x
             THEN Search(c, x, lo, (lo + hi) \div 2)
             ELSE Search(c, x, (lo + hi) \div 2 + 1, hi)
<1> DEFINE f == SearchFcn(c, x)
<1>1. f = [s \in Spans |-> Probe(f, c, x, s)]
  BY SearchExists DEF SearchFcn
<1>2. \A a, b : Search(c, x, a, b) = f[<<a, b>>]
  BY SearchIsFcn
<1> HIDE DEF f
<1>3. f[<<lo, hi>>] = Probe(f, c, x, <<lo, hi>>)
  BY <1>1 DEF Spans, Bounds
<1> QED
  BY <1>2, <1>3 DEF Probe

\* All entries in from .. upto - 1 are below x, and the one at upto is not,
\* unless the span ends there.
Least(c, x, from, upto, r) ==
  /\ r \in from .. upto
  /\ \A j \in from .. (r - 1) : c[j] * Quant < x
  /\ r < upto => c[r] * Quant >= x

(* The entries of a distribution, scaled, in their order.                  *)
LEMMA Scaled ==
  ASSUME NEW c \in Cdfs
  PROVE  /\ \A j \in Blocks : c[j] \in 0 .. Unit /\ c[j] * Quant \in Nat
         /\ \A i, j \in Blocks : i <= j => c[i] <= c[j] /\ c[i] * Quant <= c[j] * Quant
<1>0. K \in Nat \ {0} /\ Unit \in Nat \ {0} /\ Quant \in Nat \ {0}
  BY ConstantAssumption
<1>1. \A j \in Blocks : c[j] \in 0 .. Unit
  BY CdfAssumption DEF Blocks
<1>2. ASSUME NEW j \in Blocks
      PROVE  c[j] * Quant \in Nat
  BY <1>0, <1>1
<1>3. ASSUME NEW i \in Blocks
      PROVE  \A j \in Blocks : i <= j => c[i] <= c[j]
  <2> DEFINE T == {n \in Nat : i + n \in Blocks => c[i] <= c[i + n]}
  <2>1. 0 \in T
    BY <1>0, <1>1 DEF Blocks
  <2>2. ASSUME NEW n \in T
        PROVE  n + 1 \in T
    <3>1. ASSUME i + (n + 1) \in Blocks
          PROVE  c[i] <= c[i + (n + 1)]
      <4>1. i + n \in Blocks /\ i + (n + 1) \in 1 .. (K - 1) /\ i + (n + 1) - 1 = i + n
        BY <1>0, <3>1 DEF Blocks
      <4>2. \A d \in 1 .. (K - 1) : c[d - 1] <= c[d]
        BY CdfAssumption
      <4>3. c[(i + (n + 1)) - 1] <= c[i + (n + 1)]
        BY <4>1, <4>2
      <4>4. c[i] <= c[i + n]
        BY <4>1
      <4>5. (i + (n + 1)) - 1 = i + n
        BY <1>0 DEF Blocks
      <4>6. c[i] \in Nat /\ c[i + n] \in Nat /\ c[i + (n + 1)] \in Nat
        BY <1>0, <1>1, <3>1, <4>1
      <4> QED
        BY <4>3, <4>4, <4>5, <4>6
    <3> QED
      BY <3>1
  <2>3. T = Nat
    <3>1. T \in SUBSET Nat
      OBVIOUS
    <3> HIDE DEF T
    <3> QED
      BY <2>1, <2>2, <3>1, SetInduction
  <2>4. ASSUME NEW j \in Blocks, i <= j
        PROVE  c[i] <= c[j]
    <3>1. j - i \in Nat /\ i + (j - i) = j
      BY <1>0, <2>4 DEF Blocks
    <3>2. j - i \in T
      BY <2>3, <3>1
    <3> QED
      BY <3>1, <3>2
  <2> QED
    BY <2>4
<1>4. ASSUME NEW i \in Blocks, NEW j \in Blocks, i <= j
      PROVE  c[i] * Quant <= c[j] * Quant
  BY <1>0, <1>1, <1>3, <1>4, TimesMonotone
<1> QED
  BY <1>1, <1>2, <1>3, <1>4

(* Over any span the search finds the first entry that reaches x, or the   *)
(* end of the span.                                                        *)
LEMMA SearchIsLeast ==
  ASSUME NEW c \in Cdfs, NEW x \in Int, NEW from \in Blocks, NEW upto \in Blocks, from <= upto
  PROVE  Least(c, x, from, upto, Search(c, x, from, upto))
<1>0. K \in Nat \ {0} /\ Quant \in Nat \ {0} /\ Blocks \subseteq Bounds
  BY ConstantAssumption DEF Blocks, Bounds
<1> DEFINE Right(n) == \A lo, hi \in Blocks :
                         lo <= hi /\ hi - lo < n => Least(c, x, lo, hi, Search(c, x, lo, hi))
           T == {n \in Nat : Right(n)}
<1>1. 0 \in T
  BY <1>0 DEF Blocks
<1>2. ASSUME NEW n \in T
      PROVE  n + 1 \in T
  <2>1. ASSUME NEW lo \in Blocks, NEW hi \in Blocks, lo <= hi, hi - lo < n + 1
        PROVE  Least(c, x, lo, hi, Search(c, x, lo, hi))
    <3> DEFINE mid == (lo + hi) \div 2
               r == Search(c, x, lo, hi)
    <3> SUFFICES Least(c, x, lo, hi, r)
      OBVIOUS
    <3>0. /\ lo \in Bounds /\ hi \in Bounds
          /\ r = IF lo >= hi THEN lo
                 ELSE IF c[mid] * Quant >= x THEN Search(c, x, lo, mid)
                 ELSE Search(c, x, mid + 1, hi)
      BY <1>0, SearchStep
    <3>1. CASE lo = hi
      <4>1. r = lo
        BY <3>0, <3>1 DEF Bounds
      <4> QED
        BY <1>0, <3>1, <4>1 DEF Least, Blocks
    <3>2. CASE lo < hi
      <4>1. mid \in lo .. (hi - 1) /\ mid \in Blocks /\ mid + 1 \in Blocks
        BY <1>0, <3>2, Middle DEF Blocks
      <4>2. CASE c[mid] * Quant >= x
        <5>1. r = Search(c, x, lo, mid)
          BY <1>0, <3>0, <3>2, <4>2 DEF Blocks
        <5>2. Least(c, x, lo, mid, r)
          BY <1>0, <2>1, <4>1, <5>1 DEF Blocks
        <5> HIDE DEF r, mid
        <5> QED
          BY <1>0, <4>1, <4>2, <5>2 DEF Least, Blocks
      <4>3. CASE ~ (c[mid] * Quant >= x)
        <5>1. r = Search(c, x, mid + 1, hi)
          BY <1>0, <3>0, <3>2, <4>3 DEF Blocks
        <5>2. Least(c, x, mid + 1, hi, r)
          BY <1>0, <2>1, <4>1, <5>1 DEF Blocks
        <5>3. ASSUME NEW j \in lo .. mid
              PROVE  c[j] * Quant < x
          <6>1. j \in Blocks /\ j <= mid
            BY <1>0, <4>1 DEF Blocks
          <6> QED
            BY <4>1, <4>3, <6>1, Scaled
        <5> HIDE DEF r, mid
        <5> QED
          BY <1>0, <4>1, <5>2, <5>3 DEF Least, Blocks
      <4> QED
        BY <4>2, <4>3
    <3> QED
      BY <1>0, <2>1, <3>1, <3>2 DEF Blocks
  <2> QED
    BY <2>1
<1>3. Right(K)
  <2> HIDE DEF Right
  <2>1. T = Nat
    <3> HIDE DEF T
    <3> QED
      BY <1>1, <1>2, SetInduction DEF T
  <2> QED
    BY <1>0, <2>1
<1> QED
  BY <1>0, <1>3 DEF Blocks

-----------------------------------------------------------------------------
(* The degree.                                                             *)

(* There is one least entry, wherever one looks for it.                    *)
LEMMA LeastIsUnique ==
  ASSUME NEW c \in Cdfs, NEW x \in Int, NEW a \in Blocks, NEW b \in Blocks, NEW r \in Blocks,
         NEW t \in Blocks, x <= c[K - 1] * Quant,
         Least(c, x, 0, K - 1, r), Least(c, x, a, b, t),
         a <= r, r <= b
  PROVE  r = t
<1>1. K \in Nat \ {0} /\ K - 1 \in Blocks /\ \A j \in Blocks : c[j] * Quant \in Nat
  BY ConstantAssumption, Scaled DEF Blocks
<1>2. c[r] * Quant >= x
  BY <1>1 DEF Least, Blocks
<1>3. ~ (r < t)
  BY <1>1, <1>2 DEF Least, Blocks
<1>4. ~ (t < r)
  BY <1>1 DEF Least, Blocks
<1> QED
  BY <1>1, <1>3, <1>4 DEF Blocks

(* A larger threshold is reached no earlier.                               *)
LEMMA LowerBoundMonotone ==
  ASSUME NEW c \in Cdfs, NEW x \in Int, NEW y \in Int, x <= y
  PROVE  /\ LowerBound(c, x) \in Blocks
         /\ LowerBound(c, y) \in Blocks
         /\ LowerBound(c, x) <= LowerBound(c, y)
         /\ Least(c, x, 0, K - 1, LowerBound(c, x))
<1>0. K \in Nat \ {0} /\ 0 \in Blocks /\ K - 1 \in Blocks
      /\ \A j \in Blocks : c[j] * Quant \in Nat
  BY ConstantAssumption, Scaled DEF Blocks
<1>1. Least(c, x, 0, K - 1, LowerBound(c, x)) /\ Least(c, y, 0, K - 1, LowerBound(c, y))
  BY <1>0, SearchIsLeast DEF LowerBound, Blocks
<1>2. LowerBound(c, x) \in Blocks /\ LowerBound(c, y) \in Blocks
  BY <1>1 DEF Least, Blocks
<1>3. LowerBound(c, x) <= LowerBound(c, y)
  BY <1>0, <1>1, <1>2 DEF Least, Blocks
<1> QED
  BY <1>1, <1>2, <1>3

(* Both ways to the degree of a number are the plain search for it.        *)
LEMMA DegreeIsLowerBound ==
  ASSUME NEW c \in Cdfs, NEW v \in 1 .. (Unit - 1)
  PROVE  /\ Sample(c, v) = LowerBound(c, v * Quant) + 1
         /\ DegreeBinary(c, v) = LowerBound(c, v * Quant) + 1
<1> DEFINE x == v * Quant
           i == x \div Unit
           lo == LowerBound(c, i * Unit)
           hi == LowerBound(c, (i + 1) * Unit)
           r == LowerBound(c, x)
           t == Search(c, x, lo, hi)
<1>1. /\ K \in Nat \ {0} /\ Unit \in Nat \ {0} /\ Quant \in Nat \ {0}
      /\ v \in Nat /\ v # 0 /\ x \in Nat /\ K - 1 \in Blocks /\ v <= Unit
  BY ConstantAssumption DEF Blocks
<1>2. i \in Nat /\ i * Unit \in Nat /\ (i + 1) * Unit \in Nat
      /\ i * Unit <= x /\ x <= (i + 1) * Unit
  <2> HIDE DEF x
  <2> QED
    BY <1>1, Truncated
<1>3. x <= c[K - 1] * Quant
  BY <1>1, CdfAssumption, TimesMonotone
<1>4. /\ lo \in Blocks /\ hi \in Blocks /\ r \in Blocks
      /\ lo <= r /\ r <= hi
      /\ Least(c, x, 0, K - 1, r)
  <2> HIDE DEF x, i
  <2> QED
    BY <1>1, <1>2, LowerBoundMonotone
<1>5. Least(c, x, lo, hi, t) /\ t \in Blocks
  <2>1. Least(c, x, lo, hi, t)
    <3> HIDE DEF x, lo, hi
    <3> QED
      BY <1>1, <1>4, SearchIsLeast DEF Blocks
  <2> HIDE DEF x, lo, hi, t
  <2> QED
    BY <1>1, <1>4, <2>1 DEF Least, Blocks
<1>6. r = t
  <2> HIDE DEF x, lo, hi, r, t
  <2> QED
    BY <1>1, <1>3, <1>4, <1>5, LeastIsUnique
<1>7. Sample(c, v) = t + 1
  BY <1>1 DEF Sample, Bracket
<1> QED
  BY <1>1, <1>6, <1>7 DEF DegreeBinary

(* What is asked of a degree: reached, and not before.                     *)
Reached(c, v, d) ==
  /\ d = 1 \/ c[d - 2] < v
  /\ v = 0 \/ c[d - 1] >= v

(* Sample and degree_binary return the one degree that is asked for.       *)
LEMMA DegreeIsLeast ==
  ASSUME NEW c \in Cdfs, NEW v \in 0 .. (Unit - 1)
  PROVE  /\ Sample(c, v) \in 1 .. K
         /\ DegreeBinary(c, v) = Sample(c, v)
         /\ \A d \in 1 .. K : Reached(c, v, d) <=> d = Sample(c, v)
<1>0. K \in Nat \ {0} /\ Unit \in Nat \ {0} /\ Quant \in Nat \ {0}
  BY ConstantAssumption
<1>1. CASE v = 0
  <2>1. Sample(c, v) = 1 /\ DegreeBinary(c, v) = 1
    BY <1>1 DEF Sample, DegreeBinary
  <2>2. ASSUME NEW d \in 1 .. K, d # 1
        PROVE  ~ (c[d - 2] < v)
    <3>1. d - 2 \in Blocks
      BY <1>0, <2>2 DEF Blocks
    <3> QED
      BY <1>0, <1>1, <3>1, Scaled
  <2> QED
    BY <1>0, <1>1, <2>1, <2>2 DEF Reached
<1>2. CASE v # 0
  <2> DEFINE x == v * Quant
             r == LowerBound(c, x)
  <2>1. v \in 1 .. (Unit - 1) /\ v \in Nat /\ v <= Unit /\ x \in Nat /\ K - 1 \in Blocks
    BY <1>0, <1>2 DEF Blocks
  <2>2. Sample(c, v) = r + 1 /\ DegreeBinary(c, v) = r + 1
    BY <2>1, DegreeIsLowerBound
  <2>3. r \in Blocks /\ Least(c, x, 0, K - 1, r)
    <3> HIDE DEF x
    <3> QED
      BY <2>1, LowerBoundMonotone
  <2>4. x <= c[K - 1] * Quant
    BY <1>0, <2>1, CdfAssumption, TimesMonotone
  <2>5. \A j \in Blocks : c[j] \in Nat /\ (c[j] >= v <=> c[j] * Quant >= x)
    BY <1>0, <2>1, Scaled, TimesMonotone, TimesStrict
  <2>6. c[r] >= v /\ \A j \in 0 .. (r - 1) : c[j] < v
    <3> HIDE DEF r
    <3>1. c[r] * Quant >= x
      <4> HIDE DEF x
      <4> QED
        BY <1>0, <2>3, <2>4 DEF Least, Blocks
    <3>2. ASSUME NEW j \in 0 .. (r - 1)
          PROVE  c[j] < v
      <4>1. j \in Blocks /\ c[j] * Quant < x
        BY <1>0, <2>3 DEF Least, Blocks
      <4> HIDE DEF x
      <4> QED
        BY <2>1, <2>5, <4>1, Scaled
    <3> QED
      BY <2>3, <2>5, <3>1, <3>2
  <2> HIDE DEF r
  <2>7. Reached(c, v, r + 1)
    <3>1. r + 1 = 1 \/ c[r - 1] < v
      BY <1>0, <2>3, <2>6 DEF Blocks
    <3>2. (r + 1) - 2 = r - 1 /\ (r + 1) - 1 = r
      BY <1>0, <2>3 DEF Blocks
    <3> QED
      BY <2>6, <3>1, <3>2 DEF Reached
  <2>8. ASSUME NEW d \in 1 .. K, Reached(c, v, d)
        PROVE  d = r + 1
    <3>1. d - 1 \in Blocks /\ c[d - 1] >= v
      BY <1>0, <1>2, <2>8 DEF Reached, Blocks
    <3>2. ~ (d - 1 < r)
      BY <1>0, <2>1, <2>3, <2>5, <2>6, <3>1 DEF Blocks
    <3>3. ASSUME r < d - 1
          PROVE  FALSE
      <4>1. d # 1 /\ d - 2 \in Blocks /\ r <= d - 2
        BY <1>0, <2>3, <3>3 DEF Blocks
      <4>2. c[d - 2] < v
        BY <2>8, <4>1 DEF Reached
      <4>3. c[r] <= c[d - 2]
        BY <2>3, <4>1, Scaled
      <4> QED
        BY <2>1, <2>3, <2>5, <2>6, <4>1, <4>2, <4>3
    <3> QED
      BY <1>0, <2>3, <3>1, <3>2, <3>3 DEF Blocks
  <2> QED
    BY <1>0, <2>2, <2>3, <2>7, <2>8 DEF Blocks
<1> QED
  BY <1>1, <1>2

-----------------------------------------------------------------------------
(* What a shuffle leaves, as a function of its draws.                      *)

Fresh == [chosen |-> <<>>, rest |-> [i \in 1 .. K |-> i - 1]]

\* The draw of r from the state st.
Taken(st, r) ==
  [chosen |-> Append(st.chosen, st.rest[r + 1]),
   rest |-> [i \in 1 .. (Len(st.rest) - 1) |->
               IF i + 1 = r + 1 THEN st.rest[1] ELSE st.rest[i + 1]]]

Turn(f, s, n) == IF n = 0 THEN Fresh ELSE Taken(f[n - 1], s[n])

Turns(s) == CHOOSE f : f = [n \in 0 .. Len(s) |-> Turn(f, s, n)]

(* ShuffledBlocks, by the state after each draw.                           *)
LEMMA ShuffledIsTurns ==
  ASSUME NEW s
  PROVE  ShuffledBlocks(s) = Turns(s)[Len(s)].chosen
BY DEF ShuffledBlocks, Turns, Turn, Taken, Fresh

(* The recursion goes down by one, so there is such a function.            *)
LEMMA TurnsExist ==
  ASSUME NEW s \in Seq(Blocks)
  PROVE  \E f : f = [n \in 0 .. Len(s) |-> Turn(f, s, n)]
<1> DEFINE Made(f) == [n \in 0 .. Len(s) |-> Turn(f, s, n)]
           Upto(f, b) == \A n \in 0 .. Len(s) : n < b => f[n] = Turn(f, s, n)
           T == {b \in Nat : \E f : Upto(f, b)}
<1>0. Len(s) \in Nat
  OBVIOUS
<1>1. 0 \in T
  BY <1>0
<1>2. ASSUME NEW b \in T
      PROVE  b + 1 \in T
  <2>1. PICK f : Upto(f, b)
    OBVIOUS
  <2>2. ASSUME NEW n \in 0 .. Len(s), n < b + 1
        PROVE  Made(f)[n] = Turn(Made(f), s, n)
    <3>1. Made(f)[n] = Turn(f, s, n)
      OBVIOUS
    <3>2. n # 0 => Made(f)[n - 1] = f[n - 1]
      BY <1>0, <2>1, <2>2
    <3> HIDE DEF Made
    <3> QED
      BY <3>1, <3>2 DEF Turn
  <2>3. b + 1 \in Nat /\ Upto(Made(f), b + 1)
    BY <2>2
  <2> HIDE DEF Upto, Made
  <2> QED
    BY <2>3
<1>3. PICK f : Upto(f, Len(s) + 1)
  <2>1. T \in SUBSET Nat
    OBVIOUS
  <2>2. T = Nat
    <3> HIDE DEF T
    <3> QED
      BY <1>1, <1>2, <2>1, SetInduction
  <2> HIDE DEF Upto
  <2> QED
    BY <1>0, <2>2
<1>4. \A n \in 0 .. Len(s) : Made(f)[n] = f[n]
  BY <1>0, <1>3
<1>5. \A n \in 0 .. Len(s) : Turn(f, s, n) = Turn(Made(f), s, n)
  <2> SUFFICES ASSUME NEW n \in 0 .. Len(s), n # 0
               PROVE  Turn(f, s, n) = Turn(Made(f), s, n)
    BY DEF Turn
  <2>1. n - 1 \in 0 .. Len(s)
    BY <1>0
  <2>2. Made(f)[n - 1] = f[n - 1]
    BY <1>4, <2>1
  <2> HIDE DEF Made
  <2> QED
    BY <2>2 DEF Turn
<1>6. Made(f) = [n \in 0 .. Len(s) |-> Turn(Made(f), s, n)]
  BY <1>5
<1> QED
  BY <1>6

(* The state after n draws, from the one before.                           *)
LEMMA TurnsStep ==
  ASSUME NEW s \in Seq(Blocks), NEW n \in 0 .. Len(s)
  PROVE  Turns(s)[n] = IF n = 0 THEN Fresh ELSE Taken(Turns(s)[n - 1], s[n])
<1> DEFINE f == Turns(s)
<1>1. f = [m \in 0 .. Len(s) |-> Turn(f, s, m)]
  BY TurnsExist DEF Turns
<1> HIDE DEF f
<1>2. f[n] = Turn(f, s, n)
  BY <1>1
<1> QED
  BY <1>2 DEF f, Turn

(* A further draw does not change what the earlier ones left.              *)
LEMMA TurnsAppend ==
  ASSUME NEW s \in Seq(Blocks), NEW r \in Blocks
  PROVE  LET t == Append(s, r)
         IN Turns(t)[Len(t)] = Taken(Turns(s)[Len(s)], r)
<1> DEFINE t == Append(s, r)
           T == {n \in Nat : n <= Len(s) => Turns(t)[n] = Turns(s)[n]}
<1>0. /\ t \in Seq(Blocks) /\ Len(s) \in Nat /\ Len(t) = Len(s) + 1 /\ t[Len(t)] = r
      /\ \A n \in 1 .. Len(s) : t[n] = s[n]
  OBVIOUS
<1> HIDE DEF t
<1>1. 0 \in T
  <2>1. Turns(t)[0] = Fresh /\ Turns(s)[0] = Fresh
    BY <1>0, TurnsStep
  <2> QED
    BY <2>1
<1>2. ASSUME NEW n \in T
      PROVE  n + 1 \in T
  <2>1. ASSUME n + 1 <= Len(s)
        PROVE  Turns(t)[n + 1] = Turns(s)[n + 1]
    <3>1. n + 1 \in 0 .. Len(s) /\ n + 1 \in 0 .. Len(t) /\ n + 1 # 0 /\ (n + 1) - 1 = n
          /\ n + 1 \in 1 .. Len(s)
      BY <1>0, <2>1
    <3>2. /\ Turns(t)[n + 1] = Taken(Turns(t)[n], t[n + 1])
          /\ Turns(s)[n + 1] = Taken(Turns(s)[n], s[n + 1])
      BY <1>0, <3>1, TurnsStep
    <3>3. Turns(t)[n] = Turns(s)[n]
      BY <1>0, <2>1
    <3> QED
      BY <1>0, <3>1, <3>2, <3>3
  <2> QED
    BY <2>1
<1>3. T = Nat
  <2>1. T \in SUBSET Nat
    OBVIOUS
  <2> HIDE DEF T
  <2> QED
    BY <1>1, <1>2, <2>1, SetInduction
<1>4. Turns(t)[Len(s)] = Turns(s)[Len(s)]
  <2>1. Len(s) \in T
    BY <1>0, <1>3
  <2> QED
    BY <1>0, <2>1
<1>5. Len(t) \in 0 .. Len(t) /\ Len(t) # 0 /\ Len(t) - 1 = Len(s)
  BY <1>0
<1>6. Turns(t)[Len(t)] = Taken(Turns(t)[Len(t) - 1], t[Len(t)])
  BY <1>0, <1>5, TurnsStep
<1> QED
  BY <1>0, <1>4, <1>5, <1>6 DEF t

-----------------------------------------------------------------------------
(* What draws with repetitions leave.                                      *)

First(s) == {n \in DOMAIN s : \A m \in 1 .. (n - 1) : s[m] # s[n]}

\* The position of a first draw among them.
Rank(s, n) == Cardinality({m \in First(s) : m <= n})

\* o holds the draws s without repetitions.
Drawn(s, o) ==
  /\ Len(o) = Cardinality(First(s))
  /\ \A n \in First(s) : Rank(s, n) \in 1 .. Len(o) /\ o[Rank(s, n)] = s[n]
  /\ \A i \in 1 .. Len(o) : \E n \in First(s) : Rank(s, n) = i
  /\ ToSet(o) = ToSet(s)

(* There are finitely many first draws.                                    *)
LEMMA FirstFinite ==
  ASSUME NEW s \in Seq(Blocks)
  PROVE  /\ First(s) \subseteq 1 .. Len(s)
         /\ IsFiniteSet(First(s))
         /\ Cardinality(First(s)) \in Nat
<1>1. First(s) \subseteq 1 .. Len(s) /\ Len(s) \in Nat
  BY DEF First
<1>2. IsFiniteSet(1 .. Len(s))
  BY <1>1, FS_Interval
<1> QED
  BY <1>1, <1>2, FS_Subset, FS_CardinalityType

(* Drawn has a unique solution, that of the model.                         *)
LEMMA DrawnIsDrawnBlocks ==
  ASSUME NEW s \in Seq(Blocks), NEW o \in Seq(Blocks), Drawn(s, o)
  PROVE  o = DrawnBlocks(s)
<1> DEFINE Pick(i) == CHOOSE n \in First(s) : Rank(s, n) = i
<1>1. DrawnBlocks(s) = [i \in 1 .. Cardinality(First(s)) |-> s[Pick(i)]]
  BY DEF DrawnBlocks, First, Rank
<1>2. ASSUME NEW i \in 1 .. Len(o)
      PROVE  s[Pick(i)] = o[i]
  <2>1. \E n \in First(s) : Rank(s, n) = i
    BY DEF Drawn
  <2>2. Pick(i) \in First(s) /\ Rank(s, Pick(i)) = i
    BY <2>1
  <2> HIDE DEF Pick
  <2> QED
    BY <2>2 DEF Drawn
<1>3. o = [i \in 1 .. Len(o) |-> o[i]]
  OBVIOUS
<1> HIDE DEF Pick
<1> QED
  BY <1>1, <1>2, <1>3 DEF Drawn

(* Before the first draw.                                                  *)
LEMMA NothingDrawn == Drawn(<<>>, <<>>)
<1>1. First(<<>>) = {}
  BY DEF First
<1>2. Cardinality(First(<<>>)) = 0
  BY <1>1, FS_EmptySet
<1> QED
  BY <1>1, <1>2 DEF Drawn

(* One more draw: rejected, or appended.                                   *)
LEMMA DrawnAppend ==
  ASSUME NEW s \in Seq(Blocks), NEW o \in Seq(Blocks), NEW r \in Blocks, Drawn(s, o)
  PROVE  /\ r \in ToSet(o) => Drawn(Append(s, r), o)
         /\ r \notin ToSet(o) => Drawn(Append(s, r), Append(o, r))
<1> DEFINE t == Append(s, r)
           L == Len(s) + 1
<1>0. /\ t \in Seq(Blocks) /\ Len(s) \in Nat /\ Len(t) = L /\ t[L] = r
      /\ \A n \in 1 .. Len(s) : t[n] = s[n]
      /\ DOMAIN s = 1 .. Len(s) /\ DOMAIN t = 1 .. L
      /\ L \in Nat /\ L = Len(s) + 1
  OBVIOUS
<1>1. ToSet(s) = {s[n] : n \in 1 .. Len(s)} /\ ToSet(t) = ToSet(s) \cup {r}
  BY <1>0 DEF ToSet
<1>2. First(s) \subseteq 1 .. Len(s) /\ IsFiniteSet(First(s)) /\ Cardinality(First(s)) \in Nat
  BY FirstFinite
<1> HIDE DEF t, L
<1>3. First(t) = IF r \in ToSet(s) THEN First(s) ELSE First(s) \cup {L}
  <2>1. \A n \in 1 .. Len(s) : n \in First(t) <=> n \in First(s)
    BY <1>0 DEF First
  <2>2. L \in First(t) <=> r \notin ToSet(s)
    <3>1. \A m \in 1 .. (L - 1) : m \in 1 .. Len(s)
      BY <1>0
    <3>2. \A m \in 1 .. Len(s) : m \in 1 .. (L - 1)
      BY <1>0
    <3> QED
      BY <1>0, <1>1, <3>1, <3>2 DEF First
  <2>3. \A n \in First(t) : n \in 1 .. Len(s) \/ n = L
    BY <1>0 DEF First
  <2>4. L \notin 1 .. Len(s)
    BY <1>0
  <2>5. ASSUME NEW n
        PROVE  n \in First(t) <=> n \in First(s) \/ (n = L /\ r \notin ToSet(s))
    BY <1>2, <2>1, <2>2, <2>3, <2>4
  <2> QED
    BY <2>5
<1>4. ASSUME NEW n \in First(s)
      PROVE  Rank(t, n) = Rank(s, n) /\ t[n] = s[n]
  <2>1. {m \in First(t) : m <= n} = {m \in First(s) : m <= n}
    BY <1>0, <1>2, <1>3
  <2> QED
    BY <1>0, <1>2, <2>1 DEF Rank
<1>5. CASE r \in ToSet(o)
  <2>1. r \in ToSet(s) /\ First(t) = First(s) /\ ToSet(t) = ToSet(s)
    BY <1>1, <1>3, <1>5 DEF Drawn
  <2> QED
    BY <1>4, <1>5, <2>1 DEF Drawn, t
<1>6. CASE r \notin ToSet(o)
  <2> DEFINE p == Append(o, r)
  <2>1. /\ Len(o) \in Nat /\ p \in Seq(Blocks) /\ Len(p) = Len(o) + 1 /\ p[Len(o) + 1] = r
        /\ \A i \in 1 .. Len(o) : p[i] = o[i]
        /\ ToSet(p) = ToSet(o) \cup {r}
    BY DEF ToSet
  <2> HIDE DEF p
  <2>2. First(t) = First(s) \cup {L} /\ L \notin First(s)
    BY <1>0, <1>2, <1>3, <1>6 DEF Drawn
  <2>3. Cardinality(First(t)) = Len(o) + 1
    <3>1. Cardinality(First(s) \cup {L}) = Cardinality(First(s)) + 1
      BY <1>2, <2>2, FS_AddElement
    <3> QED
      BY <2>2, <3>1 DEF Drawn
  <2>4. Rank(t, L) = Len(o) + 1
    <3>1. {m \in First(t) : m <= L} = First(t)
      BY <1>0, <1>2, <2>2
    <3> QED
      BY <2>3, <3>1 DEF Rank
  <2>5. \A n \in First(t) : Rank(t, n) \in 1 .. Len(p) /\ p[Rank(t, n)] = t[n]
    <3>1. \A n \in First(s) : Rank(s, n) \in 1 .. Len(o) /\ o[Rank(s, n)] = s[n]
      BY DEF Drawn
    <3>2. ASSUME NEW n \in First(s)
          PROVE  Rank(t, n) \in 1 .. Len(p) /\ p[Rank(t, n)] = t[n]
      <4> DEFINE i == Rank(s, n)
      <4>1. i \in 1 .. Len(o) /\ o[i] = s[n] /\ Rank(t, n) = i /\ t[n] = s[n]
        BY <1>4, <3>1
      <4> HIDE DEF i
      <4>2. i \in 1 .. Len(p) /\ p[i] = o[i]
        BY <2>1, <4>1
      <4> QED
        BY <4>1, <4>2
    <3>3. Rank(t, L) \in 1 .. Len(p) /\ p[Rank(t, L)] = t[L]
      BY <1>0, <2>1, <2>4
    <3> QED
      BY <2>2, <3>2, <3>3
  <2>6. \A i \in 1 .. Len(p) : \E n \in First(t) : Rank(t, n) = i
    <3> SUFFICES ASSUME NEW i \in 1 .. Len(p)
                 PROVE  \E n \in First(t) : Rank(t, n) = i
      OBVIOUS
    <3>1. CASE i = Len(o) + 1
      BY <2>2, <2>4, <3>1
    <3>2. CASE i \in 1 .. Len(o)
      BY <1>4, <2>2, <3>2 DEF Drawn
    <3> QED
      BY <2>1, <3>1, <3>2
  <2>7. ToSet(p) = ToSet(t)
    BY <1>1, <2>1 DEF Drawn
  <2> QED
    BY <1>6, <2>1, <2>3, <2>5, <2>6, <2>7 DEF Drawn, p, t
<1> QED
  BY <1>5, <1>6

-----------------------------------------------------------------------------
(* The inductive invariant.                                                *)

TypeOK ==
  /\ cdf \in Cdfs
  /\ u \in (0 .. (Unit - 1)) \cup {None}
  /\ draws \in Seq(Blocks)
  /\ out \in Seq(Blocks)
  /\ scratch \in [Blocks -> Blocks]
  /\ frames \in Nat

Distinct(s) == \A i, j \in 1 .. Len(s) : s[i] = s[j] => i = j

\* scratch is all blocks in some order: first what was taken, then what is left.
Permuted ==
  /\ \A i, j \in Blocks : scratch[i] = scratch[j] => i = j
  /\ Len(draws) = Len(out)
  /\ \A i \in 1 .. Len(out) : out[i] = scratch[i - 1]
  /\ Turns(draws)[Len(draws)] =
       [chosen |-> out, rest |-> [i \in 1 .. (K - Len(out)) |-> scratch[Len(out) + i - 1]]]

IInv ==
  /\ TypeOK
  /\ u # None => /\ Len(out) <= Degree
                 /\ Distinct(out)
                 /\ IF Shuffles(Degree) THEN Permuted ELSE Drawn(draws, out)

(* What of the assumptions the steps need.                                 *)
LEMMA Constants ==
  K \in Nat \ {0} /\ Unit \in Nat \ {0} /\ Blocks = 0 .. (K - 1)
BY ConstantAssumption DEF Blocks

(* A degree is a number of blocks, at least one.                           *)
LEMMA DegreeType == TypeOK /\ u # None => Degree \in 1 .. K
BY DegreeIsLeast DEF TypeOK, Degree

(* The invariant holds before the first frame.                             *)
LEMMA InitInv == Init => IInv
<1> SUFFICES ASSUME Init
             PROVE  IInv
  OBVIOUS
<1>1. scratch \in [Blocks -> Blocks]
  BY Constants DEF Init
<1> QED
  BY <1>1 DEF Init, IInv, TypeOK

(* frame_indices_into starts a selection, in whatever order scratch is.    *)
LEMMA BeginInv ==
  ASSUME IInv, NEW v \in 0 .. (Unit - 1), Begin(v)
  PROVE  IInv'
<1>1. /\ cdf' = cdf /\ u' = v /\ draws' = <<>> /\ out' = <<>> /\ frames' = frames
      /\ scratch' = Ordered(Sample(cdf, v))
  BY DEF Begin
<1>2. TypeOK'
  <2>1. scratch' \in [Blocks -> Blocks]
    BY <1>1, Constants DEF IInv, TypeOK, Ordered
  <2>2. <<>> \in Seq(Blocks)
    OBVIOUS
  <2> QED
    BY <1>1, <2>1, <2>2 DEF IInv, TypeOK
<1>3. Degree' = Sample(cdf, v) /\ Degree' \in 1 .. K
  BY <1>1, DegreeIsLeast DEF IInv, TypeOK, Degree
<1>4. Len(out') = 0 /\ Len(draws') = 0 /\ Distinct(out')
  BY <1>1 DEF Distinct
<1>5. Len(out') <= Degree'
  BY <1>3, <1>4
<1>6. ASSUME Shuffles(Degree')
      PROVE  Permuted'
  <2>1. scratch' = [i \in Blocks |-> i]
    BY <1>1, <1>3, <1>6 DEF Ordered
  <2>2. Turns(draws')[Len(draws')] = Fresh
    <3>1. <<>> \in Seq(Blocks) /\ Len(<<>>) = 0 /\ 0 \in 0 .. Len(<<>>)
      OBVIOUS
    <3>2. Turns(<<>>)[0] = Fresh
      BY <3>1, TurnsStep
    <3> QED
      BY <1>1, <3>1, <3>2
  <2>3. \A i \in 1 .. K : scratch'[0 + i - 1] = i - 1
    BY <2>1, Constants
  <2>4. Fresh = [chosen |-> out', rest |-> [i \in 1 .. (K - 0) |-> scratch'[0 + i - 1]]]
    BY <1>1, <2>3, Constants DEF Fresh
  <2>5. \A i, j \in Blocks : scratch'[i] = scratch'[j] => i = j
    BY <2>1
  <2>6. \A i \in 1 .. Len(out') : out'[i] = scratch'[i - 1]
    BY <1>4
  <2> QED
    BY <1>4, <2>2, <2>4, <2>5, <2>6 DEF Permuted
<1>7. Drawn(draws', out')
  BY <1>1, NothingDrawn
<1>8. IF Shuffles(Degree') THEN Permuted' ELSE Drawn(draws', out')
  BY <1>6, <1>7
<1> QED
  BY <1>2, <1>4, <1>5, <1>8 DEF IInv

(* A draw with repetitions: one block more, or a rejection.                *)
LEMMA DrawInv ==
  ASSUME IInv, Draw
  PROVE  IInv'
<1>1. /\ u # None /\ Len(out) < Degree /\ ~ Shuffles(Degree)
      /\ cdf' = cdf /\ u' = u /\ scratch' = scratch /\ frames' = frames
      /\ Degree' = Degree
  BY DEF Draw, Choosing, Degree
<1>2. PICK r \in Blocks :
        /\ draws' = Append(draws, r)
        /\ \/ r \in ToSet(out) /\ out' = out
           \/ r \notin ToSet(out) /\ out' = Append(out, r)
  BY DEF Draw, Repeated
<1>3. Drawn(draws, out) /\ Distinct(out) /\ draws \in Seq(Blocks) /\ out \in Seq(Blocks)
      /\ Degree \in 1 .. K
  BY <1>1, DegreeType DEF IInv, TypeOK
<1>4. Drawn(draws', out')
  BY <1>2, <1>3, DrawnAppend
<1>5. draws' \in Seq(Blocks) /\ out' \in Seq(Blocks)
  BY <1>2, <1>3
<1>6. Len(out') <= Degree
  <2>1. Len(out') = Len(out) \/ Len(out') = Len(out) + 1
    BY <1>2, <1>3
  <2> QED
    BY <1>1, <1>3, <2>1, Constants
<1>7. Distinct(out')
  <2>1. CASE out' = out
    BY <1>3, <2>1 DEF Distinct
  <2>2. CASE r \notin ToSet(out) /\ out' = Append(out, r)
    <3>1. \A i \in 1 .. Len(out) : out'[i] = out[i] /\ out[i] # r
      BY <1>3, <2>2 DEF ToSet
    <3>2. Len(out') = Len(out) + 1 /\ out'[Len(out) + 1] = r /\ Len(out) \in Nat
      BY <1>3, <2>2
    <3>3. \A i \in 1 .. Len(out') : i \in 1 .. Len(out) \/ i = Len(out) + 1
      BY <3>2
    <3> QED
      BY <1>3, <3>1, <3>2, <3>3 DEF Distinct
  <2> QED
    BY <1>2, <2>1, <2>2
<1>8. TypeOK'
  BY <1>1, <1>5 DEF IInv, TypeOK
<1>9. ~ Shuffles(Degree')
  BY <1>1
<1> QED
  BY <1>1, <1>4, <1>6, <1>7, <1>8, <1>9 DEF IInv

(* A draw without repetitions: two entries of scratch change places.       *)
LEMMA ShuffleInv ==
  ASSUME IInv, Shuffle
  PROVE  IInv'
<1> DEFINE n == Len(out)
<1>1. /\ u # None /\ Len(out) < Degree /\ Shuffles(Degree)
      /\ cdf' = cdf /\ u' = u /\ frames' = frames
      /\ Degree' = Degree
      /\ out' = Append(out, scratch'[n])
  BY DEF Shuffle, Choosing, Degree
<1>2. PICK r \in 0 .. (K - n - 1) :
        draws' = Append(draws, r) /\ scratch' = Swapped(n, n + r)
  BY DEF Shuffle
<1>3. /\ draws \in Seq(Blocks) /\ out \in Seq(Blocks) /\ scratch \in [Blocks -> Blocks]
      /\ Permuted /\ Degree \in 1 .. K
  BY <1>1, DegreeType DEF IInv, TypeOK
<1>4. n \in Nat /\ r \in Nat /\ n \in Blocks /\ n + r \in Blocks /\ r \in Blocks /\ K \in Nat
  <2>1. n \in Nat /\ n < Degree /\ Degree \in 1 .. K
    BY <1>1, <1>3
  <2> HIDE DEF n
  <2> QED
    BY <1>2, <2>1, Constants
<1>5. /\ scratch' \in [Blocks -> Blocks]
      /\ scratch'[n] = scratch[n + r]
      /\ scratch'[n + r] = scratch[n]
      /\ \A i \in Blocks : i # n /\ i # n + r => scratch'[i] = scratch[i]
  <2> HIDE DEF n
  <2> QED
    BY <1>2, <1>3, <1>4 DEF Swapped
<1>6. /\ draws' \in Seq(Blocks) /\ out' \in Seq(Blocks)
      /\ Len(out') = n + 1 /\ Len(draws') = Len(out')
      /\ out'[n + 1] = scratch'[n] /\ \A i \in 1 .. n : out'[i] = out[i]
  <2>1. scratch'[n] \in Blocks
    BY <1>4, <1>5
  <2>2. Len(draws) = Len(out)
    BY <1>3 DEF Permuted
  <2> QED
    BY <1>1, <1>2, <1>3, <1>4, <2>1, <2>2
<1>7. \A i, j \in Blocks : scratch'[i] = scratch'[j] => i = j
  <2>1. \A i, j \in Blocks : scratch[i] = scratch[j] => i = j
    BY <1>3 DEF Permuted
  <2> HIDE DEF n
  <2> QED
    BY <1>4, <1>5, <2>1
<1>8. \A i \in 1 .. Len(out') : out'[i] = scratch'[i - 1]
  <2> SUFFICES ASSUME NEW i \in 1 .. (n + 1)
               PROVE  out'[i] = scratch'[i - 1]
    BY <1>6
  <2>1. CASE i = n + 1
    <3>1. i - 1 = n
      BY <1>4, <2>1
    <3> QED
      BY <1>6, <2>1, <3>1
  <2>2. CASE i \in 1 .. n
    <3>1. out'[i] = scratch[i - 1]
      BY <1>3, <1>6, <2>2 DEF Permuted
    <3>2. i - 1 \in Blocks /\ i - 1 # n /\ i - 1 # n + r
      BY <1>4, <2>2, Constants
    <3> QED
      BY <1>5, <3>1, <3>2
  <2> QED
    BY <1>4, <2>1, <2>2
<1>9. Distinct(out')
  <2> SUFFICES ASSUME NEW i \in 1 .. Len(out'), NEW j \in 1 .. Len(out'), out'[i] = out'[j]
               PROVE  i = j
    BY DEF Distinct
  <2>1. i \in 1 .. (n + 1) /\ j \in 1 .. (n + 1)
    BY <1>6
  <2>2. i - 1 \in Blocks /\ j - 1 \in Blocks
    BY <1>4, <2>1, Constants
  <2>3. scratch'[i - 1] = scratch'[j - 1]
    BY <1>8
  <2>4. i - 1 = j - 1
    BY <1>7, <2>2, <2>3
  <2> QED
    BY <1>4, <2>1, <2>4
<1>10. Turns(draws')[Len(draws')] =
         [chosen |-> out', rest |-> [i \in 1 .. (K - Len(out')) |-> scratch'[Len(out') + i - 1]]]
  <2> DEFINE rest == [i \in 1 .. (K - n) |-> scratch[n + i - 1]]
             st == [chosen |-> out, rest |-> rest]
  <2>1. Turns(draws)[Len(draws)] = st
    BY <1>3 DEF Permuted
  <2>2. Turns(draws')[Len(draws')] = Taken(st, r)
    <3> HIDE DEF st
    <3> QED
      BY <1>2, <1>3, <1>4, <2>1, TurnsAppend
  <2>3. Len(rest) = K - n
    BY <1>4, Constants
  <2>4. rest[r + 1] = scratch'[n]
    <3>1. r + 1 \in 1 .. (K - n) /\ n + (r + 1) - 1 = n + r
      BY <1>2, <1>4
    <3> QED
      BY <1>5, <3>1
  <2>5. K - n - 1 = K - (n + 1)
    BY <1>4
  <2>6. ASSUME NEW i \in 1 .. (K - (n + 1))
        PROVE  (IF i + 1 = r + 1 THEN rest[1] ELSE rest[i + 1]) = scratch'[(n + 1) + i - 1]
    <3>1. /\ 1 \in 1 .. (K - n) /\ i + 1 \in 1 .. (K - n)
          /\ n + 1 - 1 = n /\ n + (i + 1) - 1 = n + i /\ (n + 1) + i - 1 = n + i
          /\ n + i \in Blocks /\ n + i # n
          /\ n + i = n + r <=> i + 1 = r + 1
      BY <1>4, Constants
    <3>2. rest[1] = scratch[n] /\ rest[i + 1] = scratch[n + i]
      BY <3>1
    <3> HIDE DEF rest, n
    <3> QED
      BY <1>5, <3>1, <3>2
  <2> DEFINE left == [i \in 1 .. (K - (n + 1)) |-> scratch'[(n + 1) + i - 1]]
  <2>7. [i \in 1 .. (Len(rest) - 1) |-> IF i + 1 = r + 1 THEN rest[1] ELSE rest[i + 1]] = left
    <3>1. Len(rest) - 1 = K - (n + 1)
      BY <1>4, <2>3
    <3> HIDE DEF rest
    <3> QED
      BY <2>6, <3>1
  <2>8. Taken(st, r) = [chosen |-> out', rest |-> left]
    <3>1. st.chosen = out /\ st.rest = rest
      OBVIOUS
    <3> HIDE DEF rest, st, left
    <3> QED
      BY <1>1, <2>4, <2>7, <3>1 DEF Taken
  <2> QED
    BY <1>6, <2>2, <2>8
<1>11. Permuted'
  BY <1>6, <1>7, <1>8, <1>10 DEF Permuted
<1>12. TypeOK'
  BY <1>1, <1>5, <1>6 DEF IInv, TypeOK
<1>13. Len(out') <= Degree'
  BY <1>1, <1>3, <1>4, <1>6
<1>14. Shuffles(Degree')
  BY <1>1
<1> QED
  BY <1>9, <1>11, <1>12, <1>13, <1>14 DEF IInv

(* The frame is done with.                                                 *)
LEMMA FinishInv ==
  ASSUME IInv, Finish
  PROVE  IInv'
BY DEF IInv, TypeOK, Finish

(* The inductive invariant of a selection.                                 *)
THEOREM Invariant == Spec => []IInv
<1>1. IInv /\ [Next]_vars => IInv'
  <2> SUFFICES ASSUME IInv, [Next]_vars
               PROVE  IInv'
    OBVIOUS
  <2>1. ASSUME NEW v \in 0 .. (Unit - 1), Begin(v)
        PROVE  IInv'
    BY <2>1, BeginInv
  <2>2. CASE Shuffle
    BY <2>2, ShuffleInv
  <2>3. CASE Draw
    BY <2>3, DrawInv
  <2>4. CASE Finish
    BY <2>4, FinishInv
  <2>5. CASE UNCHANGED vars
    BY <2>5 DEF vars, IInv, TypeOK, Degree, Permuted
  <2> QED
    BY <2>1, <2>2, <2>3, <2>4, <2>5 DEF Next
<1> QED
  BY <1>1, InitInv, PTL DEF Spec

(* The shortcut through the quantiles and the plain search both give the   *)
(* degree that the distribution defines.                                   *)
THEOREM DegreesAreExact == Spec => []DegreeExact
<1>1. IInv => DegreeExact
  <2> SUFFICES ASSUME TypeOK, u # None
               PROVE  Sample(cdf, u) = LeastDegree /\ DegreeBinary(cdf, u) = LeastDegree
    BY DEF IInv, DegreeExact
  <2> DEFINE d == Sample(cdf, u)
  <2>1. /\ d \in 1 .. K
        /\ DegreeBinary(cdf, u) = d
        /\ \A e \in 1 .. K : Reached(cdf, u, e) <=> e = d
    BY DegreeIsLeast DEF TypeOK
  <2>2. LeastDegree = CHOOSE e \in 1 .. K : Reached(cdf, u, e)
    BY DEF LeastDegree, Reached
  <2> HIDE DEF d
  <2>3. LeastDegree = d
    BY <2>1, <2>2
  <2> QED
    BY <2>1, <2>3 DEF d
<1> QED
  BY <1>1, Invariant, PTL

(* A frame covers as many blocks as its degree says, each once.            *)
THEOREM BlocksAreDistinct == Spec => []BlocksDistinct
<1>1. IInv => BlocksDistinct
  <2> SUFFICES ASSUME IInv, u # None
               PROVE  /\ Len(out) <= Degree
                      /\ Cardinality(ToSet(out)) = Len(out)
                      /\ ToSet(out) \subseteq Blocks
    BY DEF BlocksDistinct
  <2>1. out \in Seq(Blocks) /\ Distinct(out) /\ Len(out) <= Degree /\ Len(out) \in Nat
    BY DEF IInv, TypeOK
  <2>2. ToSet(out) \subseteq Blocks /\ ToSet(out) = {out[i] : i \in 1 .. Len(out)}
    BY <2>1 DEF ToSet
  <2>3. Cardinality(ToSet(out)) = Len(out)
    <3>1. out \in Bijection(1 .. Len(out), ToSet(out))
      BY <2>1, <2>2 DEF Bijection, Injection, Surjection, IsInjective, Distinct
    <3>2. IsFiniteSet(1 .. Len(out)) /\ Cardinality(1 .. Len(out)) = Len(out)
      BY <2>1, FS_Interval
    <3>3. ExistsBijection(1 .. Len(out), ToSet(out))
      BY <3>1 DEF ExistsBijection
    <3> QED
      BY <3>2, <3>3, FS_Bijection
  <2> QED
    BY <2>1, <2>2, <2>3
<1> QED
  BY <1>1, Invariant, PTL

(* What a frame covers depends on its own degree and draws alone, not on   *)
(* the order in which earlier frames left the scratch vector.              *)
THEOREM HistoryIsForgotten == Spec => []HistoryForgotten
<1>1. IInv => HistoryForgotten
  <2> SUFFICES ASSUME IInv, Selected
               PROVE  out = FrameIndices(Degree, draws)
    BY DEF HistoryForgotten
  <2>1. u # None /\ draws \in Seq(Blocks) /\ out \in Seq(Blocks)
    BY DEF Selected, IInv, TypeOK
  <2>2. CASE Shuffles(Degree)
    <3>1. Turns(draws)[Len(draws)].chosen = out
      BY <2>1, <2>2 DEF IInv, Permuted
    <3> QED
      BY <2>2, <3>1, ShuffledIsTurns DEF FrameIndices
  <2>3. CASE ~ Shuffles(Degree)
    <3>1. Drawn(draws, out)
      BY <2>1, <2>3 DEF IInv
    <3> QED
      BY <2>1, <2>3, <3>1, DrawnIsDrawnBlocks DEF FrameIndices
  <2> QED
    BY <2>2, <2>3
<1> QED
  BY <1>1, Invariant, PTL
=============================================================================
