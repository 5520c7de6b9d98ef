-------------------------- MODULE ContainerProofs ---------------------------
(***************************************************************************)
(* Proofs about Metadata and Container: for strings of any length over any *)
(* characters, and for any files, lengths, keys and changes on the way.    *)
(***************************************************************************)
EXTENDS Container, SequenceTheorems, WellFoundedInduction, TLAPS

-----------------------------------------------------------------------------
(* Numbers and sequences.                                                  *)

(* A set of numbers that is not empty has a least one.                     *)
LEMMA MinIn ==
  ASSUME NEW T, T \subseteq Nat, T # {}
  PROVE  Min(T) \in T /\ \A y \in T : Min(T) <= y
<1>1. PICK x \in T : \A y \in T : ~ (<<y, x>> \in OpToRel(<, Nat))
  BY WFMin, NatLessThanWellFounded
<1>2. \A y \in T : ~ (y < x)
  BY <1>1 DEF OpToRel
<1>3. \A y \in T : x <= y
  BY <1>2
<1> QED
  BY <1>3 DEF Min

(* ... and if it is bounded, a largest one.                                *)
LEMMA MaxIn ==
  ASSUME NEW n \in Nat, NEW T, T \subseteq 0 .. n, T # {}
  PROVE  Max(T) \in T /\ \A y \in T : y <= Max(T)
<1> DEFINE U == {n - y : y \in T}
<1>1. U \subseteq Nat /\ U # {}
  <2>1. \A y \in T : n - y \in Nat
    OBVIOUS
  <2> QED
    BY <2>1
<1>2. PICK m \in U : \A z \in U : m <= z
  <2> HIDE DEF U
  <2> QED
    BY <1>1, MinIn
<1>3. PICK x \in T : m = n - x
  BY <1>2
<1>4. \A y \in T : y <= x
  <2> SUFFICES ASSUME NEW y \in T
               PROVE  y <= x
    OBVIOUS
  <2>1. m <= n - y
    BY <1>2
  <2> QED
    BY <1>3, <2>1
<1> QED
  BY <1>4 DEF Max

(* A set of numbers that has 0, and with a number the next, has them all.  *)
LEMMA SetInduction ==
  ASSUME NEW T \in SUBSET Nat, 0 \in T, \A n \in T : n + 1 \in T
  PROVE  T = Nat
<1> SUFFICES ASSUME Nat \ T # {}
             PROVE  FALSE
  OBVIOUS
<1>1. Min(Nat \ T) \in Nat \ T /\ \A y \in Nat \ T : Min(Nat \ T) <= y
  BY MinIn
<1>2. PICK x \in Nat \ T : \A y \in Nat \ T : x <= y
  BY <1>1
<1>3. x - 1 \in Nat /\ x - 1 < x
  OBVIOUS
<1>4. x - 1 \in T
  BY <1>2, <1>3
<1> QED
  BY <1>4

(* A part of a sequence.                                                   *)
LEMMA Part ==
  ASSUME NEW S, NEW s \in Seq(S), NEW a \in Nat \ {0}, NEW b \in 0 .. Len(s), a <= b + 1
  PROVE  /\ SubSeq(s, a, b) \in Seq(S)
         /\ Len(SubSeq(s, a, b)) = b + 1 - a
         /\ \A i \in 1 .. (b + 1 - a) : SubSeq(s, a, b)[i] = s[a + i - 1]
         /\ ToSet(SubSeq(s, a, b)) \subseteq ToSet(s)
<1>1. \A i \in a .. b : s[i] \in S
  OBVIOUS
<1>2. b - a + 1 = b + 1 - a /\ Len(s) \in Nat
  OBVIOUS
<1> DEFINE t == SubSeq(s, a, b)
<1>3. t \in Seq(S) /\ Len(t) = b + 1 - a /\ \A i \in 1 .. (b + 1 - a) : t[i] = s[a + i - 1]
  <2>1. /\ t \in Seq(S)
        /\ Len(t) = IF a <= b THEN b - a + 1 ELSE 0
        /\ \A i \in 1 .. b - a + 1 : t[i] = s[a + i - 1]
    BY <1>1, SubSeqProperties
  <2> HIDE DEF t
  <2> QED
    BY <1>2, <2>1
<1> HIDE DEF t
<1>4. \A i \in 1 .. Len(t) : t[i] = s[a + i - 1] /\ a + i - 1 \in 1 .. Len(s)
  BY <1>2, <1>3
<1>5. ToSet(t) \subseteq ToSet(s)
  BY <1>3, <1>4 DEF ToSet
<1> QED
  BY <1>3, <1>5 DEF t

(* The entries of a sequence.                                              *)
LEMMA Entries ==
  ASSUME NEW S, NEW s \in Seq(S)
  PROVE  /\ Len(s) \in Nat /\ DOMAIN s = 1 .. Len(s)
         /\ ToSet(s) = {s[i] : i \in 1 .. Len(s)} /\ ToSet(s) \subseteq S
         /\ s = <<>> <=> Len(s) = 0
BY DEF ToSet

(* A sequence of one.                                                      *)
LEMMA Single ==
  ASSUME NEW S, NEW x \in S
  PROVE  <<x>> \in Seq(S) /\ Len(<<x>>) = 1 /\ <<x>>[1] = x
OBVIOUS

(* The first and the last entry.                                           *)
LEMMA Ends ==
  ASSUME NEW S, NEW s \in Seq(S), s # <<>>
  PROVE  /\ Len(s) \in Nat \ {0} /\ DOMAIN s = 1 .. Len(s)
         /\ 1 \in 1 .. Len(s) /\ Len(s) \in 1 .. Len(s)
         /\ s[1] \in ToSet(s) /\ s[Len(s)] \in ToSet(s)
<1>1. Len(s) \in Nat /\ DOMAIN s = 1 .. Len(s) /\ Len(s) # 0
  BY Entries
<1>2. 1 \in 1 .. Len(s) /\ Len(s) \in 1 .. Len(s)
  BY <1>1
<1> QED
  BY <1>1, <1>2 DEF ToSet

-----------------------------------------------------------------------------
(* The steps of safe_file_name.                                            *)

(* trim takes nothing but what is white, and leaves nothing white at either *)
(* end.                                                                    *)
LEMMA TrimFacts ==
  ASSUME NEW S, NEW s \in Seq(S)
  PROVE  LET t == Trim(s)
         IN /\ t \in Seq(S) /\ ToSet(t) \subseteq ToSet(s)
            /\ t # <<>> => t[1] \notin White /\ t[Len(t)] \notin White
            /\ s = <<>> => t = <<>>
            /\ s # <<>> /\ s[1] \notin White /\ s[Len(s)] \notin White => t = s
<1> DEFINE kept == {i \in DOMAIN s : s[i] \notin White}
<1>1. Len(s) \in Nat /\ DOMAIN s = 1 .. Len(s) /\ (s = <<>> <=> Len(s) = 0)
  BY Entries
<1>2. CASE kept = {}
  <2>1. Trim(s) = <<>>
    BY <1>2 DEF Trim
  <2>2. <<>> \in Seq(S) /\ ToSet(<<>>) = {}
    BY DEF ToSet
  <2> QED
    BY <1>1, <1>2, <2>1, <2>2
<1>3. CASE kept # {}
  <2> DEFINE a == Min(kept)
             b == Max(kept)
  <2>1. a \in kept /\ b \in kept /\ \A i \in kept : a <= i /\ i <= b
    <3>1. kept \subseteq Nat /\ kept \subseteq 0 .. Len(s)
      BY <1>1
    <3> HIDE DEF kept
    <3> QED
      BY <1>1, <1>3, <3>1, MinIn, MaxIn
  <2>2. Trim(s) = SubSeq(s, a, b)
    BY <1>3 DEF Trim
  <2>3. /\ a \in 1 .. Len(s) /\ b \in 1 .. Len(s) /\ a <= b
        /\ s[a] \notin White /\ s[b] \notin White
    BY <1>1, <2>1
  <2> HIDE DEF a, b
  <2> DEFINE t == SubSeq(s, a, b)
  <2>4. /\ t \in Seq(S) /\ Len(t) = b + 1 - a /\ ToSet(t) \subseteq ToSet(s)
        /\ \A i \in 1 .. (b + 1 - a) : t[i] = s[a + i - 1]
    BY <1>1, <2>3, Part
  <2>5. t[1] = s[a] /\ t[Len(t)] = s[b]
    <3> HIDE DEF t
    <3>1. 1 \in 1 .. (b + 1 - a) /\ a + 1 - 1 = a
      BY <1>1, <2>3
    <3>2. Len(t) \in 1 .. (b + 1 - a) /\ a + Len(t) - 1 = b
      BY <1>1, <2>3, <2>4
    <3> QED
      BY <2>4, <3>1, <3>2
  <2>6. ASSUME s # <<>>, s[1] \notin White, s[Len(s)] \notin White
        PROVE  t = s
    <3>1. 1 \in kept /\ Len(s) \in kept
      BY <1>1, <2>6
    <3>2. a = 1 /\ b = Len(s)
      BY <1>1, <2>1, <2>3, <3>1
    <3> QED
      BY <3>2, SubSeqFull
  <2>7. s # <<>>
    BY <1>1, <2>3
  <2> HIDE DEF t
  <2>8. Trim(s) = t
    BY <2>2 DEF t
  <2> QED
    BY <2>3, <2>4, <2>5, <2>6, <2>7, <2>8
<1> QED
  BY <1>2, <1>3

(* trim_end_matches leaves what is before the last other character.        *)
LEMMA TrimEndFacts ==
  ASSUME NEW S, NEW s \in Seq(S)
  PROVE  LET t == TrimEnd(s)
         IN /\ t \in Seq(S) /\ ToSet(t) \subseteq ToSet(s)
            /\ Len(t) <= Len(s) /\ \A i \in 1 .. Len(t) : t[i] = s[i]
            /\ t # <<>> => t[Len(t)] \notin Trailing
            /\ s # <<>> /\ s[Len(s)] \notin Trailing => t = s
<1> DEFINE ends == {0} \cup {i \in DOMAIN s : s[i] \notin Trailing}
           b == Max(ends)
           t == SubSeq(s, 1, b)
<1>1. Len(s) \in Nat /\ DOMAIN s = 1 .. Len(s) /\ (s = <<>> <=> Len(s) = 0)
  BY Entries
<1>2. b \in ends /\ \A i \in ends : i <= b
  <2>1. ends \subseteq 0 .. Len(s) /\ ends # {}
    BY <1>1
  <2> HIDE DEF ends
  <2> QED
    BY <1>1, <2>1, MaxIn
<1> HIDE DEF b
<1>3. b \in 0 .. Len(s) /\ (b # 0 => s[b] \notin Trailing)
  BY <1>1, <1>2
<1>4. s # <<>> /\ s[Len(s)] \notin Trailing => b = Len(s)
  <2>1. ASSUME s # <<>>, s[Len(s)] \notin Trailing
        PROVE  Len(s) <= b
    <3>1. Len(s) \in ends
      BY <1>1, <2>1
    <3> HIDE DEF ends
    <3> QED
      BY <1>2, <3>1
  <2>2. b \in 0 .. Len(s) /\ Len(s) \in Nat
    BY <1>1, <1>3
  <2>3. Len(s) <= b => b = Len(s)
    BY <2>2
  <2> QED
    BY <2>1, <2>3
<1> HIDE DEF ends
<1>5. /\ t \in Seq(S) /\ Len(t) = b /\ ToSet(t) \subseteq ToSet(s)
      /\ \A i \in 1 .. b : t[i] = s[i]
  <2>1. /\ t \in Seq(S) /\ Len(t) = b + 1 - 1 /\ ToSet(t) \subseteq ToSet(s)
        /\ \A i \in 1 .. (b + 1 - 1) : t[i] = s[1 + i - 1]
    BY <1>1, <1>3, Part
  <2> HIDE DEF t
  <2>2. b + 1 - 1 = b /\ \A i \in 1 .. b : 1 + i - 1 = i
    BY <1>1, <1>3
  <2> QED
    BY <2>1, <2>2
<1>6. b = Len(s) => t = s
  BY SubSeqFull
<1>7. t # <<>> => t[Len(t)] \notin Trailing
  <2> HIDE DEF t
  <2>1. t # <<>> => b # 0
    BY <1>5
  <2> QED
    BY <1>3, <1>5, <2>1
<1>8. TrimEnd(s) = t
  BY DEF TrimEnd, ends, b
<1> HIDE DEF t
<1>9. Len(t) <= Len(s) /\ \A i \in 1 .. Len(t) : t[i] = s[i]
  BY <1>1, <1>3, <1>5
<1> QED
  BY <1>4, <1>5, <1>6, <1>7, <1>8, <1>9

(* What is after the last separator has none.                              *)
LEMMA BaseFacts ==
  ASSUME NEW S, NEW s \in Seq(S)
  PROVE  /\ Base(s) \in Seq(S)
         /\ ToSet(Base(s)) \subseteq ToSet(s) \ Separators
         /\ ToSet(s) \cap Separators = {} => Base(s) = s
<1> DEFINE ends == {0} \cup {i \in DOMAIN s : s[i] \in Separators}
           m == Max(ends)
           t == SubSeq(s, m + 1, Len(s))
<1>1. Len(s) \in Nat /\ DOMAIN s = 1 .. Len(s) /\ ToSet(s) = {s[i] : i \in 1 .. Len(s)}
  BY Entries
<1>2. m \in ends /\ \A i \in ends : i <= m
  <2>1. ends \subseteq 0 .. Len(s) /\ ends # {}
    BY <1>1
  <2> HIDE DEF ends
  <2> QED
    BY <1>1, <2>1, MaxIn
<1> HIDE DEF m
<1>3. m \in 0 .. Len(s)
  BY <1>1, <1>2
<1>4. \A i \in (m + 1) .. Len(s) : s[i] \notin Separators
  BY <1>1, <1>2, <1>3
<1>5. ToSet(s) \cap Separators = {} => m = 0
  BY <1>1, <1>2, <1>3
<1> HIDE DEF ends
<1>6. /\ t \in Seq(S) /\ Len(t) = Len(s) + 1 - (m + 1) /\ ToSet(t) \subseteq ToSet(s)
      /\ \A i \in 1 .. (Len(s) + 1 - (m + 1)) : t[i] = s[m + 1 + i - 1]
  <2>1. m + 1 \in Nat \ {0} /\ Len(s) \in 0 .. Len(s) /\ m + 1 <= Len(s) + 1
    BY <1>1, <1>3
  <2> HIDE DEF t
  <2> QED
    BY <2>1, Part DEF t
<1>7. m = 0 => t = s
  BY SubSeqFull
<1>8. Base(s) = t
  BY DEF Base, ends, m
<1> HIDE DEF t
<1>9. ToSet(t) \cap Separators = {}
  <2>1. \A i \in 1 .. Len(t) : t[i] \notin Separators
    <3> SUFFICES ASSUME NEW i \in 1 .. Len(t)
                 PROVE  t[i] \notin Separators
      OBVIOUS
    <3>1. t[i] = s[m + 1 + i - 1] /\ m + 1 + i - 1 \in (m + 1) .. Len(s)
      BY <1>1, <1>3, <1>6
    <3> QED
      BY <1>4, <3>1
  <2> QED
    BY <1>6, <2>1, Entries
<1> QED
  BY <1>5, <1>6, <1>7, <1>8, <1>9

(* filter drops what is to be dropped, and nothing else.                   *)
Keep(f, s, n) ==
  IF n = 0 THEN <<>>
  ELSE IF s[n] \in Dropped THEN f[n - 1]
  ELSE Append(f[n - 1], s[n])

KeptFcn(s) == CHOOSE f : f = [n \in 0 .. Len(s) |-> Keep(f, s, n)]

(* Kept is what the recursive function says.                             *)
LEMMA KeptIsFcn ==
  ASSUME NEW s
  PROVE  Kept(s) = KeptFcn(s)[Len(s)]
BY DEF Kept, KeptFcn, Keep

(* The recursion goes down by one, so there is such a function.            *)
LEMMA KeptExists ==
  ASSUME NEW S, NEW s \in Seq(S)
  PROVE  \E f : f = [n \in 0 .. Len(s) |-> Keep(f, s, n)]
<1> DEFINE Made(f) == [n \in 0 .. Len(s) |-> Keep(f, s, n)]
           Upto(f, b) == \A n \in 0 .. Len(s) : n < b => f[n] = Keep(f, s, n)
           T == {b \in Nat : \E f : Upto(f, b)}
<1>0. Len(s) \in Nat
  OBVIOUS
<1>1. 0 \in T
  BY <1>0
<1>2. ASSUME NEW b \in T
      PROVE  b + 1 \in T
  <2>1. PICK f : Upto(f, b)
    OBVIOUS
  <2>2. ASSUME NEW n \in 0 .. Len(s), n < b + 1
        PROVE  Made(f)[n] = Keep(Made(f), s, n)
    <3>1. Made(f)[n] = Keep(f, s, n)
      OBVIOUS
    <3>2. n # 0 => Made(f)[n - 1] = f[n - 1]
      BY <1>0, <2>1, <2>2
    <3> HIDE DEF Made
    <3> QED
      BY <3>1, <3>2 DEF Keep
  <2>3. b + 1 \in Nat /\ Upto(Made(f), b + 1)
    BY <2>2
  <2> HIDE DEF Upto, Made
  <2> QED
    BY <2>3
<1>3. PICK f : Upto(f, Len(s) + 1)
  <2>1. T \in SUBSET Nat
    OBVIOUS
  <2>2. T = Nat
    <3> HIDE DEF T
    <3> QED
      BY <1>1, <1>2, <2>1, SetInduction
  <2>3. Len(s) + 1 \in T
    <3> HIDE DEF T
    <3> QED
      BY <1>0, <2>2
  <2> HIDE DEF Upto
  <2> QED
    BY <2>3
<1>4. \A n \in 0 .. Len(s) : Made(f)[n] = f[n]
  BY <1>0, <1>3
<1>5. \A n \in 0 .. Len(s) : Keep(f, s, n) = Keep(Made(f), s, n)
  <2> SUFFICES ASSUME NEW n \in 0 .. Len(s), n # 0
               PROVE  Keep(f, s, n) = Keep(Made(f), s, n)
    BY DEF Keep
  <2>1. n - 1 \in 0 .. Len(s)
    BY <1>0
  <2>2. Made(f)[n - 1] = f[n - 1]
    BY <1>4, <2>1
  <2> HIDE DEF Made
  <2> QED
    BY <2>2 DEF Keep
<1>6. Made(f) = [n \in 0 .. Len(s) |-> Keep(Made(f), s, n)]
  BY <1>5
<1> QED
  BY <1>6

(* ... so what it gives is without what is to be dropped.                *)
LEMMA KeptFacts ==
  ASSUME NEW S, NEW s \in Seq(S)
  PROVE  /\ Kept(s) \in Seq(S)
         /\ ToSet(Kept(s)) \subseteq ToSet(s) \ Dropped
         /\ ToSet(s) \cap Dropped = {} => Kept(s) = s
<1> DEFINE f == KeptFcn(s)
           R == Seq(ToSet(s) \ Dropped)
           Good(n) == n <= Len(s) =>
                        /\ f[n] \in R
                        /\ ToSet(s) \cap Dropped = {} => f[n] = SubSeq(s, 1, n)
           T == {n \in Nat : Good(n)}
<1>1. Len(s) \in Nat /\ ToSet(s) = {s[i] : i \in 1 .. Len(s)} /\ ToSet(s) \subseteq S
  BY Entries
<1>2. f = [n \in 0 .. Len(s) |-> Keep(f, s, n)]
  BY KeptExists DEF KeptFcn
<1> HIDE DEF f
<1>3. \A n \in 0 .. Len(s) : f[n] = Keep(f, s, n)
  BY <1>2
<1>4. 0 \in T
  <2>1. f[0] = <<>>
    BY <1>1, <1>3 DEF Keep
  <2>2. SubSeq(s, 1, 0) = <<>>
    BY SubSeqEmpty
  <2>3. <<>> \in R
    OBVIOUS
  <2> HIDE DEF R
  <2> QED
    BY <2>1, <2>2, <2>3
<1>5. ASSUME NEW n \in T
      PROVE  n + 1 \in T
  <2>1. ASSUME n + 1 <= Len(s)
        PROVE  Good(n + 1)
    <3>1. n + 1 \in 1 .. Len(s) /\ n + 1 \in 0 .. Len(s) /\ n + 1 # 0 /\ (n + 1) - 1 = n
          /\ n <= Len(s)
      BY <1>1, <2>1
    <3>2. f[n] \in R /\ s[n + 1] \in ToSet(s)
      BY <1>1, <3>1
    <3>3. f[n + 1] = IF s[n + 1] \in Dropped THEN f[n] ELSE Append(f[n], s[n + 1])
      BY <1>3, <3>1 DEF Keep
    <3>4. f[n + 1] \in R
      <4>1. CASE s[n + 1] \in Dropped
        BY <3>2, <3>3, <4>1
      <4>2. CASE s[n + 1] \notin Dropped
        <5>1. s[n + 1] \in ToSet(s) \ Dropped
          BY <3>2, <4>2
        <5> QED
          BY <3>2, <3>3, <4>2, <5>1, AppendProperties
      <4> QED
        BY <4>1, <4>2
    <3>5. ASSUME ToSet(s) \cap Dropped = {}
          PROVE  f[n + 1] = SubSeq(s, 1, n + 1)
      <4>1. f[n + 1] = Append(SubSeq(s, 1, n), s[n + 1])
        BY <3>1, <3>2, <3>3, <3>5
      <4>2. SubSeq(s, 1, n + 1) = SubSeq(s, 1, (n + 1) - 1) \o <<s[n + 1]>>
        <5>1. 1 \in 1 .. Len(s) /\ n + 1 \in 1 .. Len(s)
          BY <1>1, <3>1
        <5> QED
          BY <5>1, SubSeqRecursiveSecond
      <4>3. SubSeq(s, 1, n) \in Seq(S)
        BY <1>1, <3>1, SubSeqProperties
      <4> QED
        BY <1>1, <3>1, <3>2, <4>1, <4>2, <4>3, AppendIsConcat
    <3> QED
      BY <3>4, <3>5
  <2> HIDE DEF Good
  <2>2. n + 1 \in Nat /\ Good(n + 1)
    BY <1>1, <2>1 DEF Good
  <2> QED
    BY <2>2
<1>6. Good(Len(s))
  <2>1. T \in SUBSET Nat
    OBVIOUS
  <2>2. T = Nat
    <3> HIDE DEF T
    <3> QED
      BY <1>4, <1>5, <2>1, SetInduction
  <2> HIDE DEF Good
  <2> QED
    BY <1>1, <2>2
<1>7. Kept(s) \in R
  BY <1>1, <1>6, KeptIsFcn DEF f
<1>8. ToSet(s) \cap Dropped = {} => Kept(s) = SubSeq(s, 1, Len(s))
  BY <1>1, <1>6, KeptIsFcn DEF f
<1>9. Kept(s) \in Seq(S) /\ ToSet(Kept(s)) \subseteq ToSet(s) \ Dropped
  <2>1. ToSet(Kept(s)) \subseteq ToSet(s) \ Dropped
    BY <1>7, Entries
  <2>2. \A q \in R : q \in Seq(S)
    <3>1. ToSet(s) \ Dropped \subseteq S
      BY <1>1
    <3> QED
      BY <3>1
  <2> QED
    BY <1>7, <2>1, <2>2
<1> QED
  BY <1>8, <1>9, SubSeqFull

(* What is before a separator: a part at the front, all of it if there is    *)
(* none, and not empty unless the separator comes first.                    *)
LEMMA BeforeFacts ==
  ASSUME NEW S, NEW s \in Seq(S), NEW c
  PROVE  LET t == Before(s, c)
         IN /\ t \in Seq(S) /\ ToSet(t) \subseteq ToSet(s) /\ Len(t) <= Len(s)
            /\ \A i \in 1 .. Len(t) : t[i] = s[i]
            /\ s # <<>> /\ s[1] # c => t # <<>>
<1> DEFINE ends == {i - 1 : i \in {j \in DOMAIN s : s[j] = c}} \cup {Len(s)}
           b == Min(ends)
           t == SubSeq(s, 1, b)
<1>1. Len(s) \in Nat /\ DOMAIN s = 1 .. Len(s) /\ (s = <<>> <=> Len(s) = 0)
  BY Entries
<1>2. b \in ends /\ \A i \in ends : b <= i
  <2>1. ends \subseteq Nat /\ ends # {}
    BY <1>1
  <2> HIDE DEF ends
  <2> QED
    BY <2>1, MinIn
<1> HIDE DEF b
<1>3. b \in 0 .. Len(s)
  BY <1>1, <1>2
<1>4. s # <<>> /\ s[1] # c => b # 0
  BY <1>1, <1>2
<1> HIDE DEF ends
<1>5. /\ t \in Seq(S) /\ Len(t) = b /\ ToSet(t) \subseteq ToSet(s)
      /\ \A i \in 1 .. b : t[i] = s[i]
  <2>1. /\ t \in Seq(S) /\ Len(t) = b + 1 - 1 /\ ToSet(t) \subseteq ToSet(s)
        /\ \A i \in 1 .. (b + 1 - 1) : t[i] = s[1 + i - 1]
    BY <1>1, <1>3, Part
  <2> HIDE DEF t
  <2>2. b + 1 - 1 = b /\ \A i \in 1 .. b : 1 + i - 1 = i
    BY <1>1, <1>3
  <2> QED
    BY <2>1, <2>2
<1>6. Before(s, c) = t
  BY DEF Before, ends, b
<1> HIDE DEF t
<1>7. b # 0 => t # <<>>
  BY <1>5
<1>8. Len(t) <= Len(s)
  BY <1>1, <1>3, <1>5
<1> QED
  BY <1>4, <1>5, <1>6, <1>7, <1>8

Harmless(s) == ToSet(s) \cap (Separators \cup Dropped \cup Replaced) = {}

Replace(s) == [i \in DOMAIN s |-> IF s[i] \in Replaced THEN "_" ELSE s[i]]

(* map puts "_" for what may not be in a name.                             *)
LEMMA ReplaceFacts ==
  ASSUME NEW s \in Seq(Characters)
  PROVE  /\ Replace(s) \in Seq(Characters) /\ Len(Replace(s)) = Len(s)
         /\ ToSet(Replace(s)) \subseteq (ToSet(s) \ Replaced) \cup {"_"}
         /\ ToSet(s) \cap Replaced = {} => Replace(s) = s
<1>1. Len(s) \in Nat /\ DOMAIN s = 1 .. Len(s) /\ ToSet(s) = {s[i] : i \in 1 .. Len(s)}
  BY Entries
<1> DEFINE t == Replace(s)
<1>2. t = [i \in 1 .. Len(s) |-> IF s[i] \in Replaced THEN "_" ELSE s[i]]
  BY <1>1 DEF Replace
<1> HIDE DEF t
<1>3. t \in [1 .. Len(s) -> Characters]
  <2>1. \A i \in 1 .. Len(s) : s[i] \in Characters
    OBVIOUS
  <2> QED
    BY <1>2, <2>1, StringAssumption
<1>4. t \in Seq(Characters) /\ Len(t) = Len(s)
  BY <1>1, <1>3
<1>5. ToSet(t) = {t[i] : i \in 1 .. Len(s)}
  BY <1>4, Entries
<1>6. ToSet(t) \subseteq (ToSet(s) \ Replaced) \cup {"_"}
  BY <1>1, <1>2, <1>5
<1>7. ASSUME ToSet(s) \cap Replaced = {}
      PROVE  t = s
  <2>1. \A i \in 1 .. Len(s) : t[i] = s[i]
    BY <1>1, <1>2, <1>7
  <2> QED
    BY <1>4, <2>1
<1> QED
  BY <1>4, <1>6, <1>7 DEF t

(* The name without what must not be in it: nothing harmful is left, nor a *)
(* blank in front, nor a dot or space at the end.                          *)
LEMMA CleanedFacts ==
  ASSUME NEW s \in Seq(Characters)
  PROVE  LET t == Cleaned(s)
         IN /\ t \in Seq(Characters) /\ ToSet(t) \subseteq ToSet(s) \cup {"_"}
            /\ Harmless(t)
            /\ t # <<>> => t[1] \notin White /\ t[Len(t)] \notin Trailing
            /\ (Harmless(s) /\ s # <<>> /\ s[1] \notin White /\ s[Len(s)] \notin White
                 /\ s[Len(s)] \notin Trailing) => t = s
<1> DEFINE base == Base(s)
           kept == Kept(base)
           mapped == Replace(kept)
           trimmed == Trim(mapped)
           t == TrimEnd(trimmed)
<1>1. /\ base \in Seq(Characters) /\ ToSet(base) \subseteq ToSet(s) \ Separators
      /\ ToSet(s) \cap Separators = {} => base = s
  BY BaseFacts
<1> HIDE DEF base
<1>2. /\ kept \in Seq(Characters) /\ ToSet(kept) \subseteq ToSet(base) \ Dropped
      /\ ToSet(base) \cap Dropped = {} => kept = base
  BY <1>1, KeptFacts
<1> HIDE DEF kept
<1>3. /\ mapped \in Seq(Characters)
      /\ ToSet(mapped) \subseteq (ToSet(kept) \ Replaced) \cup {"_"}
      /\ ToSet(kept) \cap Replaced = {} => mapped = kept
  BY <1>2, ReplaceFacts
<1> HIDE DEF mapped
<1>4. /\ trimmed \in Seq(Characters) /\ ToSet(trimmed) \subseteq ToSet(mapped)
      /\ trimmed # <<>> => trimmed[1] \notin White
      /\ mapped # <<>> /\ mapped[1] \notin White /\ mapped[Len(mapped)] \notin White
           => trimmed = mapped
  BY <1>3, TrimFacts
<1> HIDE DEF trimmed
<1>5. /\ t \in Seq(Characters) /\ ToSet(t) \subseteq ToSet(trimmed)
      /\ Len(t) <= Len(trimmed) /\ \A i \in 1 .. Len(t) : t[i] = trimmed[i]
      /\ t # <<>> => t[Len(t)] \notin Trailing
      /\ trimmed # <<>> /\ trimmed[Len(trimmed)] \notin Trailing => t = trimmed
  BY <1>4, TrimEndFacts
<1>6. Cleaned(s) = t
  BY DEF Cleaned, Replace, t, trimmed, mapped, kept, base
<1> HIDE DEF t
<1>7. ToSet(t) \subseteq ToSet(s) \cup {"_"}
  BY <1>1, <1>2, <1>3, <1>4, <1>5
<1>8. Harmless(t)
  BY <1>1, <1>2, <1>3, <1>4, <1>5, CharacterAssumption DEF Harmless
<1>9. t # <<>> => t[1] \notin White
  <2> SUFFICES ASSUME t # <<>>
               PROVE  t[1] \notin White
    OBVIOUS
  <2>1. Len(t) \in Nat \ {0} /\ Len(trimmed) \in Nat /\ (trimmed = <<>> <=> Len(trimmed) = 0)
    BY <1>4, <1>5, Entries
  <2>2. 1 \in 1 .. Len(t) /\ trimmed # <<>>
    BY <1>5, <2>1
  <2> QED
    BY <1>4, <1>5, <2>2
<1>10. ASSUME Harmless(s), s # <<>>, s[1] \notin White, s[Len(s)] \notin White,
              s[Len(s)] \notin Trailing
       PROVE  t = s
  <2>1. base = s
    BY <1>1, <1>10 DEF Harmless
  <2>2. kept = s
    BY <1>2, <1>10, <2>1 DEF Harmless
  <2>3. mapped = s
    BY <1>3, <1>10, <2>2 DEF Harmless
  <2>4. trimmed = s
    BY <1>4, <1>10, <2>3
  <2> QED
    BY <1>5, <1>10, <2>4
<1> QED
  BY <1>5, <1>6, <1>7, <1>8, <1>9, <1>10

-----------------------------------------------------------------------------
(* safe_file_name as a whole.                                              *)

(* "_" in front of a name makes it no device's.                            *)
LEMMA UnderscoreIsNoDevice ==
  ASSUME NEW s \in Seq(Characters), s # <<>>, s[1] = "_"
  PROVE  ~ IsDevice(s)
<1> DEFINE t == Before(s, ".")
<1>0. s[1] # "."
  OBVIOUS
<1>1. t \in Seq(Characters) /\ t # <<>> /\ \A i \in 1 .. Len(t) : t[i] = s[i]
  BY <1>0, BeforeFacts
<1> HIDE DEF t
<1>2. 1 \in DOMAIN t /\ t[1] = "_"
  <2>1. 1 \in 1 .. Len(t) /\ DOMAIN t = 1 .. Len(t)
    BY <1>1, Ends
  <2>2. t[1] = s[1]
    BY <1>1, <2>1
  <2> QED
    BY <2>1, <2>2
<1>3. UpperCase(t)[1] = "_"
  BY <1>2, CharacterAssumption DEF UpperCase
<1>4. UpperCase(t) \notin Devices
  BY <1>3, CharacterAssumption
<1> QED
  BY <1>4 DEF IsDevice, t

(* "_" in front of a harmless name changes neither that, nor its end.       *)
LEMMA UnderscoreInFront ==
  ASSUME NEW s \in Seq(Characters), s # <<>>
  PROVE  LET t == <<"_">> \o s
         IN /\ t \in Seq(Characters) /\ t # <<>> /\ t[1] = "_" /\ t[Len(t)] = s[Len(s)]
            /\ Harmless(s) => Harmless(t)
            /\ ToSet(t) \subseteq ToSet(s) \cup {"_"}
<1> DEFINE t == <<"_">> \o s
<1>1. Len(s) \in Nat \ {0} /\ ToSet(s) = {s[i] : i \in 1 .. Len(s)}
  BY Entries
<1> DEFINE one == <<"_">>
<1>2. one \in Seq(Characters) /\ Len(one) = 1 /\ one[1] = "_"
  <2>1. "_" \in Characters
    BY StringAssumption
  <2> QED
    BY <2>1, Single
<1> HIDE DEF one
<1>3. /\ t \in Seq(Characters) /\ Len(t) = 1 + Len(s)
      /\ \A i \in 1 .. (1 + Len(s)) : t[i] = IF i <= 1 THEN one[i] ELSE s[i - 1]
  BY <1>2, ConcatProperties DEF one
<1> HIDE DEF t
<1>4. t[1] = "_" /\ t # <<>>
  <2>1. 1 \in 1 .. (1 + Len(s)) /\ 1 + Len(s) # 0
    BY <1>1
  <2>2. t[1] = one[1]
    BY <1>3, <2>1
  <2>3. t # <<>>
    BY <1>3, <2>1
  <2> QED
    BY <1>2, <2>2, <2>3
<1>5. t[Len(t)] = s[Len(s)]
  <2>1. /\ 1 + Len(s) \in 1 .. (1 + Len(s)) /\ ~ (1 + Len(s) <= 1)
        /\ (1 + Len(s)) - 1 = Len(s)
    BY <1>1
  <2>2. t[1 + Len(s)] = s[(1 + Len(s)) - 1]
    BY <1>3, <2>1
  <2> QED
    BY <1>3, <2>1, <2>2
<1>6. ToSet(t) \subseteq ToSet(s) \cup {"_"}
  <2>1. ToSet(t) = {t[i] : i \in 1 .. (1 + Len(s))}
    BY <1>3, Entries
  <2>2. \A i \in 1 .. (1 + Len(s)) : t[i] = "_" \/ t[i] \in ToSet(s)
    <3> SUFFICES ASSUME NEW i \in 1 .. (1 + Len(s)), i # 1
                 PROVE  t[i] \in ToSet(s)
      BY <1>4
    <3>1. i - 1 \in 1 .. Len(s) /\ ~ (i <= 1)
      BY <1>1
    <3>2. t[i] = s[i - 1]
      BY <1>3, <3>1
    <3> QED
      BY <1>1, <3>1, <3>2
  <2> QED
    BY <2>1, <2>2
<1>7. Harmless(s) => Harmless(t)
  BY <1>6, CharacterAssumption DEF Harmless
<1> QED
  BY <1>3, <1>4, <1>5, <1>6, <1>7 DEF t

(* Every name that comes out can be given to a file, whatever went in.      *)
LEMMA NameIsSafe ==
  ASSUME NEW s \in Seq(Characters)
  PROVE  /\ SafeFileName(s) \in Seq(Characters) /\ Safe(SafeFileName(s))
         /\ SafeFileName(s)[1] \notin White
         /\ ToSet(s) \cap White \subseteq {" "} =>
              SafeFileName(s)[Len(SafeFileName(s))] \notin White
<1> DEFINE t == Cleaned(s)
<1>1. /\ t \in Seq(Characters) /\ ToSet(t) \subseteq ToSet(s) \cup {"_"} /\ Harmless(t)
      /\ t # <<>> => t[1] \notin White /\ t[Len(t)] \notin Trailing
  BY CleanedFacts
<1>2. SafeFileName(s) = IF t \in {<<>>, <<".">>, <<".", ".">>} THEN DefaultName
                        ELSE IF IsDevice(t) THEN <<"_">> \o t
                        ELSE t
  BY DEF SafeFileName
<1> HIDE DEF t
<1>3. /\ DefaultName \in Seq(Characters) /\ DefaultName # <<>>
      /\ DefaultName[1] \notin White /\ DefaultName[Len(DefaultName)] \notin White
  <2>1. DefaultName \in Seq(Characters)
    BY StringAssumption
  <2>2. DefaultName # <<>> /\ Trim(DefaultName) = DefaultName
    BY DefaultAssumption DEF Safe
  <2> QED
    BY <2>1, <2>2, TrimFacts
<1>4. ASSUME t # <<>>, ToSet(s) \cap White \subseteq {" "}
      PROVE  t[Len(t)] \notin White
  <2>1. t[Len(t)] \in ToSet(t)
    BY <1>1, <1>4, Ends
  <2>2. t[Len(t)] \in ToSet(s) \cup {"_"}
    BY <1>1, <2>1
  <2> QED
    BY <1>1, <1>4, <2>2, CharacterAssumption DEF Trailing
<1>5. CASE t \in {<<>>, <<".">>, <<".", ".">>}
  BY <1>2, <1>3, <1>5, DefaultAssumption
<1>6. CASE t \notin {<<>>, <<".">>, <<".", ".">>} /\ IsDevice(t)
  <2> DEFINE u == <<"_">> \o t
  <2>1. /\ u \in Seq(Characters) /\ u # <<>> /\ u[1] = "_" /\ u[Len(u)] = t[Len(t)]
        /\ Harmless(u)
    BY <1>1, <1>6, UnderscoreInFront
  <2>2. SafeFileName(s) = u
    BY <1>2, <1>6
  <2> HIDE DEF u
  <2>3. ~ IsDevice(u)
    BY <2>1, UnderscoreIsNoDevice
  <2>4. Safe(u)
    BY <1>1, <1>6, <2>1, <2>3 DEF Safe, Harmless, IsDevice
  <2> QED
    BY <1>4, <1>6, <2>1, <2>2, <2>4, CharacterAssumption
<1>7. CASE t \notin {<<>>, <<".">>, <<".", ".">>} /\ ~ IsDevice(t)
  <2>1. Safe(t)
    BY <1>1, <1>7 DEF Safe, Harmless, IsDevice
  <2> QED
    BY <1>1, <1>2, <1>4, <1>7, <2>1
<1> QED
  BY <1>5, <1>6, <1>7

(* A safe name without blanks at its ends is kept.                         *)
LEMMA SafeNameIsKept ==
  ASSUME NEW s \in Seq(Characters), Safe(s), s[1] \notin White, s[Len(s)] \notin White
  PROVE  SafeFileName(s) = s
<1>1. Cleaned(s) = s
  BY CleanedFacts DEF Safe, Harmless
<1>2. s # <<>> /\ s[Len(s)] \notin Trailing /\ ~ IsDevice(s)
  BY DEF Safe, IsDevice
<1>3. s \notin {<<>>, <<".">>, <<".", ".">>}
  <2>1. <<".">>[Len(<<".">>)] \in Trailing
    BY DEF Trailing
  <2>2. <<".", ".">>[Len(<<".", ".">>)] \in Trailing
    BY DEF Trailing
  <2> QED
    BY <1>2, <2>1, <2>2
<1> QED
  BY <1>1, <1>2, <1>3 DEF SafeFileName

-----------------------------------------------------------------------------
(* normalize_mime_type.                                                    *)

(* A type that is not refused is a sequence, and is not changed again.   *)
LEMMA TypeFacts ==
  ASSUME NEW s \in Seq(Characters), NormalizeMimeType(s) # Refuse
  PROVE  /\ NormalizeMimeType(s) \in Seq(Characters)
         /\ NormalizeMimeType(NormalizeMimeType(s)) = NormalizeMimeType(s)
<1> DEFINE value == Trim(s)
<1>1. /\ value \in Seq(Characters)
      /\ value # <<>> => value[1] \notin White /\ value[Len(value)] \notin White
  BY TrimFacts
<1>2. value # <<>> => Trim(value) = value
  BY <1>1, TrimFacts
<1>3. CASE value = <<>>
  <2>1. NormalizeMimeType(s) = DefaultType
    BY <1>3 DEF NormalizeMimeType
  <2> QED
    BY <2>1, StringAssumption, DefaultAssumption
<1>4. CASE value # <<>>
  <2>1. NormalizeMimeType(s) = value
    BY <1>4 DEF NormalizeMimeType
  <2>2. NormalizeMimeType(value) = NormalizeMimeType(s)
    BY <1>2, <1>4 DEF NormalizeMimeType
  <2> QED
    BY <1>1, <2>1, <2>2
<1> QED
  BY <1>3, <1>4

-----------------------------------------------------------------------------
(* Names and types as cells.                                               *)

CharCells == {<<"char", c>> : c \in Characters}

\* What a cell is not, it does not matter: here, cells of something else.
IsCell(d) == d[1] = "char" => d[2] \in Characters

(* Cells have as many characters, all of them known ones.                *)
LEMMA CharsFacts ==
  ASSUME NEW S, NEW cells \in Seq(S), \A d \in S : IsCell(d)
  PROVE  Chars(cells) \in Seq(Characters) /\ Len(Chars(cells)) = Len(cells)
<1> DEFINE t == Chars(cells)
<1>1. Len(cells) \in Nat /\ DOMAIN cells = 1 .. Len(cells)
  BY Entries
<1>2. \A i \in 1 .. Len(cells) : IsCell(cells[i])
  OBVIOUS
<1>3. t = [i \in 1 .. Len(cells) |-> IF cells[i][1] = "char" THEN cells[i][2] ELSE "other"]
  BY <1>1 DEF Chars
<1> HIDE DEF t
<1>4. t \in [1 .. Len(cells) -> Characters]
  BY <1>2, <1>3, MetaAssumption DEF IsCell
<1> QED
  BY <1>1, <1>4 DEF t

(* Characters survive being made cells.                                  *)
LEMMA CellsFacts ==
  ASSUME NEW s \in Seq(Characters)
  PROVE  Cells(s) \in Seq(CharCells) /\ Len(Cells(s)) = Len(s) /\ Chars(Cells(s)) = s
<1> DEFINE t == Cells(s)
<1>1. Len(s) \in Nat /\ DOMAIN s = 1 .. Len(s) /\ \A i \in 1 .. Len(s) : s[i] \in Characters
  BY Entries
<1>2. t = [i \in 1 .. Len(s) |-> <<"char", s[i]>>]
  BY <1>1 DEF Cells
<1> HIDE DEF t
<1>3. t \in [1 .. Len(s) -> CharCells]
  BY <1>1, <1>2 DEF CharCells
<1>4. t \in Seq(CharCells) /\ Len(t) = Len(s)
  BY <1>1, <1>3
<1>5. Chars(t) = s
  <2> DEFINE u == Chars(t)
  <2>1. u = [i \in 1 .. Len(s) |-> IF t[i][1] = "char" THEN t[i][2] ELSE "other"]
    BY <1>3 DEF Chars
  <2> HIDE DEF u
  <2>2. \A i \in 1 .. Len(s) : u[i] = s[i]
    BY <1>2, <2>1
  <2>3. u \in Seq(Characters) /\ Len(u) = Len(s)
    <3>1. u \in [1 .. Len(s) -> Characters]
      BY <1>1, <2>1, <2>2
    <3> QED
      BY <1>1, <3>1
  <2>4. u = s
    BY <2>2, <2>3
  <2> QED
    BY <2>4 DEF u
<1> QED
  BY <1>4, <1>5 DEF t

(* A character's cell is one.                                            *)
LEMMA CharCellIsCell == \A d \in CharCells : IsCell(d)
BY DEF CharCells, IsCell

(* The names that the receiver gets are safe, whatever the cells were.      *)
LEMMA SafeNameFacts ==
  ASSUME NEW S, NEW cells \in Seq(S), \A d \in S : IsCell(d)
  PROVE  SafeName(cells) \in Seq(CharCells) /\ Safe(Chars(SafeName(cells)))
<1> DEFINE t == SafeFileName(Chars(cells))
<1>1. t \in Seq(Characters) /\ Safe(t)
  BY CharsFacts, NameIsSafe
<1> HIDE DEF t
<1>2. Cells(t) \in Seq(CharCells) /\ Chars(Cells(t)) = t
  BY <1>1, CellsFacts
<1>3. SafeName(cells) = Cells(t)
  BY DEF SafeName, t
<1> QED
  BY <1>1, <1>2, <1>3

(* A type that was normalized is normal.                                   *)
LEMMA NormalTypeFacts ==
  ASSUME NEW cells \in Seq(CharCells), NormalType(cells) # None
  PROVE  NormalType(cells) \in Seq(CharCells) /\ NormalType(NormalType(cells)) = NormalType(cells)
<1> DEFINE t == NormalizeMimeType(Chars(cells))
<1>1. t # Refuse /\ NormalType(cells) = Cells(t)
  BY DEF NormalType
<1>2. Chars(cells) \in Seq(Characters)
  BY CharsFacts, CharCellIsCell
<1>3. t \in Seq(Characters) /\ NormalizeMimeType(t) = t
  BY <1>1, <1>2, TypeFacts
<1> HIDE DEF t
<1>4. Cells(t) \in Seq(CharCells) /\ Chars(Cells(t)) = t
  BY <1>3, CellsFacts
<1>5. NormalType(Cells(t)) = Cells(t)
  BY <1>1, <1>3, <1>4 DEF NormalType
<1> QED
  BY <1>1, <1>4, <1>5

-----------------------------------------------------------------------------
(* The invariant.                                                          *)

Arguments == [name : Names, type : Types, content : Contents, key : Keys \cup {None}]

SentName == SafeName(source.name)
SentType == NormalType(source.type)

PlainPayload ==
  [content |-> source.content, gzip |-> Compresses(source.type, source.content), seal |-> {}]

Payload ==
  IF source.key = None THEN PlainPayload
  ELSE Sealed(PlainPayload, source.key, source.key[2], SentName, SentType)

Packed ==
  Assemble(Payload, SentName, SentType, IF source.key = None THEN None ELSE source.key[2])

Headers ==
  [magic : BOOLEAN, gzip : BOOLEAN, crypt : BOOLEAN,
   name_len : Nat, type_len : Nat, file_len : Nat, xmit_len : Nat,
   digest : Digests, nonce : Nonces \cup {None}]

\* Whatever happens on the way, data cells are cells of what was sent.
BodyCells == CharCells \cup {<<"data", Payload, i>> : i \in Nat}

\* What unpack_impl goes by, but for the digest, is as it was packed.
AllButDigest ==
  /\ container.body = Packed.body
  /\ H.gzip = Packed.header.gzip /\ H.crypt = Packed.header.crypt
  /\ H.name_len = Packed.header.name_len /\ H.type_len = Packed.header.type_len

PackedWell ==
  /\ source \in Arguments
  /\ Refused(source.name, source.type, source.content) = None
  /\ container \in [whole : BOOLEAN, header : Headers, body : Seq(BodyCells)]
  /\ alterations = 0 => container = Packed
  /\ alterations <= 1 => H.digest = source.content \/ AllButDigest

AcceptedIsSafe == Accepted => Safe(Chars(outcome.file.name))

IInv ==
  /\ alterations \in Nat
  /\ container # None => PackedWell
  /\ Accepted => container # None
  /\ AcceptedIsGenuine
  /\ AcceptedIsSafe

(* ... and so is each cell of a body.                                    *)
LEMMA BodyCellIsCell == \A d \in BodyCells : IsCell(d)
BY CharCellIsCell DEF BodyCells, IsCell

(* What the arguments of a pack call that succeeded say of name, type,     *)
(* payload and their lengths.                                              *)
LEMMA PackedFacts ==
  ASSUME source \in Arguments, Refused(source.name, source.type, source.content) = None
  PROVE  /\ SentName \in Seq(CharCells) /\ Len(SentName) \in 0 .. MaxLen
         /\ SentType \in Seq(CharCells) /\ Len(SentType) \in 0 .. MaxLen
         /\ SentType # None /\ NormalType(SentType) = SentType
         /\ Size[source.content] \in 1 .. MaxFileBytes
         /\ PayloadLen(PlainPayload) \in 1 .. MaxFileBytes
         /\ PlainPayload.gzip => PayloadLen(PlainPayload) >= GzipMinLen
         /\ ~ PlainPayload.gzip => PayloadLen(PlainPayload) = Size[source.content]
         /\ PayloadLen(Payload) =
              PayloadLen(PlainPayload) + (IF source.key = None THEN 0 ELSE TagLen)
<1> DEFINE c == source.content
<1>1. /\ source.name \in Seq(CharCells) /\ source.type \in Seq(CharCells) /\ c \in Contents
  BY MetaAssumption DEF Arguments, CharCells
<1>2. Size[c] \in Nat /\ GzSize[c] \in Nat /\ GzSize[c] >= GzipMinLen /\ GzipMinLen \in Nat \ {0}
  BY <1>1, SizeAssumption, GzipAssumption
<1>3. /\ Size[c] # 0 /\ ~ (Size[c] > MaxFileBytes) /\ SentType # None
      /\ ~ (Len(SentName) > MaxLen) /\ ~ (Len(SentType) > MaxLen)
  BY NoneAssumption DEF Refused, SentName, SentType
<1>4. SentName \in Seq(CharCells)
  BY <1>1, CharCellIsCell, SafeNameFacts DEF SentName
<1>5. SentType \in Seq(CharCells) /\ NormalType(SentType) = SentType
  BY <1>1, <1>3, NormalTypeFacts DEF SentType
<1>6. Len(SentName) \in 0 .. MaxLen /\ Len(SentType) \in 0 .. MaxLen
  <2>1. Len(SentName) \in Nat /\ Len(SentType) \in Nat /\ MaxLen \in Nat
    BY <1>4, <1>5, SizeAssumption
  <2> QED
    BY <1>3, <2>1
<1>7. /\ PlainPayload.content = c /\ PlainPayload.seal = {}
      /\ PlainPayload.gzip => GzSize[c] + GzipRoom < Size[c]
  BY DEF PlainPayload, Compresses
<1>8. /\ PlainPayload.gzip => PayloadLen(PlainPayload) = GzSize[c]
      /\ ~ PlainPayload.gzip => PayloadLen(PlainPayload) = Size[c]
  BY <1>2, <1>7 DEF PayloadLen
<1>9. Size[c] \in 1 .. MaxFileBytes /\ PayloadLen(PlainPayload) \in 1 .. MaxFileBytes
  <2>1. GzipRoom \in Nat /\ MaxFileBytes \in Nat
    BY SizeAssumption
  <2>2. Size[c] \in 1 .. MaxFileBytes
    BY <1>2, <1>3, <2>1
  <2>3. PlainPayload.gzip => GzSize[c] \in 1 .. MaxFileBytes
    BY <1>2, <1>7, <2>1, <2>2
  <2> QED
    BY <1>8, <2>2, <2>3
<1>10. PayloadLen(Payload) =
         PayloadLen(PlainPayload) + (IF source.key = None THEN 0 ELSE TagLen)
  <2>1. CASE source.key = None
    <3>1. Payload = PlainPayload /\ PayloadLen(PlainPayload) + 0 = PayloadLen(PlainPayload)
      BY <1>9, <2>1 DEF Payload
    <3> QED
      BY <2>1, <3>1
  <2>2. CASE source.key # None
    <3>1. /\ Payload.content = PlainPayload.content /\ Payload.gzip = PlainPayload.gzip
          /\ Payload.seal # {}
      BY <2>2 DEF Payload, Sealed, PlainPayload
    <3>2. PlainPayload.seal = {}
      BY <1>7
    <3> HIDE DEF c
    <3>3. PayloadLen(PlainPayload) =
            (IF PlainPayload.gzip THEN GzSize[PlainPayload.content] ELSE Size[PlainPayload.content])
      BY <1>2, <1>7, <1>8
    <3> QED
      BY <2>2, <3>1, <3>3 DEF PayloadLen
  <2> QED
    BY <2>1, <2>2
<1> QED
  BY <1>2, <1>3, <1>4, <1>5, <1>6, <1>8, <1>9, <1>10

(* Lengths that fit in their fields are not cut.                           *)
LEMMA NotCut ==
  ASSUME NEW m \in Nat, NEW n \in 0 .. m
  PROVE  n % (m + 1) = n
OBVIOUS

Nonce == IF source.key = None THEN None ELSE source.key[2]

(* The fields of a container as it was packed.                             *)
LEMMA PackedShape ==
  ASSUME source \in Arguments, Refused(source.name, source.type, source.content) = None
  PROVE  /\ Packed \in [whole : BOOLEAN, header : Headers, body : Seq(BodyCells)]
         /\ Packed.whole
         /\ Packed.header =
              [magic |-> TRUE, gzip |-> PlainPayload.gzip, crypt |-> source.key # None,
               name_len |-> Len(SentName), type_len |-> Len(SentType),
               file_len |-> Size[source.content], xmit_len |-> PayloadLen(Payload),
               digest |-> source.content, nonce |-> Nonce]
         /\ Packed.body = SentName \o SentType \o Bytes(Payload)
         /\ Bytes(Payload) \in Seq(BodyCells) /\ Len(Bytes(Payload)) = PayloadLen(Payload)
         /\ PayloadLen(Payload) \in Nat \ {0}
         /\ Payload.content = source.content /\ Payload.gzip = PlainPayload.gzip
         /\ Payload.seal # {} <=> source.key # None
<1>1. /\ SentName \in Seq(CharCells) /\ Len(SentName) \in 0 .. MaxLen
      /\ SentType \in Seq(CharCells) /\ Len(SentType) \in 0 .. MaxLen
      /\ Size[source.content] \in 1 .. MaxFileBytes
      /\ PayloadLen(PlainPayload) \in 1 .. MaxFileBytes
      /\ PayloadLen(Payload) =
           PayloadLen(PlainPayload) + (IF source.key = None THEN 0 ELSE TagLen)
  BY PackedFacts
<1>2. MaxLen \in Nat /\ TagLen \in Nat /\ MaxFileBytes \in Nat
  BY SizeAssumption
<1>3. PayloadLen(Payload) \in Nat \ {0} /\ Size[source.content] \in Nat
  BY <1>1, <1>2
<1>4. Len(SentName) % (MaxLen + 1) = Len(SentName) /\ Len(SentType) % (MaxLen + 1) = Len(SentType)
  BY <1>1, <1>2, NotCut
<1>5. /\ Payload.content = source.content /\ Payload.gzip = PlainPayload.gzip
      /\ Payload.seal # {} <=> source.key # None
      /\ Payload.gzip \in BOOLEAN
  <2>1. /\ PlainPayload.content = source.content /\ PlainPayload.seal = {}
        /\ PlainPayload.gzip \in BOOLEAN
    BY DEF PlainPayload, Compresses
  <2>2. CASE source.key = None
    BY <2>1, <2>2 DEF Payload
  <2>3. CASE source.key # None
    <3>1. /\ Payload.content = PlainPayload.content /\ Payload.gzip = PlainPayload.gzip
          /\ Payload.seal # {}
      BY <2>3 DEF Payload, Sealed, PlainPayload
    <3> QED
      BY <2>1, <2>3, <3>1
  <2> QED
    BY <2>2, <2>3
<1>6. Bytes(Payload) \in Seq(BodyCells) /\ Len(Bytes(Payload)) = PayloadLen(Payload)
  <2>1. Bytes(Payload) = [i \in 1 .. PayloadLen(Payload) |-> <<"data", Payload, i>>]
    BY DEF Bytes
  <2>2. Bytes(Payload) \in [1 .. PayloadLen(Payload) -> BodyCells]
    BY <1>3, <2>1 DEF BodyCells
  <2> QED
    BY <1>3, <2>2
<1>7. Packed.body = SentName \o SentType \o Bytes(Payload) /\ Packed.whole
  BY DEF Packed, Assemble
<1>8. Packed.header =
        [magic |-> TRUE, gzip |-> Payload.gzip, crypt |-> Payload.seal # {},
         name_len |-> Len(SentName) % (MaxLen + 1), type_len |-> Len(SentType) % (MaxLen + 1),
         file_len |-> Size[Payload.content], xmit_len |-> PayloadLen(Payload),
         digest |-> Payload.content, nonce |-> Nonce]
  BY DEF Packed, Assemble, Nonce
<1>9. Packed.header =
        [magic |-> TRUE, gzip |-> PlainPayload.gzip, crypt |-> source.key # None,
         name_len |-> Len(SentName), type_len |-> Len(SentType),
         file_len |-> Size[source.content], xmit_len |-> PayloadLen(Payload),
         digest |-> source.content, nonce |-> Nonce]
  <2>1. (Payload.seal # {}) = (source.key # None)
    BY <1>5
  <2> QED
    BY <1>4, <1>5, <1>8, <2>1
<1>10. Nonce \in Nonces \cup {None} /\ source.content \in Digests
  <2>1. source.key \in Keys \cup {None} /\ source.content \in Contents
    BY DEF Arguments
  <2>2. source.key # None => source.key[2] \in Nonces
    BY <2>1 DEF Keys, Key
  <2> QED
    BY <2>1, <2>2 DEF Nonce, Digests
<1>11. Packed.header \in Headers
  <2>1. Len(SentName) \in Nat /\ Len(SentType) \in Nat
    BY <1>1, <1>2
  <2>2. PlainPayload.gzip \in BOOLEAN /\ (source.key # None) \in BOOLEAN
    BY <1>5
  <2> QED
    BY <1>3, <1>9, <1>10, <2>1, <2>2 DEF Headers
<1>12. Packed.body \in Seq(BodyCells)
  <2>1. SentName \in Seq(BodyCells) /\ SentType \in Seq(BodyCells)
    <3>1. CharCells \subseteq BodyCells
      BY DEF BodyCells
    <3> QED
      BY <1>1, <3>1
  <2>2. SentName \o SentType \in Seq(BodyCells)
    BY <2>1, ConcatProperties
  <2> QED
    BY <1>6, <1>7, <2>2, ConcatProperties
<1>13. Packed \in [whole : BOOLEAN, header : Headers, body : Seq(BodyCells)]
  <2>1. Packed = [whole |-> TRUE, header |-> Packed.header, body |-> Packed.body]
    BY DEF Packed, Assemble
  <2>2. \A h \in Headers, b \in Seq(BodyCells) :
          [whole |-> TRUE, header |-> h, body |-> b]
            \in [whole : BOOLEAN, header : Headers, body : Seq(BodyCells)]
    OBVIOUS
  <2>3. [whole |-> TRUE, header |-> Packed.header, body |-> Packed.body]
          \in [whole : BOOLEAN, header : Headers, body : Seq(BodyCells)]
    BY <1>11, <1>12, <2>2
  <2> QED
    BY <2>1, <2>3, Zenon
<1> QED
  BY <1>3, <1>5, <1>6, <1>7, <1>9, <1>13

(* The same, as a formula that holds in every state.                       *)
LEMMA PackedIsTyped ==
  source \in Arguments /\ Refused(source.name, source.type, source.content) = None
    => Packed \in [whole : BOOLEAN, header : Headers, body : Seq(BodyCells)]
BY PackedShape, Zenon

(* A container that is packed.                                             *)
LEMMA PackKeeps ==
  ASSUME IInv, NEW name \in Names, NEW type \in Types, NEW c \in Contents,
         NEW key, NEW nonce,
         \/ key = None
         \/ \E password \in Passwords : nonce \in Nonces /\ key = Key(password, nonce),
         Pack(name, type, c, key, nonce)
  PROVE  IInv'
<1>1. /\ container = None /\ alterations' = alterations /\ alterations \in Nat
      /\ source' = [name |-> name, type |-> type, content |-> c, key |-> key]
  BY DEF Pack, IInv
<1>2. source'.name = name /\ source'.type = type /\ source'.content = c /\ source'.key = key
  BY <1>1
<1>3. ~ Accepted'
  <2>1. outcome' = None \/ outcome'.file = None
    BY DEF Pack, Returned
  <2> QED
    BY <2>1 DEF Accepted
<1>4. CASE Refused(name, type, c) # None
  <2>1. container' = None
    BY <1>1, <1>4 DEF Pack
  <2> QED
    BY <1>1, <1>3, <2>1 DEF IInv, AcceptedIsGenuine, AcceptedIsSafe
<1>5. CASE Refused(name, type, c) = None
  <2>1. (source \in Arguments)'
    <3>1. key \in Keys \cup {None}
      BY DEF Keys
    <3> QED
      BY <1>1, <3>1 DEF Arguments
  <2>2. Refused(source'.name, source'.type, source'.content) = None
    BY <1>2, <1>5
  <2>3. key # None => key[2] = nonce
    BY DEF Key
  <2>4. container' = Packed'
    <3> DEFINE plain == [content |-> c, gzip |-> Compresses(type, c), seal |-> {}]
               sent == IF key = None THEN plain
                       ELSE Sealed(plain, key, nonce, SafeName(name), NormalType(type))
    <3>1. container' =
            Assemble(sent, SafeName(name), NormalType(type), IF key = None THEN None ELSE nonce)
      BY <1>5 DEF Pack
    <3>2. PlainPayload' = plain
      BY <1>2 DEF PlainPayload
    <3>3. SentName' = SafeName(name) /\ SentType' = NormalType(type)
      BY <1>2 DEF SentName, SentType
    <3> HIDE DEF plain
    <3>4. Payload' = sent
      BY <1>2, <2>3, <3>2, <3>3 DEF Payload
    <3> HIDE DEF sent
    <3>5. Packed' = Assemble(sent, SafeName(name), NormalType(type),
                             IF key = None THEN None ELSE key[2])
      BY <1>2, <3>3, <3>4 DEF Packed
    <3> QED
      BY <2>3, <3>1, <3>5
  <2>5. (Packed \in [whole : BOOLEAN, header : Headers, body : Seq(BodyCells)])'
    <3>1. (Refused(source.name, source.type, source.content) = None)'
      BY <2>2
    <3>2. (source \in Arguments /\ Refused(source.name, source.type, source.content) = None)'
      BY <2>1, <3>1
    <3> QED
      BY <3>2, PackedIsTyped, PTL
  <2>6. AllButDigest'
    BY <2>4 DEF AllButDigest, H
  <2>7. PackedWell'
    BY <2>1, <2>2, <2>4, <2>5, <2>6 DEF PackedWell
  <2> QED
    BY <1>1, <1>3, <2>7 DEF IInv, AcceptedIsGenuine, AcceptedIsSafe
<1> QED
  BY <1>4, <1>5

(* What was sent does not change with the container.                       *)
LEMMA SentIsKept ==
  ASSUME source' = source
  PROVE  /\ Payload' = Payload /\ BodyCells' = BodyCells /\ Packed' = Packed
         /\ SentName' = SentName /\ SentType' = SentType
<1>1. SentName' = SentName /\ SentType' = SentType /\ PlainPayload' = PlainPayload
  BY DEF SentName, SentType, PlainPayload
<1>2. Payload' = Payload
  BY <1>1 DEF Payload
<1> QED
  BY <1>1, <1>2 DEF BodyCells, Packed

(* A field of the header keeps its type.                                   *)
LEMMA FieldKeeps ==
  ASSUME container.header \in Headers,
         NEW field \in DOMAIN container.header, NEW v \in FieldValues(field)
  PROVE  [container.header EXCEPT ![field] = v] \in Headers
<1> DEFINE h == container.header
<1>1. /\ h = [magic |-> h.magic, gzip |-> h.gzip, crypt |-> h.crypt,
              name_len |-> h.name_len, type_len |-> h.type_len,
              file_len |-> h.file_len, xmit_len |-> h.xmit_len,
              digest |-> h.digest, nonce |-> h.nonce]
      /\ h.magic \in BOOLEAN /\ h.gzip \in BOOLEAN /\ h.crypt \in BOOLEAN
      /\ h.name_len \in Nat /\ h.type_len \in Nat /\ h.file_len \in Nat /\ h.xmit_len \in Nat
      /\ h.digest \in Digests /\ h.nonce \in Nonces \cup {None}
  BY DEF Headers
<1>2. field \in {"magic", "gzip", "crypt", "name_len", "type_len", "file_len", "xmit_len",
                 "digest", "nonce"}
  BY <1>1
<1>3. \A n \in Nat : {0, n - 1, n + 1} \ {-1} \subseteq Nat
  OBVIOUS
<1>4. field \in {"magic", "gzip", "crypt"} => v \in BOOLEAN
  BY DEF FieldValues
<1>5. field \in {"name_len", "type_len", "file_len", "xmit_len"} => v \in Nat
  <2> SUFFICES ASSUME field \in {"name_len", "type_len", "file_len", "xmit_len"}
               PROVE  v \in Nat
    OBVIOUS
  <2>1. v \in {0, h[field] - 1, h[field] + 1} \ {-1}
    BY DEF FieldValues
  <2>2. h[field] \in Nat
    BY <1>1
  <2> QED
    BY <1>3, <2>1, <2>2
<1>6. field = "digest" => v \in Digests
  BY DEF FieldValues
<1>7. field = "nonce" => v \in Nonces \cup {None}
  BY DEF FieldValues
<1> HIDE DEF h
<1> DEFINE g == [h EXCEPT ![field] = v]
<1>8. h \in Headers
  BY DEF h
<1>9. g \in Headers
  <2>1. CASE field \in {"magic", "gzip", "crypt"}
    BY <1>4, <1>8, <2>1 DEF Headers
  <2>2. CASE field \in {"name_len", "type_len", "file_len", "xmit_len"}
    BY <1>5, <1>8, <2>2 DEF Headers
  <2>3. CASE field = "digest"
    BY <1>6, <1>8, <2>3 DEF Headers
  <2>4. CASE field = "nonce"
    BY <1>7, <1>8, <2>4 DEF Headers
  <2> QED
    BY <1>2, <2>1, <2>2, <2>3, <2>4
<1> QED
  BY <1>9 DEF h, g

(* A container that is changed on the way.                                 *)
LEMMA AlterKeeps ==
  ASSUME IInv, Alter
  PROVE  IInv'
<1>1. /\ container # None /\ PackedWell /\ alterations \in Nat
      /\ alterations' = alterations + 1 /\ outcome' = None /\ source' = source
  BY DEF Alter, IInv
<1>2. BodyCells' = BodyCells
  BY <1>1, SentIsKept
<1>3. container \in [whole : BOOLEAN, header : Headers, body : Seq(BodyCells)]
  BY <1>1 DEF PackedWell
<1> DEFINE Typed0(k) == k \in [whole : BOOLEAN, header : Headers, body : Seq(BodyCells)]
<1>4. container.header \in Headers /\ container.body \in Seq(BodyCells)
  BY <1>3
<1>5. ASSUME NEW h \in Headers
      PROVE  Typed0([container EXCEPT !.header = h])
  BY <1>3
<1>6. ASSUME NEW b \in Seq(BodyCells)
      PROVE  Typed0([container EXCEPT !.body = b])
  BY <1>3
<1>7. Typed0(container')
  <2>1. ASSUME NEW field \in DOMAIN container.header, NEW v \in FieldValues(field),
               container' = [container EXCEPT !.header[field] = v]
        PROVE  Typed0(container')
    <3>1. [container.header EXCEPT ![field] = v] \in Headers
      BY <1>4, FieldKeeps
    <3>2. container' = [container EXCEPT !.header = [container.header EXCEPT ![field] = v]]
      BY <2>1
    <3> HIDE DEF Typed0
    <3> QED
      BY <1>5, <3>1, <3>2
  <2>2. ASSUME NEW i \in DOMAIN container.body,
               container' = [container EXCEPT !.body[i] = <<"char", "other">>]
        PROVE  Typed0(container')
    <3>1. <<"char", "other">> \in BodyCells
      BY MetaAssumption DEF BodyCells, CharCells
    <3>2. [container.body EXCEPT ![i] = <<"char", "other">>] \in Seq(BodyCells)
      <4> DEFINE b == container.body
      <4> HIDE DEF b
      <4>1. b \in Seq(BodyCells) /\ i \in 1 .. Len(b)
        BY <1>4, Entries DEF b
      <4>2. \A d \in BodyCells : [b EXCEPT ![i] = d] \in Seq(BodyCells)
        BY <4>1, ExceptSeq
      <4> QED
        BY <3>1, <4>2 DEF b
    <3>3. container' =
            [container EXCEPT !.body = [container.body EXCEPT ![i] = <<"char", "other">>]]
      BY <2>2
    <3> HIDE DEF Typed0
    <3> QED
      BY <1>6, <3>2, <3>3
  <2>3. ASSUME NEW n \in 0 .. (Len(container.body) - 1),
               container' = [container EXCEPT !.body = SubSeq(@, 1, n)]
        PROVE  Typed0(container')
    <3>1. SubSeq(container.body, 1, n) \in Seq(BodyCells)
      <4>1. Len(container.body) \in Nat /\ n \in Nat /\ n <= Len(container.body)
        BY <1>4
      <4> QED
        BY <1>4, <4>1, SubSeqProperties
    <3>2. container' = [container EXCEPT !.body = SubSeq(container.body, 1, n)]
      BY <2>3
    <3> HIDE DEF Typed0
    <3> QED
      BY <1>6, <3>1, <3>2
  <2>4. ASSUME container' = [container EXCEPT !.whole = FALSE, !.body = <<>>]
        PROVE  Typed0(container')
    <3>1. <<>> \in Seq(BodyCells)
      OBVIOUS
    <3>2. \A b \in Seq(BodyCells) : Typed0([container EXCEPT !.whole = FALSE, !.body = b])
      BY <1>3
    <3> HIDE DEF Typed0
    <3> QED
      BY <2>4, <3>1, <3>2
  <2> QED
    BY <2>1, <2>2, <2>3, <2>4 DEF Alter
<1>8. ASSUME alterations' <= 1
      PROVE  H'.digest = source.content \/ AllButDigest'
  <2>1. container = Packed /\ H = Packed.header
    BY <1>1, <1>8 DEF PackedWell, H
  <2>2. Packed.header.digest = source.content
    BY <1>1, PackedShape DEF PackedWell
  <2>3. Packed' = Packed
    BY <1>1, SentIsKept
  <2>4. ASSUME NEW field \in DOMAIN container.header, NEW v,
               container' = [container EXCEPT !.header[field] = v]
        PROVE  H'.digest = source.content \/ AllButDigest'
    <3>1. H' = [H EXCEPT ![field] = v] /\ container'.body = container.body
      BY <1>3, <2>4 DEF H
    <3>2. H = [magic |-> H.magic, gzip |-> H.gzip, crypt |-> H.crypt,
               name_len |-> H.name_len, type_len |-> H.type_len,
               file_len |-> H.file_len, xmit_len |-> H.xmit_len,
               digest |-> H.digest, nonce |-> H.nonce]
      BY <1>4 DEF Headers, H
    <3>3. CASE field = "digest"
      <4>1. /\ H'.gzip = H.gzip /\ H'.crypt = H.crypt
            /\ H'.name_len = H.name_len /\ H'.type_len = H.type_len
        BY <3>1, <3>2, <3>3
      <4> QED
        BY <2>1, <2>3, <3>1, <4>1 DEF AllButDigest
    <3>4. CASE field # "digest"
      <4>1. H'.digest = H.digest
        BY <3>1, <3>2, <3>4
      <4> QED
        BY <2>1, <2>2, <4>1
    <3> QED
      BY <3>3, <3>4
  <2>5. ASSUME H' = H
        PROVE  H'.digest = source.content
    BY <2>1, <2>2, <2>5
  <2>6. CASE \E i \in DOMAIN container.body :
               container' = [container EXCEPT !.body[i] = <<"char", "other">>]
    BY <1>3, <2>5, <2>6 DEF H
  <2>7. CASE \E n \in 0 .. (Len(container.body) - 1) :
               container' = [container EXCEPT !.body = SubSeq(@, 1, n)]
    BY <1>3, <2>5, <2>7 DEF H
  <2>8. CASE container' = [container EXCEPT !.whole = FALSE, !.body = <<>>]
    BY <1>3, <2>5, <2>8 DEF H
  <2> QED
    BY <2>4, <2>6, <2>7, <2>8 DEF Alter
<1>9. PackedWell'
  <2>1. alterations' # 0
    BY <1>1
  <2> QED
    BY <1>1, <1>2, <1>7, <1>8, <2>1 DEF PackedWell
<1> QED
  BY <1>1, <1>9 DEF IInv, Accepted, AcceptedIsGenuine, AcceptedIsSafe

-----------------------------------------------------------------------------
(* What unpack_impl sees.                                                  *)

(* Two sequences, cut at the same place, have the same parts.            *)
LEMMA Cancel ==
  ASSUME NEW S, NEW a \in Seq(S), NEW b \in Seq(S), NEW c \in Seq(S), NEW d \in Seq(S),
         Len(a) = Len(c), a \o b = c \o d
  PROVE  a = c /\ b = d
<1>1. Len(a) \in Nat /\ Len(b) \in Nat /\ Len(c) \in Nat /\ Len(d) \in Nat
  OBVIOUS
<1>2. /\ Len(a \o b) = Len(a) + Len(b)
      /\ \A i \in 1 .. (Len(a) + Len(b)) :
           (a \o b)[i] = IF i <= Len(a) THEN a[i] ELSE b[i - Len(a)]
  BY ConcatProperties
<1>3. /\ Len(c \o d) = Len(c) + Len(d)
      /\ \A i \in 1 .. (Len(c) + Len(d)) :
           (c \o d)[i] = IF i <= Len(c) THEN c[i] ELSE d[i - Len(c)]
  BY ConcatProperties
<1> DEFINE t == a \o b
<1>4. Len(b) = Len(d)
  BY <1>1, <1>2, <1>3
<1>5. ASSUME NEW i \in 1 .. Len(a)
      PROVE  a[i] = c[i]
  <2>1. i \in 1 .. (Len(a) + Len(b)) /\ i <= Len(a)
    BY <1>1
  <2> QED
    BY <1>1, <1>2, <1>3, <1>4, <2>1
<1>6. ASSUME NEW i \in 1 .. Len(b)
      PROVE  b[i] = d[i]
  <2>1. /\ i + Len(a) \in 1 .. (Len(a) + Len(b)) /\ ~ (i + Len(a) <= Len(a))
        /\ (i + Len(a)) - Len(a) = i
    BY <1>1
  <2>2. t[i + Len(a)] = b[i]
    BY <1>2, <2>1
  <2>3. t[i + Len(a)] = d[i]
    BY <1>3, <1>4, <2>1
  <2> QED
    BY <2>2, <2>3
<1> QED
  BY <1>4, <1>5, <1>6, SeqEqual

(* If validate_layout passes, the parts are as long as the header says, and *)
(* what was sent is the only payload there can be.                         *)
LEMMA LaidOutFacts ==
  ASSUME PackedWell, LaidOut
  PROVE  /\ H \in Headers
         /\ NameBytes \in Seq(BodyCells) /\ Len(NameBytes) = H.name_len
         /\ TypeBytes \in Seq(BodyCells) /\ Len(TypeBytes) = H.type_len
         /\ Transmitted \in Seq(BodyCells) /\ Len(Transmitted) = H.xmit_len
         /\ \A p \in Parsed(Transmitted) : p = Payload /\ Transmitted = Bytes(p)
<1> DEFINE b == container.body
<1>1. H \in Headers /\ b \in Seq(BodyCells)
  BY DEF PackedWell, H
<1>2. H.name_len \in Nat /\ H.type_len \in Nat /\ H.xmit_len \in Nat
  BY <1>1 DEF Headers
<1>3. H.name_len + H.type_len + H.xmit_len = Len(b) /\ Len(b) \in Nat
  BY <1>1 DEF LaidOut, DataOffset
<1> HIDE DEF b
<1>4. NameBytes \in Seq(BodyCells) /\ Len(NameBytes) = H.name_len
  <2>1. H.name_len \in 0 .. Len(b) /\ H.name_len + 1 - 1 = H.name_len /\ 1 <= H.name_len + 1
    BY <1>2, <1>3
  <2> QED
    BY <1>1, <2>1, Part DEF NameBytes, b
<1>5. TypeBytes \in Seq(BodyCells) /\ Len(TypeBytes) = H.type_len
  <2>1. /\ H.name_len + 1 \in Nat \ {0} /\ DataOffset \in 0 .. Len(b)
        /\ DataOffset + 1 - (H.name_len + 1) = H.type_len /\ H.name_len + 1 <= DataOffset + 1
    <3>1. \A n, m, x, l \in Nat : n + m + x = l =>
            /\ n + 1 \in Nat \ {0} /\ n + m \in 0 .. l
            /\ n + m + 1 - (n + 1) = m /\ n + 1 <= n + m + 1
      OBVIOUS
    <3> QED
      BY <1>2, <1>3, <3>1 DEF DataOffset
  <2> QED
    BY <1>1, <2>1, Part DEF TypeBytes, b
<1>6. Transmitted \in Seq(BodyCells) /\ Len(Transmitted) = H.xmit_len
  <2>1. /\ DataOffset + 1 \in Nat \ {0} /\ Len(b) \in 0 .. Len(b)
        /\ Len(b) + 1 - (DataOffset + 1) = H.xmit_len /\ DataOffset + 1 <= Len(b) + 1
    BY <1>2, <1>3 DEF DataOffset
  <2> QED
    BY <1>1, <2>1, Part DEF Transmitted, b
<1>7. ASSUME NEW p \in Parsed(Transmitted)
      PROVE  p = Payload /\ Transmitted = Bytes(p)
  <2> DEFINE data == Transmitted
  <2> HIDE DEF data
  <2>1. PICK i \in DOMAIN data : data[i][1] = "data" /\ p = data[i][2]
    BY DEF Parsed, data
  <2>2. data[i] \in BodyCells
    <3>1. data \in Seq(BodyCells)
      BY <1>6 DEF data
    <3> QED
      BY <3>1
  <2>3. data[i] \notin CharCells
    BY <2>1 DEF CharCells
  <2>4. PICK n \in Nat : data[i] = <<"data", Payload, n>>
    BY <2>2, <2>3 DEF BodyCells
  <2> QED
    BY <2>1, <2>4 DEF Parsed
<1> QED
  BY <1>1, <1>4, <1>5, <1>6, <1>7

(* What was joined can be cut apart again.                               *)
LEMMA Slices ==
  ASSUME NEW S, NEW a \in Seq(S), NEW b \in Seq(S), NEW c \in Seq(S),
         NEW t, t = a \o b \o c
  PROVE  /\ SubSeq(t, 1, Len(a)) = a
         /\ SubSeq(t, Len(a) + 1, Len(a) + Len(b)) = b
         /\ SubSeq(t, Len(a) + Len(b) + 1, Len(t)) = c
         /\ Len(t) = Len(a) + Len(b) + Len(c)
<1> DEFINE ab == a \o b
<1>1. Len(a) \in Nat /\ Len(b) \in Nat /\ Len(c) \in Nat
  OBVIOUS
<1>2. /\ ab \in Seq(S) /\ Len(ab) = Len(a) + Len(b)
      /\ \A i \in 1 .. (Len(a) + Len(b)) :
           ab[i] = IF i <= Len(a) THEN a[i] ELSE b[i - Len(a)]
  BY ConcatProperties
<1>0. t = ab \o c
  OBVIOUS
<1> HIDE DEF ab
<1>3. /\ t \in Seq(S) /\ Len(t) = Len(ab) + Len(c)
      /\ \A i \in 1 .. (Len(ab) + Len(c)) :
           t[i] = IF i <= Len(ab) THEN ab[i] ELSE c[i - Len(ab)]
  <2>1. ab \in Seq(S)
    BY <1>2
  <2> QED
    BY <1>0, <2>1, ConcatProperties
<1>4. \A i \in 1 .. Len(a) : t[i] = a[i]
  <2> SUFFICES ASSUME NEW i \in 1 .. Len(a)
               PROVE  t[i] = a[i]
    OBVIOUS
  <2>1. /\ i \in 1 .. (Len(a) + Len(b)) /\ i <= Len(a) /\ i <= Len(ab)
        /\ i \in 1 .. (Len(ab) + Len(c))
    BY <1>1, <1>2
  <2> QED
    BY <1>2, <1>3, <2>1
<1>5. \A i \in 1 .. Len(b) : t[Len(a) + i] = b[i]
  <2> SUFFICES ASSUME NEW i \in 1 .. Len(b)
               PROVE  t[Len(a) + i] = b[i]
    OBVIOUS
  <2>1. /\ Len(a) + i \in 1 .. (Len(a) + Len(b)) /\ ~ (Len(a) + i <= Len(a))
        /\ Len(a) + i <= Len(ab) /\ Len(a) + i \in 1 .. (Len(ab) + Len(c))
        /\ (Len(a) + i) - Len(a) = i
    BY <1>1, <1>2
  <2>2. t[Len(a) + i] = ab[Len(a) + i]
    BY <1>3, <2>1
  <2>3. ab[Len(a) + i] = b[(Len(a) + i) - Len(a)]
    BY <1>2, <2>1
  <2> QED
    BY <2>1, <2>2, <2>3
<1>6. \A i \in 1 .. Len(c) : t[Len(ab) + i] = c[i]
  <2> SUFFICES ASSUME NEW i \in 1 .. Len(c)
               PROVE  t[Len(ab) + i] = c[i]
    OBVIOUS
  <2>1. /\ Len(ab) + i \in 1 .. (Len(ab) + Len(c)) /\ ~ (Len(ab) + i <= Len(ab))
        /\ (Len(ab) + i) - Len(ab) = i
    BY <1>1, <1>2
  <2>2. t[Len(ab) + i] = c[(Len(ab) + i) - Len(ab)]
    BY <1>3, <2>1
  <2> QED
    BY <2>1, <2>2
<1>7. SubSeq(t, 1, Len(a)) = a
  <2> DEFINE u == SubSeq(t, 1, Len(a))
  <2>1. /\ 1 \in Nat \ {0} /\ Len(a) \in 0 .. Len(t) /\ 1 <= Len(a) + 1 /\ Len(a) + 1 - 1 = Len(a)
    BY <1>1, <1>2, <1>3
  <2>2. /\ u \in Seq(S) /\ Len(u) = Len(a)
        /\ \A i \in 1 .. (Len(a) + 1 - 1) : u[i] = t[1 + i - 1]
    BY <1>3, <2>1, Part
  <2> HIDE DEF u
  <2>3. \A i \in 1 .. Len(a) : 1 + i - 1 = i
    OBVIOUS
  <2>4. \A i \in 1 .. Len(u) : u[i] = a[i]
    BY <1>4, <2>1, <2>2, <2>3
  <2>5. u = a
    BY <2>2, <2>4, SeqEqual
  <2> QED
    BY <2>5 DEF u
<1>8. SubSeq(t, Len(a) + 1, Len(a) + Len(b)) = b
  <2> DEFINE u == SubSeq(t, Len(a) + 1, Len(a) + Len(b))
  <2>1. /\ Len(a) + 1 \in Nat \ {0} /\ Len(a) + Len(b) \in 0 .. Len(t)
        /\ Len(a) + 1 <= Len(a) + Len(b) + 1 /\ Len(a) + Len(b) + 1 - (Len(a) + 1) = Len(b)
    BY <1>1, <1>2, <1>3
  <2>2. /\ u \in Seq(S) /\ Len(u) = Len(b)
        /\ \A i \in 1 .. (Len(a) + Len(b) + 1 - (Len(a) + 1)) : u[i] = t[Len(a) + 1 + i - 1]
    BY <1>3, <2>1, Part
  <2> HIDE DEF u
  <2>3. \A i \in 1 .. Len(b) : Len(a) + 1 + i - 1 = Len(a) + i
    BY <1>1
  <2>4. \A i \in 1 .. Len(u) : u[i] = b[i]
    BY <1>5, <2>1, <2>2, <2>3
  <2>5. u = b
    BY <2>2, <2>4, SeqEqual
  <2> QED
    BY <2>5 DEF u
<1>9. SubSeq(t, Len(a) + Len(b) + 1, Len(t)) = c
  <2> DEFINE u == SubSeq(t, Len(ab) + 1, Len(t))
  <2>1. /\ Len(ab) + 1 \in Nat \ {0} /\ Len(t) \in 0 .. Len(t)
        /\ Len(ab) + 1 <= Len(t) + 1 /\ Len(t) + 1 - (Len(ab) + 1) = Len(c)
    BY <1>1, <1>2, <1>3
  <2>2. /\ u \in Seq(S) /\ Len(u) = Len(c)
        /\ \A i \in 1 .. (Len(t) + 1 - (Len(ab) + 1)) : u[i] = t[Len(ab) + 1 + i - 1]
    BY <1>3, <2>1, Part
  <2> HIDE DEF u
  <2>3. \A i \in 1 .. Len(c) : Len(ab) + 1 + i - 1 = Len(ab) + i
    BY <1>1, <1>2
  <2>4. \A i \in 1 .. Len(u) : u[i] = c[i]
    BY <1>6, <2>1, <2>2, <2>3
  <2>5. u = c
    BY <2>2, <2>4, SeqEqual
  <2> QED
    BY <1>2, <2>5 DEF u
<1> QED
  BY <1>2, <1>3, <1>7, <1>8, <1>9

(* A body as it was packed, with the lengths of name and type, is cut apart *)
(* where it was joined, and the payload is found in it.                    *)
LEMMA PartsOfPacked ==
  ASSUME source \in Arguments, Refused(source.name, source.type, source.content) = None,
         container.body = Packed.body,
         H.name_len = Packed.header.name_len, H.type_len = Packed.header.type_len
  PROVE  /\ NameBytes = SentName /\ TypeBytes = SentType /\ Transmitted = Bytes(Payload)
         /\ DataOffset + PayloadLen(Payload) = Len(container.body)
         /\ Payload \in Parsed(Transmitted)
<1>1. /\ SentName \in Seq(CharCells) /\ SentType \in Seq(CharCells)
      /\ Len(SentName) \in Nat /\ Len(SentType) \in Nat
  BY PackedFacts
<1>2. /\ Packed.header.name_len = Len(SentName) /\ Packed.header.type_len = Len(SentType)
      /\ Packed.body = SentName \o SentType \o Bytes(Payload)
      /\ Bytes(Payload) \in Seq(BodyCells) /\ Len(Bytes(Payload)) = PayloadLen(Payload)
      /\ PayloadLen(Payload) \in Nat \ {0}
  BY PackedShape
<1>3. H.name_len = Len(SentName) /\ H.type_len = Len(SentType)
  BY <1>2
<1>4. /\ NameBytes = SentName /\ TypeBytes = SentType /\ Transmitted = Bytes(Payload)
      /\ DataOffset + PayloadLen(Payload) = Len(container.body)
  <2>1. SentName \in Seq(BodyCells) /\ SentType \in Seq(BodyCells)
    <3>1. CharCells \subseteq BodyCells
      BY DEF BodyCells
    <3> QED
      BY <1>1, <3>1
  <2> DEFINE t == SentName \o SentType \o Bytes(Payload)
  <2>2. /\ SubSeq(t, 1, Len(SentName)) = SentName
        /\ SubSeq(t, Len(SentName) + 1, Len(SentName) + Len(SentType)) = SentType
        /\ SubSeq(t, Len(SentName) + Len(SentType) + 1, Len(t)) = Bytes(Payload)
        /\ Len(t) = Len(SentName) + Len(SentType) + PayloadLen(Payload)
    <3>1. Bytes(Payload) \in Seq(BodyCells) /\ Len(Bytes(Payload)) = PayloadLen(Payload)
      BY <1>2
    <3> HIDE DEF t
    <3>2. t = SentName \o SentType \o Bytes(Payload)
      BY DEF t
    <3>3. PICK a \in Seq(BodyCells), b \in Seq(BodyCells), z \in Seq(BodyCells) :
            a = SentName /\ b = SentType /\ z = Bytes(Payload)
      BY <2>1, <3>1
    <3>4. t = a \o b \o z
      BY <3>2, <3>3
    <3>5. /\ SubSeq(t, 1, Len(a)) = a
          /\ SubSeq(t, Len(a) + 1, Len(a) + Len(b)) = b
          /\ SubSeq(t, Len(a) + Len(b) + 1, Len(t)) = z
          /\ Len(t) = Len(a) + Len(b) + Len(z)
      BY <3>4, Slices
    <3> QED
      BY <3>1, <3>3, <3>5
  <2>3. container.body = t
    BY <1>2
  <2> HIDE DEF t
  <2> QED
    BY <1>3, <2>2, <2>3 DEF NameBytes, TypeBytes, Transmitted, DataOffset
<1>5. Payload \in Parsed(Transmitted)
  <2> DEFINE data == Bytes(Payload)
  <2>1. data = [i \in 1 .. PayloadLen(Payload) |-> <<"data", Payload, i>>]
    BY DEF Bytes
  <2>2. 1 \in DOMAIN data /\ data[1] = <<"data", Payload, 1>>
    <3>1. 1 \in 1 .. PayloadLen(Payload)
      BY <1>2
    <3> HIDE DEF data
    <3> QED
      BY <2>1, <3>1
  <2>3. data[1][1] = "data" /\ data[1][2] = Payload
    BY <2>2
  <2> HIDE DEF data
  <2>4. Payload \in {data[i][2] : i \in {j \in DOMAIN data : data[j][1] = "data"}}
    BY <2>2, <2>3
  <2>5. Transmitted = data
    BY <1>4 DEF data
  <2>6. Transmitted = Bytes(Payload)
    BY <1>4
  <2> QED
    BY <2>4, <2>5, <2>6 DEF Parsed
<1> QED
  BY <1>4, <1>5

(* With the checks for an encrypted container passed, every field that was  *)
(* authenticated is as it was, and name and type end where they ended.      *)
LEMMA OpenedIsSent ==
  ASSUME PackedWell, NEW key, Decrypted(key), H.crypt
  PROVE  /\ NameBytes = SentName /\ TypeBytes = SentType
         /\ H.file_len = Size[source.content] /\ H.digest = source.content
         /\ source.key # None
<1>1. LaidOut
  BY DEF Decrypted, HasKey
<1>2. PICK p \in Parsed(Transmitted) : Opens(p, key)
  BY DEF Decrypted
<1>3. p = Payload
  BY <1>1, <1>2, LaidOutFacts
<1>4. /\ source \in Arguments /\ Refused(source.name, source.type, source.content) = None
  BY DEF PackedWell
<1>5. source.key # None
  <2>1. Payload.seal # {}
    BY <1>2, <1>3 DEF Opens
  <2> QED
    BY <1>4, <2>1, PackedShape
<1> DEFINE sent == Aad(PlainPayload.gzip, SentName, SentType, Size[PlainPayload.content],
                       PayloadLen(PlainPayload) + TagLen, PlainPayload.content)
           seen == Aad(H.gzip, NameBytes, TypeBytes, H.file_len, H.xmit_len, H.digest)
<1>6. Payload.seal = {[key |-> source.key, nonce |-> source.key[2], aad |-> sent]}
  BY <1>5 DEF Payload, Sealed, PlainPayload
<1>7. Payload.seal = {[key |-> key, nonce |-> H.nonce, aad |-> seen]}
  BY <1>2, <1>3 DEF Opens
<1>8. sent = seen
  <2> HIDE DEF sent, seen
  <2>1. [key |-> source.key, nonce |-> source.key[2], aad |-> sent]
          = [key |-> key, nonce |-> H.nonce, aad |-> seen]
    <3>1. \A x, y : {x} = {y} => x = y
      OBVIOUS
    <3> QED
      BY <1>6, <1>7, <3>1, Zenon
  <2> QED
    BY <2>1
<1>9. /\ Len(SentName) = Len(NameBytes) /\ Size[PlainPayload.content] = H.file_len
      /\ PlainPayload.content = H.digest /\ SentName \o SentType = NameBytes \o TypeBytes
  BY <1>8 DEF Aad
<1>10. NameBytes = SentName /\ TypeBytes = SentType
  <2>1. SentName \in Seq(CharCells) /\ SentType \in Seq(CharCells)
    BY <1>4, PackedFacts
  <2>2. SentName \in Seq(BodyCells) /\ SentType \in Seq(BodyCells)
    <3>1. CharCells \subseteq BodyCells
      BY DEF BodyCells
    <3> QED
      BY <2>1, <3>1
  <2>3. NameBytes \in Seq(BodyCells) /\ TypeBytes \in Seq(BodyCells)
    BY <1>1, LaidOutFacts
  <2> QED
    BY <1>9, <2>2, <2>3, Cancel
<1> QED
  BY <1>5, <1>9, <1>10 DEF PlainPayload

(* Without a seal, and with the digest that was packed or a single change,  *)
(* the bytes that are recovered are of the declared length and have the     *)
(* digest only if they are those that were packed.                          *)
LEMMA PlainIsSent ==
  ASSUME PackedWell, NEW key, NEW bytes \in Recovered, Genuine(key, bytes), ~ H.crypt,
         H.digest = source.content \/ alterations <= 1
  PROVE  bytes = source.content /\ Size[source.content] = H.file_len
<1>1. LaidOut /\ Inflated(key) /\ RightLength(key) /\ bytes = H.digest
  BY DEF Genuine, RightLength, Inflated, LongEnough, Decrypted, HasKey, DigestFits
<1>2. H \in Headers /\ H.crypt = FALSE /\ H.gzip \in BOOLEAN /\ H.xmit_len \in Nat
  <2>1. H \in Headers
    BY <1>1, LaidOutFacts
  <2> QED
    BY <2>1 DEF Headers
<1>3. Plain = Parsed(Transmitted) /\ PlainLen = H.xmit_len
  <2>1. H.xmit_len - 0 = H.xmit_len
    BY <1>2
  <2> QED
    BY <2>1 DEF Plain, PlainLen
<1>4. \A p \in Plain : p = Payload /\ Transmitted = Bytes(p)
  BY <1>1, <1>3, LaidOutFacts
<1>5. /\ source \in Arguments /\ Refused(source.name, source.type, source.content) = None
  BY DEF PackedWell
<1>6. /\ Payload.content = source.content /\ Payload.gzip = PlainPayload.gzip
      /\ Payload.seal # {} <=> source.key # None
      /\ Len(Bytes(Payload)) = PayloadLen(Payload)
  BY <1>5, PackedShape
<1> DEFINE known == {p.content : p \in {q \in Plain : q.seal = {} /\ q.gzip = H.gzip}}
<1>7. bytes \in (IF known # {} THEN known
                 ELSE {OtherBytes} \cup {c \in Contents : Size[c] = H.file_len})
  BY DEF Recovered
<1>8. CASE known # {}
  <2>1. PICK q \in Plain : q.seal = {} /\ q.gzip = H.gzip /\ bytes = q.content
    BY <1>7, <1>8
  <2>2. bytes = source.content
    BY <1>4, <1>6, <2>1
  <2>3. CASE H.gzip
    <3>1. q \in Gzipped
      BY <2>1, <2>3 DEF Gzipped
    <3>2. Size[q.content] = H.file_len
      BY <1>1, <2>3, <3>1 DEF Inflated, TrailerFits
    <3> QED
      BY <2>1, <2>2, <3>2
  <2>4. CASE ~ H.gzip
    <3>1. PlainLen = H.file_len
      BY <1>1, <2>4 DEF RightLength
    <3>2. Len(Transmitted) = H.xmit_len
      BY <1>1, LaidOutFacts
    <3>3. H.file_len = PayloadLen(Payload)
      BY <1>3, <1>4, <1>6, <2>1, <3>1, <3>2
    <3>4. Payload.seal = {} /\ ~ PlainPayload.gzip
      BY <1>4, <1>6, <2>1, <2>4
    <3>5. Payload = PlainPayload
      BY <1>6, <3>4 DEF Payload
    <3>6. PayloadLen(PlainPayload) = Size[source.content]
      BY <1>5, <3>4, PackedFacts
    <3> QED
      BY <2>2, <3>3, <3>5, <3>6
  <2> QED
    BY <2>3, <2>4
<1>9. CASE known = {}
  <2>1. H.digest = source.content
    <3> SUFFICES ASSUME AllButDigest
                 PROVE  FALSE
      BY DEF PackedWell
    <3>1. /\ Packed.header.gzip = Payload.gzip
          /\ Packed.header.crypt = (source.key # None)
      BY <1>5, <1>6, PackedShape
    <3>2. H.gzip = Payload.gzip /\ Payload.seal = {}
      BY <1>2, <1>6, <3>1 DEF AllButDigest
    <3>3. Payload \in Plain
      BY <1>3, <1>5, PartsOfPacked DEF AllButDigest
    <3>4. Payload.content \in known
      BY <3>2, <3>3
    <3> QED
      BY <1>9, <3>4
  <2>2. source.content \in Contents
    BY <1>5 DEF Arguments
  <2> QED
    BY <1>1, <1>7, <1>9, <2>1, <2>2, OtherAssumption
<1> QED
  BY <1>8, <1>9

(* What unpack_impl returns is what was packed.                            *)
LEMMA AcceptsKeeps ==
  ASSUME IInv, container # None, NEW key, NEW bytes \in Recovered, Accepts(key, bytes)
  PROVE  IInv'
<1>1. PackedWell
  BY DEF IInv
<1>2. Genuine(key, bytes) /\ NormalType(TypeBytes) # None
  BY DEF Accepts, Typed
<1>3. Decrypted(key) /\ LaidOut /\ bytes = H.digest
  BY <1>2 DEF Genuine, RightLength, Inflated, LongEnough, Decrypted, HasKey, DigestFits
<1>4. /\ source' = source /\ container' = container /\ alterations' = alterations
      /\ outcome' = [error |-> None,
                     file |-> [name |-> SafeName(NameBytes), type |-> NormalType(TypeBytes),
                               content |-> bytes, encrypted |-> H.crypt]]
  BY DEF Accepts, Returned
<1>5. ASSUME H.crypt \/ H.digest = source.content \/ alterations <= 1
      PROVE  bytes = source.content /\ Size[source.content] = H.file_len
  <2>1. CASE H.crypt
    BY <1>1, <1>3, <2>1, OpenedIsSent
  <2>2. CASE ~ H.crypt
    BY <1>1, <1>2, <1>5, <2>2, PlainIsSent
  <2> QED
    BY <2>1, <2>2
<1>6. ASSUME H.crypt
      PROVE  source.key # None /\ outcome'.file = Sent(TRUE)
  <2>1. NameBytes = SentName /\ TypeBytes = SentType /\ source.key # None
    BY <1>1, <1>3, <1>6, OpenedIsSent
  <2>2. H.crypt = TRUE
    <3>1. H \in Headers
      BY <1>1, <1>3, LaidOutFacts
    <3> QED
      BY <1>6, <3>1 DEF Headers
  <2> QED
    BY <1>4, <1>5, <1>6, <2>1, <2>2 DEF Sent, SentName, SentType
<1>7. H' = H /\ Sent(TRUE)' = Sent(TRUE)
  BY <1>4 DEF H, Sent
<1>8. AcceptedIsGenuine'
  <2>1. /\ H'.digest = source'.content \/ alterations' <= 1 =>
             outcome'.file.content = source'.content /\ Size[source'.content] = H'.file_len
        /\ outcome'.file.encrypted => source'.key # None /\ outcome'.file = Sent(TRUE)'
    BY <1>4, <1>5, <1>6, <1>7
  <2> QED
    BY <2>1 DEF AcceptedIsGenuine
<1>9. AcceptedIsSafe'
  <2>1. NameBytes \in Seq(BodyCells)
    BY <1>1, <1>3, LaidOutFacts
  <2>2. Safe(Chars(SafeName(NameBytes)))
    BY <2>1, BodyCellIsCell, SafeNameFacts
  <2>3. Safe(Chars(outcome'.file.name))
    BY <1>4, <2>2
  <2> QED
    BY <2>3 DEF AcceptedIsSafe
<1>10. PackedWell'
  BY <1>1, <1>4, <1>7, SentIsKept DEF PackedWell, AllButDigest
<1> QED
  BY <1>4, <1>8, <1>9, <1>10 DEF IInv

(* A call that fails returns no file.                                      *)
LEMMA FailsKeeps ==
  ASSUME IInv, NEW error, NEW reached, NEW may, Fails(error, reached, may)
  PROVE  IInv'
<1>1. /\ source' = source /\ container' = container /\ alterations' = alterations
      /\ outcome'.file = None
  BY DEF Fails, Returned
<1>2. container # None => PackedWell'
  BY <1>1, SentIsKept DEF PackedWell, AllButDigest, H, IInv
<1>3. ~ Accepted'
  BY <1>1 DEF Accepted
<1> QED
  BY <1>1, <1>2, <1>3 DEF IInv, AcceptedIsGenuine, AcceptedIsSafe

(* unpack_impl, whichever way it ends.                                   *)
LEMMA UnpackImplKeeps ==
  ASSUME IInv, container # None, NEW key, UnpackImpl(key)
  PROVE  IInv'
<1>1. CASE \E error, reached, may : Fails(error, reached, may)
  BY <1>1, FailsKeeps
<1>2. CASE \E bytes \in Recovered : Accepts(key, bytes)
  BY <1>2, AcceptsKeeps
<1> QED
  BY <1>1, <1>2 DEF UnpackImpl

(* unpack_file_with_password, whichever way it ends.                     *)
LEMMA UnpackWithPasswordKeeps ==
  ASSUME IInv, NEW password, UnpackWithPassword(password)
  PROVE  IInv'
<1>1. CASE \E error, reached, may : Fails(error, reached, may)
  BY <1>1, FailsKeeps
<1>2. CASE container # None /\ UnpackImpl(Key(password, H.nonce))
  BY <1>2, UnpackImplKeeps
<1> QED
  BY <1>1, <1>2 DEF UnpackWithPassword

-----------------------------------------------------------------------------
(* The theorems.                                                           *)

(* What pack_file keeps of its arguments, and how the container of any      *)
(* later moment relates to it: the inductive invariant.                    *)
THEOREM Invariant == Spec => []IInv
<1>1. Init => IInv
  BY DEF Init, IInv, Accepted, AcceptedIsGenuine, AcceptedIsSafe
<1>2. IInv /\ [Next]_vars => IInv'
  <2> SUFFICES ASSUME IInv, [Next]_vars
               PROVE  IInv'
    OBVIOUS
  <2>1. ASSUME NEW name \in Names, NEW type \in Types, NEW c \in Contents,
               Pack(name, type, c, None, None)
        PROVE  IInv'
    BY <2>1, PackKeeps
  <2>2. ASSUME NEW name \in Names, NEW type \in Types, NEW c \in Contents,
               NEW password \in Passwords, NEW nonce \in Nonces,
               Pack(name, type, c, Key(password, nonce), nonce)
        PROVE  IInv'
    BY <2>2, PackKeeps
  <2>3. CASE Alter
    BY <2>3, AlterKeeps
  <2>4. CASE UnpackFile
    BY <2>4, UnpackImplKeeps DEF UnpackFile
  <2>5. ASSUME NEW key \in Keys, UnpackWithKey(key)
        PROVE  IInv'
    BY <2>5, UnpackImplKeeps DEF UnpackWithKey
  <2>6. ASSUME NEW password \in Passwords, UnpackWithPassword(password)
        PROVE  IInv'
    BY <2>6, UnpackWithPasswordKeeps
  <2>7. CASE UNCHANGED vars
    <3>1. /\ source' = source /\ container' = container /\ alterations' = alterations
          /\ outcome' = outcome
      BY <2>7 DEF vars
    <3>2. container # None => PackedWell'
      BY <3>1, SentIsKept DEF PackedWell, AllButDigest, H, IInv
    <3>3. H' = H /\ Sent(TRUE)' = Sent(TRUE) /\ Accepted' = Accepted
      BY <3>1 DEF H, Sent, Accepted
    <3>4. AcceptedIsGenuine'
      BY <3>1, <3>3 DEF IInv, AcceptedIsGenuine
    <3>5. AcceptedIsSafe'
      BY <3>1, <3>3 DEF IInv, AcceptedIsSafe
    <3> QED
      BY <3>1, <3>2, <3>3, <3>4, <3>5 DEF IInv
  <2> QED
    BY <2>1, <2>2, <2>3, <2>4, <2>5, <2>6, <2>7 DEF Next
<1> QED
  BY <1>1, <1>2, PTL DEF Spec

(* Of a plain container unpack_impl accepts other bytes only if their digest *)
(* was put into the header, and after more than one change; of an encrypted *)
(* one no other bytes, name or type, whatever happened to it.              *)
THEOREM OnlyGenuineFilesAreAccepted == Spec => []AcceptedIsGenuine
<1>1. IInv => AcceptedIsGenuine
  BY DEF IInv
<1> QED
  BY <1>1, Invariant, PTL

(* The limits of prepare keep a container within that of the sender.        *)
THEOREM PackedContainersFit == Spec => []PackedFits
<1>1. IInv => PackedFits
  <2> SUFFICES ASSUME IInv, container # None, alterations = 0
               PROVE  HeaderLen + Len(container.body) <= MaxStreamBytes
    BY DEF PackedFits
  <2>1. /\ source \in Arguments /\ Refused(source.name, source.type, source.content) = None
        /\ container = Packed
    BY DEF IInv, PackedWell
  <2>2. /\ SentName \in Seq(CharCells) /\ SentType \in Seq(CharCells)
        /\ Len(SentName) \in 0 .. MaxLen /\ Len(SentType) \in 0 .. MaxLen
        /\ PayloadLen(PlainPayload) \in 1 .. MaxFileBytes
        /\ PayloadLen(Payload) =
             PayloadLen(PlainPayload) + (IF source.key = None THEN 0 ELSE TagLen)
    BY <2>1, PackedFacts
  <2>3. /\ container.body = SentName \o SentType \o Bytes(Payload)
        /\ Bytes(Payload) \in Seq(BodyCells) /\ Len(Bytes(Payload)) = PayloadLen(Payload)
    BY <2>1, PackedShape
  <2>4. Len(container.body) = Len(SentName) + Len(SentType) + PayloadLen(Payload)
    <3>1. CharCells \subseteq BodyCells
      BY DEF BodyCells
    <3>2. SentName \in Seq(BodyCells) /\ SentType \in Seq(BodyCells)
      BY <2>2, <3>1
    <3>3. /\ SentName \o SentType \in Seq(BodyCells)
          /\ Len(SentName \o SentType) = Len(SentName) + Len(SentType)
      BY <3>2, ConcatProperties
    <3> QED
      BY <2>3, <3>3, ConcatProperties
  <2>5. /\ HeaderLen \in Nat /\ TagLen \in Nat /\ MaxLen \in Nat /\ MaxFileBytes \in Nat
        /\ MaxStreamBytes \in Nat
        /\ MaxStreamBytes >= HeaderLen + 2 * MaxLen + MaxFileBytes + TagLen
    BY SizeAssumption
  <2>6. PayloadLen(Payload) <= MaxFileBytes + TagLen /\ PayloadLen(Payload) \in Nat
    BY <2>2, <2>5
  <2> QED
    BY <2>2, <2>4, <2>5, <2>6
<1> QED
  BY <1>1, Invariant, PTL

(* For strings of any length: every name that safe_file_name gives is safe. *)
THEOREM EveryNameIsSafe == Spec => []NamesAreSafe
<1>1. IInv => NamesAreSafe
  <2>1. \A s \in NameStrings : Safe(SafeFileName(s))
    BY NameIsSafe, StringAssumption
  <2> QED
    BY <2>1 DEF IInv, NamesAreSafe, AcceptedIsSafe
<1> QED
  BY <1>1, Invariant, PTL

(* For strings of any length: cleaning twice is cleaning once.              *)
THEOREM MetadataIsKept == Spec => []MetadataSurvives
<1>1. ASSUME NEW s \in NameStrings
      PROVE  /\ Safe(s) /\ Trim(s) = s => SafeFileName(s) = s
             /\ ToSet(s) \cap White \subseteq {" "} =>
                  SafeFileName(SafeFileName(s)) = SafeFileName(s)
  <2>1. s \in Seq(Characters)
    BY StringAssumption
  <2>2. ASSUME Safe(s), Trim(s) = s
        PROVE  SafeFileName(s) = s
    <3>1. s # <<>>
      BY <2>2 DEF Safe
    <3>2. s[1] \notin White /\ s[Len(s)] \notin White
      BY <2>1, <2>2, <3>1, TrimFacts
    <3> QED
      BY <2>1, <2>2, <3>2, SafeNameIsKept
  <2>3. ASSUME ToSet(s) \cap White \subseteq {" "}
        PROVE  SafeFileName(SafeFileName(s)) = SafeFileName(s)
    <3> DEFINE t == SafeFileName(s)
    <3>1. t \in Seq(Characters) /\ Safe(t) /\ t[1] \notin White /\ t[Len(t)] \notin White
      BY <2>1, <2>3, NameIsSafe
    <3> HIDE DEF t
    <3>2. SafeFileName(t) = t
      BY <3>1, SafeNameIsKept
    <3> QED
      BY <3>2 DEF t
  <2> QED
    BY <2>2, <2>3
<1>2. ASSUME NEW s \in TypeStrings, NormalizeMimeType(s) # Refuse
      PROVE  NormalizeMimeType(NormalizeMimeType(s)) = NormalizeMimeType(s)
  BY <1>2, TypeFacts, StringAssumption
<1>3. MetadataSurvives
  BY <1>1, <1>2 DEF MetadataSurvives
<1> QED
  BY <1>3, PTL

-----------------------------------------------------------------------------
(* The round trip.                                                         *)

(* A container as it was packed, given the key it was sealed with: every    *)
(* check of unpack_impl passes, and there is one file it may find.          *)
LEMMA PackedOpens ==
  ASSUME PackedWell, container = Packed, NEW key, source.key # None => key = source.key
  PROVE  /\ Recognized /\ LaidOut /\ HasKey(key) /\ Decrypted(key) /\ LongEnough(key)
         /\ ~ TrailerMayMiss /\ Inflated(key) /\ ~ InflateMayFail /\ RightLength(key)
         /\ Recovered = {source.content} /\ DigestFits(source.content)
         /\ Typed(key, source.content)
         /\ H.crypt = (source.key # None) /\ H.nonce = Nonce
         /\ NameBytes = SentName /\ TypeBytes = SentType
<1> DEFINE c == source.content
           secret == source.key # None
           plain == PlainPayload
<1>1. source \in Arguments /\ Refused(source.name, source.type, source.content) = None
  BY DEF PackedWell
<1>2. /\ SentName \in Seq(CharCells) /\ SentType \in Seq(CharCells)
      /\ Len(SentName) \in Nat /\ Len(SentType) \in Nat
      /\ SentType # None /\ NormalType(SentType) = SentType
      /\ Size[c] \in 1 .. MaxFileBytes /\ PayloadLen(plain) \in 1 .. MaxFileBytes
      /\ plain.gzip => PayloadLen(plain) >= GzipMinLen
      /\ ~ plain.gzip => PayloadLen(plain) = Size[c]
      /\ PayloadLen(Payload) = PayloadLen(plain) + (IF source.key = None THEN 0 ELSE TagLen)
  BY <1>1, PackedFacts
<1>3. /\ Packed.whole
      /\ Packed.header =
           [magic |-> TRUE, gzip |-> plain.gzip, crypt |-> secret,
            name_len |-> Len(SentName), type_len |-> Len(SentType),
            file_len |-> Size[c], xmit_len |-> PayloadLen(Payload),
            digest |-> c, nonce |-> Nonce]
      /\ Packed.body = SentName \o SentType \o Bytes(Payload)
      /\ Bytes(Payload) \in Seq(BodyCells) /\ Len(Bytes(Payload)) = PayloadLen(Payload)
      /\ PayloadLen(Payload) \in Nat \ {0}
      /\ Payload.content = c /\ Payload.gzip = plain.gzip
      /\ Payload.seal # {} <=> secret
  BY <1>1, PackedShape
<1>4. plain.content = c /\ plain.seal = {} /\ plain.gzip \in BOOLEAN
  BY DEF PlainPayload, Compresses
<1>5. /\ H.magic = TRUE /\ H.gzip = plain.gzip /\ H.crypt = secret
      /\ H.name_len = Len(SentName) /\ H.type_len = Len(SentType)
      /\ H.file_len = Size[c] /\ H.xmit_len = PayloadLen(Payload)
      /\ H.digest = c /\ H.nonce = Nonce
  BY <1>3 DEF H
<1>6. TagLen \in Nat /\ MaxFileBytes \in Nat /\ GzipMinLen \in Nat
  BY SizeAssumption, GzipAssumption
<1> HIDE DEF plain, secret, c
<1>7. /\ NameBytes = SentName /\ TypeBytes = SentType /\ Transmitted = Bytes(Payload)
      /\ DataOffset + H.xmit_len = Len(container.body)
      /\ Payload \in Parsed(Transmitted)
  BY <1>1, <1>5, PartsOfPacked DEF H
<1>8. Readable /\ Recognized
  BY <1>3, <1>5 DEF Readable, Recognized
<1>9. LaidOut
  <2>1. PayloadLen(Payload) \in 1 .. (MaxFileBytes + IF secret THEN TagLen ELSE 0)
    BY <1>2, <1>6 DEF secret
  <2> QED
    BY <1>2, <1>5, <1>7, <1>8, <2>1 DEF LaidOut
<1>10. HasKey(key)
  BY <1>5, <1>9 DEF HasKey, secret
<1>11. Parsed(Transmitted) = {Payload}
  <2>1. \A p \in Parsed(Transmitted) : p = Payload
    BY <1>9, LaidOutFacts
  <2> QED
    BY <1>7, <2>1
<1>12. secret => Opens(Payload, key)
  <2> SUFFICES ASSUME secret
               PROVE  Opens(Payload, key)
    OBVIOUS
  <2>1. Payload = Sealed(plain, source.key, source.key[2], SentName, SentType)
    BY DEF Payload, plain, secret
  <2>2. Payload.seal = {[key |-> source.key, nonce |-> source.key[2],
          aad |-> Aad(plain.gzip, SentName, SentType, Size[c], PayloadLen(plain) + TagLen, c)]}
    BY <1>4, <2>1 DEF Sealed, plain, PlainPayload
  <2>3. /\ key = source.key /\ H.nonce = source.key[2]
        /\ PayloadLen(plain) + TagLen = H.xmit_len
    BY <1>2, <1>5 DEF secret, Nonce
  <2> QED
    BY <1>5, <1>7, <2>2, <2>3 DEF Opens
<1>13. Decrypted(key)
  BY <1>5, <1>10, <1>11, <1>12 DEF Decrypted
<1>14. Plain = {plain}
  <2>1. CASE secret
    <3>1. Payload = Sealed(plain, source.key, source.key[2], SentName, SentType)
      BY <2>1 DEF Payload, plain, secret
    <3>2. PICK x : Payload = [plain EXCEPT !.seal = x]
      BY <3>1 DEF Sealed
    <3>3. plain = [content |-> plain.content, gzip |-> plain.gzip, seal |-> {}]
      BY DEF plain, PlainPayload
    <3>4. [[plain EXCEPT !.seal = x] EXCEPT !.seal = {}] = plain
      <4> DEFINE sealed == [plain EXCEPT !.seal = x]
      <4>1. sealed = [content |-> plain.content, gzip |-> plain.gzip, seal |-> x]
        BY <3>3
      <4> HIDE DEF sealed
      <4>2. [sealed EXCEPT !.seal = {}]
              = [content |-> plain.content, gzip |-> plain.gzip, seal |-> {}]
        BY <4>1
      <4> QED
        BY <3>3, <4>2 DEF sealed
    <3>5. [Payload EXCEPT !.seal = {}] = plain
      BY <3>2, <3>4
    <3>6. {[p EXCEPT !.seal = {}] : p \in {Payload}} = {[Payload EXCEPT !.seal = {}]}
      OBVIOUS
    <3>7. Plain = {[p EXCEPT !.seal = {}] : p \in {Payload}}
      BY <1>5, <1>11, <2>1 DEF Plain
    <3> QED
      BY <3>5, <3>6, <3>7
  <2>2. CASE ~ secret
    <3>1. Payload = plain
      BY <2>2 DEF Payload, plain, secret
    <3> QED
      BY <1>5, <1>11, <2>2, <3>1 DEF Plain
  <2> QED
    BY <2>1, <2>2
<1>15. PlainLen = PayloadLen(plain)
  <2>1. PayloadLen(plain) \in Nat
    BY <1>2, <1>6
  <2>2. PayloadLen(Payload) = PayloadLen(plain) + (IF secret THEN TagLen ELSE 0)
    BY <1>2 DEF secret
  <2>3. PlainLen = PayloadLen(Payload) - (IF secret THEN TagLen ELSE 0)
    BY <1>5 DEF PlainLen
  <2> QED
    BY <1>6, <2>1, <2>2, <2>3
<1>16. LongEnough(key)
  BY <1>2, <1>5, <1>13, <1>15 DEF LongEnough
<1>17. /\ Gzipped = {p \in {plain} : p.gzip}
       /\ TrailerFits
  BY <1>4, <1>5, <1>14 DEF Gzipped, TrailerFits
<1>18. ~ TrailerMayMiss /\ ~ InflateMayFail /\ Inflated(key)
  BY <1>5, <1>16, <1>17 DEF TrailerMayMiss, InflateMayFail, Inflated
<1>19. RightLength(key)
  BY <1>2, <1>5, <1>15, <1>18 DEF RightLength
<1>20. Recovered = {c}
  <2> DEFINE known == {p.content : p \in {q \in Plain : q.seal = {} /\ q.gzip = H.gzip}}
  <2>1. known = {c}
    BY <1>4, <1>5, <1>14
  <2> QED
    BY <2>1 DEF Recovered
<1>21. DigestFits(c)
  <2>1. c \in Contents
    BY <1>1 DEF Arguments, c
  <2> QED
    BY <1>5, <2>1 DEF DigestFits
<1>22. Typed(key, c)
  BY <1>2, <1>7, <1>19, <1>21 DEF Typed, Genuine
<1> QED
  BY <1>5, <1>7, <1>8, <1>9, <1>10, <1>13, <1>16, <1>18, <1>19, <1>20, <1>21, <1>22
     DEF c, secret

(* unpack_impl of what was packed, with the right key, returns the file. *)
LEMMA UnpackImplReturns ==
  ASSUME PackedWell, container = Packed, NEW key, source.key # None => key = source.key,
         UnpackImpl(key)
  PROVE  outcome'.error = None /\ outcome'.file = Sent(source.key # None)
<1>1. /\ Recognized /\ LaidOut /\ HasKey(key) /\ Decrypted(key) /\ LongEnough(key)
      /\ ~ TrailerMayMiss /\ ~ InflateMayFail /\ RightLength(key)
      /\ Recovered = {source.content} /\ DigestFits(source.content)
      /\ Typed(key, source.content)
      /\ H.crypt = (source.key # None)
      /\ NameBytes = SentName /\ TypeBytes = SentType
  BY PackedOpens
<1>2. Readable
  BY <1>1 DEF Recognized
<1>3. Accepts(key, source.content)
  <2>1. source.content \in Contents
    BY DEF PackedWell, Arguments
  <2>2. ~ DigestMayMiss(source.content)
    BY <1>1, <2>1, OtherAssumption DEF DigestMayMiss, DigestFits
  <2> QED
    BY <1>1, <1>2, <2>2 DEF UnpackImpl, Fails
<1>4. outcome' = [error |-> None,
                  file |-> [name |-> SafeName(NameBytes), type |-> NormalType(TypeBytes),
                            content |-> source.content, encrypted |-> H.crypt]]
  BY <1>3 DEF Accepts, Returned
<1> QED
  BY <1>1, <1>4 DEF Sent, SentName, SentType

(* Whatever pack_file or pack_file_encrypted makes of any file, with any     *)
(* name, type and key, opens and gives the file.                           *)
THEOREM WhatIsPackedOpens == Spec => RoundTrip
<1>1. ASSUME IInv, container # None, alterations = 0, Unpack
      PROVE  outcome'.error = None /\ outcome'.file = Sent(source.key # None)
  <2>1. PackedWell /\ container = Packed
    BY <1>1 DEF IInv, PackedWell
  <2>2. CASE source.key = None /\ UnpackFile
    BY <2>1, <2>2, UnpackImplReturns DEF UnpackFile
  <2>3. CASE source.key # None /\ UnpackWithKey(source.key)
    BY <2>1, <2>3, UnpackImplReturns DEF UnpackWithKey
  <2>4. ASSUME NEW password \in Passwords, NEW nonce \in Nonces,
               source.key = Key(password, nonce), UnpackWithPassword(password)
        PROVE  outcome'.error = None /\ outcome'.file = Sent(source.key # None)
    <3>1. source.key # None
      BY <2>4, NoneAssumption DEF Key
    <3>2. /\ Recognized /\ LaidOut /\ H.crypt = (source.key # None) /\ H.nonce = Nonce
      BY <2>1, PackedOpens
    <3>3. H.crypt /\ Readable
      BY <3>1, <3>2 DEF Recognized
    <3>4. UnpackImpl(Key(password, H.nonce))
      BY <2>4, <3>2, <3>3 DEF UnpackWithPassword, Fails
    <3>5. Key(password, H.nonce) = source.key
      BY <2>4, <3>1, <3>2 DEF Nonce, Key
    <3> QED
      BY <2>1, <3>4, <3>5, UnpackImplReturns
  <2> QED
    BY <1>1, <2>2, <2>3, <2>4 DEF Unpack
<1>2. IInv => [container # None /\ alterations = 0 /\ Unpack
               => /\ outcome'.error = None
                  /\ outcome'.file = Sent(source.key # None)]_vars
  BY <1>1
<1> QED
  BY <1>2, Invariant, PTL DEF RoundTrip
=============================================================================
