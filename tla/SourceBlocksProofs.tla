------------------------- MODULE SourceBlocksProofs -------------------------
(* The size arithmetic of capacity.rs, and the way of a payload into blocks *)
(* and back, for every size and every limit.                                *)
EXTENDS SourceBlocks, WellFoundedInduction, TLAPS

-----------------------------------------------------------------------------
(* Arithmetic.                                                             *)

\* div_ceil is the least number of blocks that hold a bytes.
LEMMA CeilBound ==
  ASSUME NEW a \in Nat, NEW c \in Nat \ {0}, NEW m \in Nat
  PROVE  /\ DivCeil(a, c) \in Nat
         /\ DivCeil(a, c) <= m <=> a <= m * c
<1> DEFINE q == DivCeil(a, c)
<1>1. /\ q \in Nat
      /\ q * c <= a + c - 1
      /\ a + c - 1 < (q * c) + c
  BY DEF DivCeil
<1>2. ASSUME q <= m
      PROVE  a <= m * c
  <2>1. q * c <= m * c
    BY <1>1, <1>2
  <2> QED
    BY <1>1, <2>1
<1>3. ASSUME a <= m * c, ~ (q <= m)
      PROVE  FALSE
  <2>1. q >= m + 1
    BY <1>1, <1>3
  <2>2. q * c >= (m + 1) * c
    BY <1>1, <2>1
  <2>3. (m + 1) * c = (m * c) + c
    OBVIOUS
  <2> QED
    BY <1>1, <1>3, <2>2, <2>3
<1> QED
  BY <1>1, <1>2, <1>3

\* There is a block if and only if there is a byte.
LEMMA CeilPositive ==
  ASSUME NEW a \in Nat, NEW c \in Nat \ {0}
  PROVE  DivCeil(a, c) >= 1 <=> a > 0
<1>1. DivCeil(a, c) <= 0 <=> a <= 0 * c
  BY CeilBound
<1> QED
  BY <1>1, CeilBound

\* A set of numbers that is not empty has a least one.
LEMMA LeastExists ==
  ASSUME NEW T, T \subseteq Nat, T # {}
  PROVE  \E x \in T : \A y \in T : x <= y
<1>1. PICK x \in T : \A y \in T : ~ (<<y, x>> \in OpToRel(<, Nat))
  BY WFMin, NatLessThanWellFounded
<1>2. \A y \in T : ~ (y < x)
  BY <1>1 DEF OpToRel
<1> QED
  BY <1>2

\* An offset in an array of rows of c cells lies in one row only.
LEMMA OneRow ==
  ASSUME NEW c \in Nat \ {0}, NEW x \in Nat, NEW y \in Nat,
         NEW j \in 0 .. c - 1, (x * c) + j >= y * c, (x * c) + j < (y * c) + c
  PROVE  x = y
<1>1. ((x * c) + j) \div c = x
  BY SMTT(30)
<1>2. \E i \in 0 .. c - 1 : (x * c) + j = (y * c) + i
  <2>1. ((x * c) + j) - (y * c) \in 0 .. c - 1
    OBVIOUS
  <2> QED
    BY <2>1
<1>3. \A i \in 0 .. c - 1 : ((y * c) + i) \div c = y
  BY SMTT(30)
<1> QED
  BY <1>1, <1>2, <1>3

\* The row of a block ends within the rows of all blocks.
LEMMA RowFits ==
  ASSUME NEW c \in Nat, NEW x \in Nat, NEW m \in Nat, x < m
  PROVE  (x * c) + c <= m * c
<1>1. (x + 1) * c <= m * c
  OBVIOUS
<1> QED
  BY <1>1

-----------------------------------------------------------------------------
(* capacity.rs.                                                            *)

\* A payload fits in a stream exactly when the frame is at least
\* minimum_frame_bytes long and a legal frame.
THEOREM MinimumIsExact ==
  ASSUME NEW payload \in Nat \ {0}, NEW frame \in Nat
  PROVE  FitsInOneStream(payload, frame)
           <=> frame >= MinimumFrameBytes(payload) /\ BlockLength(frame) # 0
<1> USE CapacityAssumption
<1> DEFINE c == BlockLength(frame)
<1>1. c \in Nat /\ (c # 0 => c = frame - HeaderLen)
  BY DEF BlockLength
<1>2. ASSUME c # 0
      PROVE  FitsInOneStream(payload, frame) <=> payload <= MaxU16 * c
  <2>1. c \in Nat \ {0} /\ MaxU16 \in Nat
    BY <1>1, <1>2
  <2>2. /\ DivCeil(payload, c) \in Nat /\ DivCeil(payload, c) >= 1
        /\ DivCeil(payload, c) <= MaxU16 <=> payload <= MaxU16 * c
    <3>1. /\ DivCeil(payload, c) \in Nat
          /\ DivCeil(payload, c) <= MaxU16 <=> payload <= MaxU16 * c
      BY <2>1, CeilBound
    <3>2. DivCeil(payload, c) >= 1 <=> payload > 0
      BY <2>1, CeilPositive
    <3> QED
      BY <3>1, <3>2
  <2>3. DivCeil(payload, c) \in 1 .. MaxU16 <=> DivCeil(payload, c) <= MaxU16
    BY <2>1, <2>2
  <2> QED
    BY <1>2, <2>2, <2>3 DEF FitsInOneStream, SourceBlockCount
<1>3. DivCeil(payload, MaxU16) \in Nat /\ DivCeil(payload, MaxU16) >= 1
  BY CeilBound, CeilPositive
<1>4. MinimumFrameBytes(payload) = DivCeil(payload, MaxU16) + HeaderLen
  BY <1>3 DEF MinimumFrameBytes
<1>5. ASSUME c # 0
      PROVE  frame >= MinimumFrameBytes(payload) <=> payload <= c * MaxU16
  <2>1. DivCeil(payload, MaxU16) <= c <=> payload <= c * MaxU16
    BY <1>1, CeilBound
  <2> QED
    BY <2>1, <1>1, <1>3, <1>4, <1>5
<1>6. c * MaxU16 = MaxU16 * c
  BY <1>1
<1> QED
  BY <1>2, <1>5, <1>6 DEF FitsInOneStream

\* The constructor of Sender takes a frame size exactly when the payload fits.
LEMMA AcceptedFits ==
  ASSUME NEW payload \in 1 .. MaxStreamBytes, NEW frame \in Nat
  PROVE  SenderChecks(payload, BlockLength(frame)) <=> FitsInOneStream(payload, frame)
<1> USE CapacityAssumption
<1> DEFINE c == BlockLength(frame)
<1>1. c \in Nat /\ (c # 0 => c \in 1 .. MaxU16)
  BY DEF BlockLength
<1>2. c # 0 => BlockLength(c + HeaderLen) = c
  BY <1>1 DEF BlockLength
<1>3. c # 0 => (FitsInOneStream(payload, c + HeaderLen) <=> FitsInOneStream(payload, frame))
  BY <1>2 DEF FitsInOneStream, SourceBlockCount
<1> QED
  BY <1>1, <1>3 DEF SenderChecks, FitsInOneStream

\* smallest_sufficient_frame_size chooses the least frame the sender accepts,
\* for every payload and every set of frame sizes.
LEMMA SmallestLemma ==
  ASSUME NEW payload \in 1 .. MaxStreamBytes, NEW options \in SUBSET Nat
  PROVE  LET accepted == {f \in options : SenderChecks(payload, BlockLength(f))}
             chosen == SmallestSufficient(payload, options)
         IN IF accepted = {} THEN chosen = 0
            ELSE chosen \in accepted /\ \A f \in accepted : chosen <= f
<1> DEFINE accepted == {f \in options : SenderChecks(payload, BlockLength(f))}
<1> DEFINE candidates == Candidates(payload, options)
<1>1. payload \in Nat \ {0}
  BY CapacityAssumption
<1>2. \A f \in options : SenderChecks(payload, BlockLength(f))
                           <=> f >= MinimumFrameBytes(payload) /\ BlockLength(f) # 0
  BY <1>1, AcceptedFits, MinimumIsExact
<1>3. accepted = candidates
  BY <1>2 DEF Candidates
<1>4. candidates \subseteq Nat
  BY DEF Candidates
<1>5. ASSUME candidates # {}
      PROVE  /\ SmallestSufficient(payload, options) \in candidates
             /\ \A f \in candidates : SmallestSufficient(payload, options) <= f
  BY <1>4, <1>5, LeastExists DEF SmallestSufficient
<1>6. candidates = {} => SmallestSufficient(payload, options) = 0
  BY DEF SmallestSufficient
<1> QED
  BY <1>3, <1>5, <1>6

-----------------------------------------------------------------------------
(* The way of a payload.                                                   *)

Busy == {"split", "assemble", "done", "rejected"}

\* The sender was built, with the right number of blocks.
Accepted ==
  pc \in Busy =>
    /\ len \in 1 .. MaxStreamBytes /\ block_len \in 1 .. MaxU16
    /\ k = DivCeil(len, block_len) /\ k \in 1 .. MaxU16

\* The blocks before b are in the arena, and nothing else; then all of them.
Filled ==
  pc \in {"split", "assemble", "done"} =>
    \A x \in 0 .. k - 1, j \in 0 .. Width - 1 :
      arena[(x * Width) + j] =
        IF (pc = "split" => x < b) /\ j < block_len /\ (x * block_len) + j < len
        THEN (x * block_len) + j + 1 ELSE 0

\* The blocks before b are in the result.
Copied ==
  pc \in {"assemble", "done"} =>
    \A x \in 0 .. k - 1, j \in 0 .. block_len - 1 :
      x < b /\ (x * block_len) + j < len => out[(x * block_len) + j] = (x * block_len) + j + 1

Domains ==
  /\ pc \in {"construct", "refused"} \cup Busy
  /\ len \in Nat /\ block_len \in 0 .. MaxU16 /\ k \in 0 .. MaxU16 /\ b \in 0 .. k
  /\ pc = "construct" => b = 0
  /\ pc = "split" => \E F \in [0 .. (k * Width) - 1 -> Nat] : arena = F
  /\ pc \in {"assemble", "done"} =>
       DOMAIN out = 0 .. len - 1 /\ out = [i \in 0 .. len - 1 |-> out[i]]
  /\ pc = "done" => b = k

IInv == Domains /\ Accepted /\ Filled /\ Copied /\ SendersAreAdmitted

\* What holds of the sizes once the sender is built.
LEMMA Sizes ==
  ASSUME Domains, Accepted, pc \in Busy
  PROVE  /\ len \in Nat \ {0} /\ block_len \in Nat \ {0} /\ k \in Nat \ {0} /\ b \in 0 .. k
         /\ Width \in Nat /\ block_len <= Width
         /\ len <= k * block_len
         /\ \A x \in 0 .. k - 1 : x * block_len < len
<1> USE CapacityAssumption, SourceBlocksAssumption
<1>1. len \in Nat \ {0} /\ block_len \in Nat \ {0} /\ k \in Nat \ {0} /\ b \in 0 .. k
  BY DEF Domains, Accepted
<1>2. /\ DivCeil(block_len, WordBytes) \in Nat
      /\ block_len <= DivCeil(block_len, WordBytes) * WordBytes
  BY <1>1, CeilBound
<1>3. Width \in Nat /\ block_len <= Width
  BY <1>2 DEF Width
<1>4. len <= k * block_len
  BY <1>1, CeilBound DEF Accepted
<1>5. ASSUME NEW x \in 0 .. k - 1
      PROVE  x * block_len < len
  <2>1. ~ (DivCeil(len, block_len) <= x) /\ x \in Nat
    BY <1>1 DEF Accepted
  <2>2. ~ (len <= x * block_len)
    BY <1>1, <2>1, CeilBound
  <2> QED
    BY <1>1, <2>1, <2>2
<1> QED
  BY <1>1, <1>3, <1>4, <1>5

\* The constructor's conditions are those of the decoder, in any integers.
LEMMA AdmittedLemma ==
  ASSUME Domains, Accepted, pc \in Busy
  PROVE  Admitted /\ HeaderTotalLen = len
<1> USE CapacityAssumption, SourceBlocksAssumption
<1>1. /\ len \in 1 .. MaxStreamBytes /\ block_len \in 1 .. MaxU16
      /\ k = DivCeil(len, block_len) /\ k \in 1 .. MaxU16
  BY DEF Accepted
<1>2. HeaderK = k /\ HeaderBlockLen = block_len /\ HeaderTotalLen = len
  BY <1>1 DEF HeaderK, HeaderBlockLen, HeaderTotalLen
<1> QED
  BY <1>1, <1>2 DEF Admitted, WithinMaximum, DecoderChecks

\* The lengths that a constructor is called with.
LEMMA InitInv ==
  ASSUME Init
  PROVE  IInv
<1> USE CapacityAssumption, SourceBlocksAssumption
<1>1. block_len \in 0 .. MaxU16
  BY DEF Init, BlockLength
<1> QED
  BY <1>1 DEF Init, IInv, Domains, Busy, Accepted, Filled, Copied, SendersAreAdmitted

\* The constructor, whether it accepts or refuses its lengths.
LEMMA ConstructStep ==
  ASSUME IInv, Construct
  PROVE  IInv'
<1> USE CapacityAssumption, SourceBlocksAssumption
<1>1. CASE SenderChecks(len, block_len) /\ EncoderChecks(len, block_len)
  <2>1. /\ k' = DivCeil(len, block_len) /\ pc' = "split"
        /\ len' = len /\ block_len' = block_len /\ b' = 0 /\ b = 0
        /\ arena' = [i \in 0 .. (k' * Width) - 1 |-> 0]
    BY <1>1 DEF Construct, IInv, Domains
  <2>2. /\ len \in 1 .. MaxStreamBytes /\ block_len \in 1 .. MaxU16
        /\ k' \in 1 .. MaxU16
    BY <1>1, <2>1 DEF EncoderChecks, IInv, Domains
  <2>3. Width' = Width
    BY <2>1 DEF Width
  <2>4. Width \in Nat
    BY <2>2, CeilBound DEF Width
  <2>5. Accepted'
    BY <2>1, <2>2 DEF Accepted
  <2>6. Domains'
    BY <2>1, <2>2, <2>3 DEF Domains, Busy
  <2>7. Filled'
    <3>0. PICK m \in Nat : k' = m
      BY <2>2
    <3>1. ASSUME NEW x \in 0 .. m - 1, NEW j \in 0 .. Width - 1
          PROVE  arena'[(x * Width) + j] = 0
      <4>1. (x * Width) + Width <= m * Width
        BY <2>4, RowFits
      <4>2. x * Width \in Nat
        BY <2>4
      <4>3. (x * Width) + j \in 0 .. (m * Width) - 1
        BY <4>1, <4>2, <2>4
      <4> QED
        BY <2>1, <3>0, <4>3
    <3>2. \A x \in 0 .. k' - 1 : ~ (x < b')
      BY <2>1
    <3> QED
      BY <2>1, <2>3, <3>0, <3>1, <3>2 DEF Filled
  <2>8. Copied' /\ SendersAreAdmitted'
    BY <2>1 DEF Copied, SendersAreAdmitted
  <2> QED
    BY <2>5, <2>6, <2>7, <2>8 DEF IInv
<1>2. CASE ~ (SenderChecks(len, block_len) /\ EncoderChecks(len, block_len))
  BY <1>2 DEF Construct, IInv, Domains, Busy, Accepted, Filled, Copied, SendersAreAdmitted
<1> QED
  BY <1>1, <1>2

\* One block more is in its row, padded with zeroes.
LEMMA SplitStep ==
  ASSUME IInv, Split
  PROVE  IInv'
<1> USE CapacityAssumption, SourceBlocksAssumption
<1>1. /\ pc = "split" /\ pc' = pc /\ b < k /\ b' = b + 1
      /\ len' = len /\ block_len' = block_len /\ k' = k
      /\ arena' = [i \in DOMAIN arena |->
           IF i \in b * Width .. (b * Width) + (End - Start) - 1
           THEN Start + (i - (b * Width)) + 1 ELSE arena[i]]
  BY DEF Split
<1>2. /\ len \in Nat \ {0} /\ block_len \in Nat \ {0} /\ k \in Nat \ {0} /\ b \in 0 .. k
      /\ Width \in Nat /\ block_len <= Width
      /\ \A x \in 0 .. k - 1 : x * block_len < len
  BY <1>1, Sizes DEF IInv, Busy
<1>3. Width' = Width
  BY <1>1 DEF Width
<1>4. DOMAIN arena = 0 .. (k * Width) - 1 /\ \A i \in DOMAIN arena : arena[i] \in Nat
  BY <1>1 DEF IInv, Domains
<1>5. Start \in Nat /\ Start < len
  BY <1>1, <1>2 DEF Start
<1>6. /\ End \in Nat /\ End - Start \in 1 .. block_len
      /\ \A j \in 0 .. block_len - 1 : j < End - Start <=> Start + j < len
  BY <1>2, <1>5 DEF End
<1>7. Domains'
  <2>1. b * Width \in Nat
    BY <1>1, <1>2
  <2>2. arena' \in [0 .. (k * Width) - 1 -> Nat]
    BY <1>1, <1>4, <1>5, <2>1
  <2>3. b' \in 0 .. k'
    BY <1>1, <1>2
  <2> QED
    BY <1>1, <1>3, <2>2, <2>3 DEF IInv, Domains
<1>8. ASSUME NEW x \in 0 .. k - 1, NEW j \in 0 .. Width - 1
      PROVE  arena'[(x * Width) + j] =
               IF x < b + 1 /\ j < block_len /\ (x * block_len) + j < len
               THEN (x * block_len) + j + 1 ELSE 0
  <2> DEFINE i == (x * Width) + j
  <2>1. (x * Width) + Width <= k * Width
    BY <1>2, RowFits
  <2>2. i \in DOMAIN arena
    BY <2>1, <1>2, <1>4
  <2>3. arena[i] = IF x < b /\ j < block_len /\ (x * block_len) + j < len
                   THEN (x * block_len) + j + 1 ELSE 0
    BY <1>1 DEF IInv, Filled
  <2>4. CASE x = b
    <3>1. i \in b * Width .. (b * Width) + (End - Start) - 1 <=> j < End - Start
      BY <1>2, <1>6, <2>4
    <3>2. i - (b * Width) = j /\ Start = x * block_len
      BY <1>2, <2>4 DEF Start
    <3>3. x < b + 1 /\ ~ (x < b)
      BY <1>2, <2>4
    <3>4. j < End - Start <=> j < block_len /\ (x * block_len) + j < len
      BY <1>2, <1>5, <1>6, <3>2
    <3>5. arena'[i] = IF j < End - Start THEN (x * block_len) + j + 1 ELSE 0
      BY <1>1, <1>2, <2>2, <2>3, <3>1, <3>2, <3>3
    <3> QED
      BY <3>3, <3>4, <3>5
  <2>5. CASE x # b
    <3>1. i \notin b * Width .. (b * Width) + (End - Start) - 1
      <4>1. SUFFICES ASSUME i >= b * Width, i < (b * Width) + Width
                     PROVE  FALSE
        BY <1>2, <1>5, <1>6
      <4>2. Width \in Nat \ {0} /\ x \in Nat /\ b \in Nat
        BY <1>2
      <4> QED
        BY <2>5, <4>1, <4>2, OneRow
    <3>2. x < b + 1 <=> x < b
      BY <1>2, <2>5
    <3> QED
      BY <1>1, <2>2, <2>3, <3>1, <3>2
  <2> QED
    BY <2>4, <2>5
<1>9. Filled'
  BY <1>1, <1>3, <1>8 DEF Filled
<1>10. Accepted' /\ Copied' /\ SendersAreAdmitted'
  BY <1>1 DEF IInv, Accepted, Copied, SendersAreAdmitted
<1> QED
  BY <1>7, <1>9, <1>10 DEF IInv

\* The receiver admits the stream and starts with an empty payload.
LEMMA ReceiveStep ==
  ASSUME IInv, Receive
  PROVE  IInv'
<1> USE CapacityAssumption, SourceBlocksAssumption
<1>1. /\ pc = "split" /\ b = k /\ b' = 0
      /\ len' = len /\ block_len' = block_len /\ k' = k /\ arena' = arena
  BY DEF Receive
<1>2. Admitted /\ HeaderTotalLen = len
  BY <1>1, AdmittedLemma DEF IInv, Busy
<1>3. pc' = "assemble" /\ out' = [i \in 0 .. len - 1 |-> 0]
  BY <1>2 DEF Receive
<1>4. /\ len \in Nat \ {0} /\ block_len \in Nat \ {0} /\ k \in Nat \ {0}
      /\ Width \in Nat
  BY <1>1, Sizes DEF IInv, Busy
<1>5. Domains'
  <2> QED
    BY <1>1, <1>3, <1>4 DEF IInv, Domains, Busy
<1>6. Filled'
  <2>1. Width' = Width
    BY <1>1 DEF Width
  <2>2. ASSUME NEW x \in 0 .. k - 1, NEW j \in 0 .. Width - 1
        PROVE  arena[(x * Width) + j] =
                 IF j < block_len /\ (x * block_len) + j < len
                 THEN (x * block_len) + j + 1 ELSE 0
    <3>1. x < b
      BY <1>1, <1>4
    <3> QED
      BY <1>1, <3>1 DEF IInv, Filled
  <2> QED
    BY <1>1, <1>3, <2>1, <2>2 DEF Filled
<1>7. Copied'
  BY <1>1, <1>3, <1>4 DEF Copied
<1>8. Accepted' /\ SendersAreAdmitted'
  BY <1>1, <1>3 DEF IInv, Accepted, Busy, SendersAreAdmitted
<1> QED
  BY <1>5, <1>6, <1>7, <1>8 DEF IInv

\* One block more of the payload is back in its place.
LEMMA AssembleStep ==
  ASSUME IInv, Assemble
  PROVE  IInv'
<1> USE CapacityAssumption, SourceBlocksAssumption
<1>1. /\ pc = "assemble" /\ b < k /\ b' = b + 1
      /\ pc' = IF b + 1 = k THEN "done" ELSE pc
      /\ len' = len /\ block_len' = block_len /\ k' = k /\ arena' = arena
      /\ out' = [i \in DOMAIN out |->
           IF i \in Start .. Start + CopyLen - 1 THEN Slot(b)[i - Start] ELSE out[i]]
  BY DEF Assemble
<1>2. /\ len \in Nat \ {0} /\ block_len \in Nat \ {0} /\ k \in Nat \ {0} /\ b \in 0 .. k
      /\ Width \in Nat /\ block_len <= Width
      /\ \A x \in 0 .. k - 1 : x * block_len < len
  BY <1>1, Sizes DEF IInv, Busy
<1>3. DOMAIN out = 0 .. len - 1
  BY <1>1 DEF IInv, Domains
<1>4. Start = b * block_len /\ Start \in Nat /\ Start < len
  BY <1>1, <1>2 DEF Start
<1>5. /\ CopyLen \in 1 .. block_len /\ Start + CopyLen <= len
      /\ \A j \in 0 .. block_len - 1 : j < CopyLen <=> Start + j < len
  BY <1>2, <1>4 DEF CopyLen
<1>6. Domains'
  <2>1. out' = [i \in 0 .. len - 1 |-> out'[i]]
    BY <1>1, <1>3
  <2>2. b' \in 0 .. k' /\ pc' \in Busy /\ (pc' = "done" => b' = k') /\ pc' # "split"
    BY <1>1, <1>2 DEF Busy
  <2> QED
    BY <1>1, <1>2, <1>3, <2>1, <2>2 DEF IInv, Domains, Busy
<1>7. ASSUME NEW j \in 0 .. block_len - 1, Start + j < len
      PROVE  Slot(b)[j] = Start + j + 1
  <2>1. j \in 0 .. Width - 1 /\ b \in 0 .. k - 1
    BY <1>1, <1>2
  <2>2. arena[(b * Width) + j] = Start + j + 1
    BY <1>1, <1>2, <1>4, <1>7, <2>1 DEF IInv, Filled
  <2> QED
    BY <2>1, <2>2, <1>2 DEF Slot
<1>8. ASSUME NEW x \in 0 .. k - 1, NEW j \in 0 .. block_len - 1,
             x < b + 1, (x * block_len) + j < len
      PROVE  out'[(x * block_len) + j] = (x * block_len) + j + 1
  <2> DEFINE i == (x * block_len) + j
  <2>1. x * block_len \in Nat /\ i \in 0 .. len - 1
    BY <1>2, <1>8
  <2>2. CASE x = b
    <3>1. i = Start + j /\ i - Start = j /\ j < CopyLen
      BY <2>2, <1>2, <1>4, <1>5, <1>8
    <3>2. i \in Start .. Start + CopyLen - 1
      BY <3>1, <1>4, <1>5
    <3> QED
      BY <3>1, <3>2, <2>1, <1>1, <1>3, <1>4, <1>7, <1>8
  <2>3. CASE x # b
    <3>1. i \notin Start .. Start + CopyLen - 1
      <4>1. SUFFICES ASSUME i >= b * block_len, i < (b * block_len) + block_len
                     PROVE  FALSE
        BY <1>2, <1>4, <1>5
      <4>2. x \in Nat /\ b \in Nat /\ block_len \in Nat \ {0}
        BY <1>2
      <4> QED
        BY <2>3, <4>1, <4>2, OneRow
    <3>2. x < b
      BY <2>3, <1>2, <1>8
    <3>3. out[i] = i + 1
      BY <3>2, <1>1, <1>8 DEF IInv, Copied
    <3> QED
      BY <3>1, <3>3, <2>1, <1>1, <1>3
  <2> QED
    BY <2>2, <2>3
<1>9. Copied'
  BY <1>1, <1>8 DEF Copied
<1>10. Filled'
  <2>1. Width' = Width /\ pc' # "split"
    BY <1>1 DEF Width
  <2> QED
    BY <1>1, <2>1 DEF IInv, Filled
<1>11. Accepted' /\ SendersAreAdmitted'
  BY <1>1 DEF IInv, Accepted, Busy, SendersAreAdmitted
<1> QED
  BY <1>6, <1>9, <1>10, <1>11 DEF IInv

\* The invariant of the way of a payload.
THEOREM Invariant == Spec => []IInv
<1>1. ASSUME IInv, [Next]_vars
      PROVE  IInv'
  <2>1. CASE UNCHANGED vars
    BY <1>1, <2>1 DEF vars, IInv, Domains, Accepted, Filled, Copied, SendersAreAdmitted, Width
  <2> QED
    BY <1>1, <2>1, ConstructStep, SplitStep, ReceiveStep, AssembleStep DEF Next
<1> QED
  BY <1>1, InitInv, PTL DEF Spec

\* Every stream a sender can be built for, a receiver with the default limits
\* admits.
THEOREM Admission == Spec => []SendersAreAdmitted
<1>1. IInv => SendersAreAdmitted
  BY DEF IInv
<1> QED
  BY <1>1, Invariant, PTL

\* Neither copying loop can leave its buffers.
THEOREM LoopsStayInBounds == Spec => []InBounds
<1>1. ASSUME IInv
      PROVE  InBounds
  <2>1. CASE pc = "split" /\ b < k
    <3>1. /\ len \in Nat \ {0} /\ block_len \in Nat \ {0} /\ k \in Nat /\ b \in 0 .. k
          /\ Width \in Nat /\ block_len <= Width
          /\ \A x \in 0 .. k - 1 : x * block_len < len
      BY <1>1, <2>1, Sizes DEF IInv, Busy
    <3>2. Start \in Nat /\ Start < len
      BY <3>1, <2>1 DEF Start
    <3>3. Start <= End /\ End <= len /\ End - Start <= Width
      BY <3>1, <3>2 DEF End
    <3>4. (b * Width) + Width <= k * Width
      BY <3>1, <2>1, RowFits
    <3>5. b * Width \in Nat /\ k * Width \in Nat /\ End \in Nat
      BY <3>1, <3>2 DEF End
    <3> QED
      BY <2>1, <3>1, <3>2, <3>3, <3>4, <3>5 DEF InBounds
  <2>2. CASE pc = "assemble" /\ b < k
    <3>1. /\ len \in Nat \ {0} /\ block_len \in Nat \ {0} /\ k \in Nat /\ b \in 0 .. k
          /\ Width \in Nat /\ block_len <= Width
          /\ \A x \in 0 .. k - 1 : x * block_len < len
      BY <1>1, <2>2, Sizes DEF IInv, Busy
    <3>2. Start \in Nat /\ Start < len
      BY <3>1, <2>2 DEF Start
    <3> QED
      BY <2>2, <3>1, <3>2 DEF InBounds, CopyLen
  <2> QED
    BY <2>1, <2>2 DEF InBounds
<1> QED
  BY <1>1, Invariant, PTL

\* assemble returns the payload that was split.
THEOREM PayloadComesBack == Spec => []Reassembled
<1>1. ASSUME IInv, pc = "done"
      PROVE  out = [i \in 0 .. len - 1 |-> i + 1]
  <2>1. /\ len \in Nat \ {0} /\ block_len \in Nat \ {0} /\ k \in Nat /\ len <= k * block_len
    BY <1>1, Sizes DEF IInv, Busy
  <2>2. b = k /\ DOMAIN out = 0 .. len - 1 /\ out = [i \in 0 .. len - 1 |-> out[i]]
    BY <1>1 DEF IInv, Domains
  <2>3. ASSUME NEW i \in 0 .. len - 1
        PROVE  out[i] = i + 1
    <3>1. PICK x \in Nat, j \in 0 .. block_len - 1 : i = (x * block_len) + j
      <4>1. /\ i \div block_len \in Nat /\ i % block_len \in 0 .. block_len - 1
            /\ i = ((i \div block_len) * block_len) + (i % block_len)
        BY <2>1
      <4> QED
        BY <4>1
    <3>2. ~ (k <= x)
      <4>1. SUFFICES ASSUME k <= x
                     PROVE  FALSE
        OBVIOUS
      <4>2. k * block_len <= x * block_len
        BY <2>1, <3>1, <4>1
      <4> QED
        BY <2>1, <3>1, <4>2
    <3>3. x \in 0 .. k - 1 /\ x < b
      BY <2>1, <2>2, <3>1, <3>2
    <3>4. (x * block_len) + j < len
      BY <2>1, <3>1
    <3>5. out[(x * block_len) + j] = (x * block_len) + j + 1
      BY <1>1, <3>3, <3>4 DEF IInv, Copied
    <3> QED
      BY <3>1, <3>5
  <2> QED
    BY <2>2, <2>3
<1>2. IInv => Reassembled
  BY <1>1 DEF Reassembled
<1> QED
  BY <1>2, Invariant, PTL

\* The least frame that smallest_sufficient_frame_size offers is the least the
\* sender accepts.
THEOREM SmallestFrame == Spec => []SmallestIsRight
<1>1. IInv => SmallestIsRight
  BY SmallestLemma, SourceBlocksAssumption DEF SmallestIsRight, IInv
<1> QED
  BY <1>1, Invariant, PTL
=============================================================================
