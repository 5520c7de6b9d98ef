-------------------------- MODULE LtDecoderProofs ---------------------------
(***************************************************************************)
(* The decoder is correct for every K, every selection of repair frames,   *)
(* every budget and every order of arrival.                                *)
(***************************************************************************)
EXTENDS FirstPhaseCapture, FiniteSetTheorems, SequenceTheorems, TLAPS

-----------------------------------------------------------------------------
(* The operators of LtCode, for every K, mode and selection.               *)

(* The blocks are finitely many.                                           *)
LEMMA BlocksFinite == IsFiniteSet(Blocks) /\ Cardinality(Blocks) = K
BY KAssumption, FS_Interval DEF Blocks

(* Every equation of the decoder is about blocks, and at least one.        *)
LEMMA EquationType ==
  \A seq \in Seqs : Equation(seq) \in SUBSET Blocks /\ Equation(seq) # {}
<1> SUFFICES ASSUME NEW seq \in Seqs
             PROVE  Equation(seq) \in SUBSET Blocks /\ Equation(seq) # {}
  OBVIOUS
<1>0. seq \in Nat /\ K \in Nat \ {0}
  BY MaxSeqAssumption, KAssumption DEF Seqs
<1>1. CASE seq < SysSpan
  <2>1. seq \in Blocks /\ seq % K = seq
    BY <1>0, <1>1 DEF SysSpan, Blocks
  <2>2. seq # 0 => seq - 1 \in Blocks
    BY <1>0, <1>1 DEF SysSpan, Blocks
  <2>3. QED
    BY <1>1, <2>1, <2>2 DEF Equation
<1>2. CASE ~ (seq < SysSpan)
  BY <1>2, RepairAssumption DEF Equation, FrameIndices
<1>3. QED
  BY <1>1, <1>2

(* The XOR of a set S of source blocks is S.                               *)
LEMMA XorSumOfSource ==
  ASSUME NEW S \in SUBSET Blocks, NEW val, \A b \in S : val[b] \ Noise = {b}
  PROVE  XorSum(S, val) \in SUBSET Symbols /\ XorSum(S, val) \ Noise = S
<1>1. ASSUME NEW x \in Blocks
      PROVE  x \in XorSum(S, val) <=> x \in S
  <2>1. x \notin Noise
    BY NoiseAssumption
  <2>2. {b \in S : x \in val[b]} = {b \in S : b = x}
    BY <2>1
  <2>3. CASE x \in S
    <3>1. {b \in S : b = x} = {x}
      BY <2>3
    <3>2. Cardinality({b \in S : x \in val[b]}) = 1
      BY <2>2, <3>1, FS_Singleton
    <3>3. QED
      BY <2>3, <3>2 DEF XorSum, Symbols
  <2>4. CASE x \notin S
    <3>1. {b \in S : b = x} = {}
      BY <2>4
    <3>2. Cardinality({b \in S : x \in val[b]}) = 0
      BY <2>2, <3>1, FS_EmptySet
    <3>3. QED
      BY <2>4, <3>2 DEF XorSum, Symbols
  <2>5. QED
    BY <2>3, <2>4
<1>2. XorSum(S, val) \in SUBSET Symbols
  BY DEF XorSum
<1>3. QED
  BY <1>1, <1>2, NoiseAssumption DEF Symbols

(* The two derivations of an equation agree: what encode_into XORs is what *)
(* add_frame expects, for every mode and sequence number.                  *)
THEOREM EncoderMatchesDecoder == \A seq \in Seqs : Encode(seq) = Equation(seq)
<1> SUFFICES ASSUME NEW seq \in Seqs
             PROVE  Encode(seq) = Equation(seq)
  OBVIOUS
<1>0. seq \in Nat /\ K \in Nat \ {0}
  BY MaxSeqAssumption, KAssumption DEF Seqs
<1>1. CASE seq < SysSpan
  <2>1. seq \in Blocks /\ seq % K = seq
    BY <1>0, <1>1 DEF SysSpan, Blocks
  <2>2. CASE seq = 0 \/ Mode # "causal"
    BY <1>1, <2>1, <2>2 DEF Encode, Equation, Source
  <2>3. CASE seq # 0 /\ Mode = "causal"
    <3>1. seq - 1 \in Blocks /\ seq - 1 # seq
      BY <1>0, <1>1, <2>3 DEF SysSpan, Blocks
    <3>2. Source[seq] = {seq} /\ Source[seq - 1] = {seq - 1}
      BY <2>1, <3>1 DEF Source
    <3>3. Xor({seq}, {seq - 1}) = {seq - 1, seq}
      BY <3>1 DEF Xor
    <3>4. QED
      BY <1>1, <2>3, <3>2, <3>3 DEF Encode, Equation
  <2>4. QED
    BY <2>2, <2>3
<1>2. CASE ~ (seq < SysSpan)
  <2>1. Repair[seq] \in SUBSET Blocks
    BY RepairAssumption
  <2>2. \A b \in Repair[seq] : Source[b] \ Noise = {b}
    BY <2>1, NoiseAssumption DEF Source
  <2>3. XorSum(Repair[seq], Source) \ Noise = Repair[seq]
    BY <2>1, <2>2, XorSumOfSource
  <2>4. XorSum(Repair[seq], Source) \cap Noise = {}
    <3> SUFFICES ASSUME NEW x \in Noise
                 PROVE  x \notin XorSum(Repair[seq], Source)
      OBVIOUS
    <3>1. {b \in Repair[seq] : x \in Source[b]} = {}
      BY <2>1, NoiseAssumption DEF Source
    <3>2. Cardinality({b \in Repair[seq] : x \in Source[b]}) = 0
      BY <3>1, FS_EmptySet
    <3>3. QED
      BY <3>2 DEF XorSum
  <2>5. QED
    BY <1>2, <2>3, <2>4 DEF Encode, Equation, FrameIndices
<1>3. QED
  BY <1>1, <1>2

(* A payload carries the XOR of its equation, and errors.                  *)
LEMMA PayloadType ==
  ASSUME NEW seq \in Seqs, NEW payload \in Payloads(seq)
  PROVE  payload \in SUBSET Symbols /\ payload \ Noise = Equation(seq)
<1>1. PICK e \in SUBSET Noise : payload = Xor(Encode(seq), e)
  BY DEF Payloads
<1>2. Encode(seq) = Equation(seq) /\ Equation(seq) \in SUBSET Blocks
  BY EncoderMatchesDecoder, EquationType
<1>3. QED
  BY <1>1, <1>2, NoiseAssumption DEF Xor, Symbols

-----------------------------------------------------------------------------
(* Sequences.                                                              *)

(* The stack without its top.                                              *)
LEMMA FrontLast ==
  ASSUME NEW S, NEW s \in Seq(S), s # <<>>
  PROVE  /\ Front(s) \in Seq(S)
         /\ Len(s) \in Nat \ {0}
         /\ Len(Front(s)) = Len(s) - 1
         /\ \A i \in 1 .. Len(s) - 1 : Front(s)[i] = s[i]
         /\ Last(s) = s[Len(s)]
         /\ Last(s) \in S
<1>1. Len(s) \in Nat \ {0}
  BY EmptySeq
<1>2. \A i \in 1 .. Len(s) - 1 : s[i] \in S
  BY <1>1, ElementOfSeq
<1>3. PICK n \in Nat : Len(s) = n + 1
  BY <1>1
<1>4. /\ SubSeq(s, 1, n) \in Seq(S)
      /\ Len(SubSeq(s, 1, n)) = n
      /\ \A i \in 1 .. n : SubSeq(s, 1, n)[i] = s[i]
  <2>1. \A i \in 1 .. n : s[i] \in S
    BY <1>2, <1>3
  <2>2. /\ SubSeq(s, 1, n) \in Seq(S)
        /\ Len(SubSeq(s, 1, n)) = IF 1 <= n THEN n - 1 + 1 ELSE 0
        /\ \A i \in 1 .. n - 1 + 1 : SubSeq(s, 1, n)[i] = s[1 + i - 1]
    BY <2>1, SubSeqProperties
  <2>3. n - 1 + 1 = n /\ (IF 1 <= n THEN n - 1 + 1 ELSE 0) = n
    OBVIOUS
  <2>4. \A i \in 1 .. n : 1 + i - 1 = i
    OBVIOUS
  <2>5. QED
    BY <2>2, <2>3, <2>4
<1>5. Len(s) - 1 = n
  BY <1>3
<1>6. Front(s) = SubSeq(s, 1, n)
  BY <1>5 DEF Front
<1>7. Last(s) = s[Len(s)] /\ Last(s) \in S
  BY <1>1, ElementOfSeq DEF Last
<1>8. QED
  BY <1>1, <1>4, <1>5, <1>6, <1>7
(* What a list holds after an element is appended.                         *)
LEMMA RangeAppend ==
  ASSUME NEW S, NEW s \in Seq(S), NEW e \in S
  PROVE  /\ Range(Append(s, e)) = Range(s) \cup {e}
         /\ IsInjective(s) /\ e \notin Range(s) => IsInjective(Append(s, e))
<1>1. /\ Len(s) \in Nat
      /\ DOMAIN s = 1 .. Len(s)
      /\ Append(s, e) \in Seq(S)
      /\ Len(Append(s, e)) = Len(s) + 1
      /\ \A i \in 1 .. Len(s) : Append(s, e)[i] = s[i]
      /\ Append(s, e)[Len(s) + 1] = e
  BY AppendProperties, LenProperties
<1>2. DOMAIN Append(s, e) = 1 .. Len(s) + 1
  BY <1>1, LenProperties
<1>3. QED
  BY <1>1, <1>2 DEF Range, IsInjective

(* What a list holds after its head is consumed.                           *)
LEMMA RangeTail ==
  ASSUME NEW S, NEW s \in Seq(S), s # <<>>
  PROVE  /\ Head(s) \in S /\ Tail(s) \in Seq(S)
         /\ Range(s) = Range(Tail(s)) \cup {Head(s)}
         /\ IsInjective(s) => IsInjective(Tail(s)) /\ Head(s) \notin Range(Tail(s))
<1>1. /\ Len(s) \in Nat \ {0}
      /\ DOMAIN s = 1 .. Len(s)
  BY EmptySeq, LenProperties
<1>2. /\ Head(s) \in S /\ Tail(s) \in Seq(S)
      /\ Len(Tail(s)) = Len(s) - 1
      /\ \A i \in 1 .. Len(Tail(s)) : Tail(s)[i] = s[i + 1]
  BY HeadTailProperties
<1>3. DOMAIN Tail(s) = 1 .. Len(s) - 1
  BY <1>2, LenProperties
<1>4. Head(s) = s[1]
  OBVIOUS
<1>5. \A i \in 1 .. Len(s) : i # 1 => i - 1 \in 1 .. Len(s) - 1 /\ s[i] = Tail(s)[i - 1]
  BY <1>1, <1>2
<1>6. Range(s) = Range(Tail(s)) \cup {Head(s)}
  <2>1. Range(Tail(s)) \cup {Head(s)} \subseteq Range(s)
    BY <1>1, <1>2, <1>3, <1>4 DEF Range
  <2>2. Range(s) \subseteq Range(Tail(s)) \cup {Head(s)}
    <3> SUFFICES ASSUME NEW i \in 1 .. Len(s)
                 PROVE  s[i] \in Range(Tail(s)) \cup {Head(s)}
      BY <1>1 DEF Range
    <3>1. CASE i = 1
      BY <1>4, <3>1
    <3>2. CASE i # 1
      BY <1>3, <1>5, <3>2 DEF Range
    <3>3. QED
      BY <3>1, <3>2
  <2>3. QED
    BY <2>1, <2>2
<1>7. ASSUME IsInjective(s)
      PROVE  IsInjective(Tail(s)) /\ Head(s) \notin Range(Tail(s))
  BY <1>1, <1>2, <1>3, <1>4, <1>7 DEF Range, IsInjective
<1>8. QED
  BY <1>2, <1>6, <1>7

(* The empty list holds nothing.                                           *)
LEMMA RangeEmpty == Range(<<>>) = {} /\ IsInjective(<<>>)
BY DEF Range, IsInjective

-----------------------------------------------------------------------------
(* Sets of blocks.                                                         *)

(* More than one block: neither none nor one.                              *)
LEMMA SeveralBlocks ==
  ASSUME NEW S \in SUBSET Blocks
  PROVE  /\ IsFiniteSet(S) /\ Cardinality(S) \in 0 .. K
         /\ Cardinality(S) > 1 <=> S # {} /\ \A b : S # {b}
<1>1. IsFiniteSet(S) /\ Cardinality(S) <= K
  BY BlocksFinite, FS_Subset
<1>2. Cardinality(S) \in Nat
  BY <1>1, FS_CardinalityType
<1>3. Cardinality(S) = 0 <=> S = {}
  BY <1>1, FS_EmptySet
<1>4. Cardinality(S) = 1 <=> \E b : S = {b}
  BY <1>1, FS_Singleton
<1>5. QED
  BY <1>1, <1>2, <1>3, <1>4, KAssumption

(* A reduced payload is a buffer.                                          *)
LEMMA ReducedIsBuffer ==
  ASSUME NEW seq \in Seqs, NEW payload \in Payloads(seq)
  PROVE  Reduced(seq, payload) \in SUBSET Symbols
<1>1. payload \in SUBSET Symbols
  BY PayloadType
<1>2. QED
  BY <1>1 DEF Reduced, Xor, XorSum

(* The unsolved blocks of a frame are blocks of it.                        *)
LEMMA UnsolvedType ==
  ASSUME NEW seq \in Seqs
  PROVE  /\ Unsolved(seq) \in SUBSET Blocks
         /\ Unsolved(seq) = Equation(seq) \ Known
BY EquationType DEF Unsolved, Known

(* Solving one more block counts one more.                                 *)
LEMMA KnownGrows ==
  ASSUME TypeOK, Counted, Solve
  PROVE  /\ Last(queue) \in [block : Blocks, off : Offsets]
         /\ Last(queue).block \notin Known
         /\ Known' = Known \cup {Last(queue).block}
         /\ Cardinality(Known') = Cardinality(Known) + 1
         /\ Cardinality(Known') \in 0 .. K
         /\ solved_count \in 0 .. K
<1>1. Last(queue) \in [block : Blocks, off : Offsets]
  BY FrontLast DEF TypeOK, Solve
<1>2. Last(queue).block \in Blocks /\ Last(queue).off \in Offsets
  BY <1>1
<1>3. Last(queue).off # None
  BY <1>2 DEF Offsets, None
<1>4. Last(queue).block \notin Known
  BY DEF Solve, Known
<1>5. Known' = Known \cup {Last(queue).block}
  BY <1>2, <1>3 DEF Solve, Known, TypeOK
<1>6. Known \in SUBSET Blocks /\ Known' \in SUBSET Blocks
  BY DEF Known
<1>7. QED
  BY <1>1, <1>4, <1>5, <1>6, SeveralBlocks, FS_AddElement DEF TypeOK

-----------------------------------------------------------------------------
(* Types.                                                                  *)

TypeInv == TypeOK /\ Counted /\ CurSolved

Frame == [idx : SUBSET Blocks, off : Offsets, active : BOOLEAN]
Entry == [block : Blocks, off : Offsets]

(* The arena grows at its end: what pointed into it still does.            *)
LEMMA ArenaGrows ==
  ASSUME TypeOK, NEW buffer \in SUBSET Symbols, arena' = Append(arena, buffer)
  PROVE  /\ arena' \in Seq(SUBSET Symbols)
         /\ Len(arena') = Len(arena) + 1
         /\ \A off \in Offsets : arena'[off] = arena[off]
         /\ arena'[Len(arena) + 1] = buffer
         /\ Len(arena) \in Nat
         /\ Len(arena) + 1 \in Offsets' /\ Len(arena) + 1 \notin Offsets
         /\ Offsets \subseteq Offsets'
         /\ Seq(Frame) \subseteq Seq(Frame') /\ Seq(Entry) \subseteq Seq(Entry')
         /\ [Blocks -> Offsets \cup {None}] \subseteq [Blocks -> Offsets' \cup {None}]
<1>1. /\ arena' \in Seq(SUBSET Symbols)
      /\ Len(arena') = Len(arena) + 1
      /\ \A off \in Offsets : arena'[off] = arena[off]
      /\ arena'[Len(arena) + 1] = buffer
      /\ Len(arena) \in Nat
  BY AppendProperties, LenProperties DEF TypeOK, Offsets
<1>2. /\ Len(arena) + 1 \in Offsets' /\ Len(arena) + 1 \notin Offsets
      /\ Offsets \subseteq Offsets'
  BY <1>1 DEF Offsets
<1>3. Frame \subseteq Frame' /\ Entry \subseteq Entry'
  BY <1>2 DEF Frame, Entry
<1>4. Seq(Frame) \subseteq Seq(Frame') /\ Seq(Entry) \subseteq Seq(Entry')
  BY <1>3, SeqMonotonic
<1>5. QED
  BY <1>1, <1>2, <1>4

(* Storing a frame: the new frame and its entries in the lists.            *)
LEMMA FramesGrow ==
  ASSUME TypeOK, NEW seq \in Seqs, NEW payload \in Payloads(seq), Store(seq, payload)
  PROVE  LET U == Unsolved(seq)
             new == Len(frames) + 1
         IN /\ U \in SUBSET Blocks /\ U = Equation(seq) \ Known
            /\ new \in FrameIds' /\ new \notin FrameIds
            /\ FrameIds' = FrameIds \cup {new}
            /\ frames' \in Seq(Frame')
            /\ \A f \in FrameIds : frames'[f] = frames[f]
            /\ frames'[new] = [idx |-> U, off |-> Len(arena) + 1, active |-> TRUE]
            /\ by_block' \in [Blocks -> Seq(FrameIds')]
            /\ waiting \in Seq(FrameIds')
            /\ arena' = Append(arena, Reduced(seq, payload))
            /\ Reduced(seq, payload) \in SUBSET Symbols
<1> DEFINE U == Unsolved(seq)
           new == Len(frames) + 1
           rec == [idx |-> U, off |-> Len(arena) + 1, active |-> TRUE]
<1>1. U \in SUBSET Blocks /\ U = Equation(seq) \ Known
  BY UnsolvedType
<1>2. arena' = Append(arena, Reduced(seq, payload)) /\ Reduced(seq, payload) \in SUBSET Symbols
  BY ReducedIsBuffer DEF Store
<1>3. frames \in Seq(Frame')
  BY <1>2, ArenaGrows DEF TypeOK, Frame
<1>4. rec \in Frame'
  BY <1>1, <1>2, ArenaGrows DEF Frame
<1>5. frames' = Append(frames, rec)
  BY DEF Store
<1>6. /\ frames' \in Seq(Frame')
      /\ \A f \in FrameIds : frames'[f] = frames[f]
      /\ frames'[new] = rec
      /\ Len(frames') = Len(frames) + 1
      /\ Len(frames) \in Nat
  <2> HIDE DEF rec
  <2>1. QED
    BY <1>3, <1>4, <1>5, AppendProperties, LenProperties DEF FrameIds
<1>7. /\ new \in FrameIds' /\ new \notin FrameIds
      /\ FrameIds' = FrameIds \cup {new}
  BY <1>6 DEF FrameIds
<1>8. Seq(FrameIds) \subseteq Seq(FrameIds')
  BY <1>7, SeqMonotonic
<1>9. by_block' \in [Blocks -> Seq(FrameIds')]
  <2>1. \A b \in Blocks : by_block[b] \in Seq(FrameIds')
    BY <1>8 DEF TypeOK
  <2>2. \A b \in Blocks : Append(by_block[b], new) \in Seq(FrameIds')
    BY <1>7, <2>1, AppendProperties
  <2>3. by_block' = [b \in Blocks |-> IF b \in U THEN Append(by_block[b], new)
                                                 ELSE by_block[b]]
    BY DEF Store
  <2>4. QED
    BY <2>1, <2>2, <2>3
<1>10. waiting \in Seq(FrameIds')
  BY <1>8 DEF TypeOK
<1>11. QED
  BY <1>1, <1>2, <1>6, <1>7, <1>9, <1>10

(* Visiting a waiting frame: what resolve leaves of it.                    *)
LEMMA PeelFacts ==
  ASSUME TypeOK, CurSolved, Peel
  PROVE  LET f == Head(waiting)
             left == frames[f].idx \ {cur}
             off == frames[f].off
         IN /\ f \in Active /\ f \in FrameIds
            /\ cur \in Known /\ cur \in Blocks /\ solved[cur] \in Offsets
            /\ left \in SUBSET Blocks
            /\ off \in Offsets
            /\ Offsets' = Offsets
            /\ arena' \in Seq(SUBSET Symbols)
            /\ arena'[off] = Xor(arena[off], arena[solved[cur]])
            /\ \A o \in Offsets : o # off => arena'[o] = arena[o]
            /\ FrameIds' = FrameIds
            /\ frames' \in Seq(Frame)
            /\ frames'[f] = [idx |-> left, off |-> off, active |-> StaysActive(left)]
            /\ \A g \in FrameIds : g # f => frames'[g] = frames[g]
            /\ Known' = Known
<1> DEFINE f == Head(waiting)
           left == frames[f].idx \ {cur}
           off == frames[f].off
           buffer == Xor(arena[off], arena[solved[cur]])
           rec == [idx |-> left, off |-> off, active |-> StaysActive(left)]
<1>1. f \in FrameIds /\ frames[f].active /\ cur \in Known
  BY RangeTail DEF TypeOK, Peel, CurSolved
<1>2. f \in Active
  BY <1>1 DEF Active
<1>3. frames[f] \in Frame /\ Len(frames) \in Nat /\ Len(arena) \in Nat
  BY <1>1, ElementOfSeq, LenProperties DEF TypeOK, Frame, FrameIds
<1>4. left \in SUBSET Blocks /\ off \in Offsets
  BY <1>3 DEF Frame
<1>5. cur \in Blocks /\ solved[cur] \in Offsets
  BY <1>1 DEF Known, TypeOK
<1>6. buffer \in SUBSET Symbols
  <2>1. arena[off] \in SUBSET Symbols /\ arena[solved[cur]] \in SUBSET Symbols
    BY <1>4, <1>5, ElementOfSeq DEF TypeOK, Offsets
  <2>2. QED
    BY <2>1 DEF Xor
<1>7. arena' = [arena EXCEPT ![off] = buffer]
  BY DEF Peel
<1>8. /\ arena' \in Seq(SUBSET Symbols)
      /\ Len(arena') = Len(arena)
      /\ \A o \in Offsets : arena'[o] = IF o = off THEN buffer ELSE arena[o]
  <2> HIDE DEF off, buffer
  <2>1. QED
    BY <1>4, <1>6, <1>7, ExceptSeq DEF TypeOK, Offsets
<1>9. rec \in Frame
  BY <1>4 DEF Frame, StaysActive
<1>10. frames' = [frames EXCEPT ![f] = rec]
  BY DEF Peel
<1>11. /\ frames' \in Seq(Frame)
       /\ Len(frames') = Len(frames)
       /\ \A g \in FrameIds : frames'[g] = IF g = f THEN rec ELSE frames[g]
  <2>1. frames \in Seq(Frame)
    BY DEF TypeOK, Frame
  <2> HIDE DEF f, rec
  <2>2. QED
    BY <1>1, <1>9, <1>10, <2>1, ExceptSeq DEF FrameIds
<1>12. Known' = Known
  BY DEF Peel, Known
<1>13. QED
  BY <1>1, <1>2, <1>4, <1>5, <1>8, <1>11, <1>12 DEF FrameIds, Offsets

(* The type invariant, with what it rests on, is inductive.                *)
LEMMA TypeInit == Init => TypeInv
<1> SUFFICES ASSUME Init PROVE TypeInv
  OBVIOUS
<1>1. Known = {}
  BY DEF Init, Known
<1>2. 0 \in Blocks /\ 0 \in 0 .. K
  BY KAssumption DEF Blocks
<1>3. TypeOK
  BY <1>2, CounterAssumption DEF Init, TypeOK, None
<1>4. Counted
  BY <1>1, FS_EmptySet DEF Init, Counted
<1>5. CurSolved
  BY DEF Init, CurSolved
<1>6. QED
  BY <1>3, <1>4, <1>5 DEF TypeInv

\* Every step of add_frame and resolve keeps the types of all fields.
LEMMA TypeStep == TypeInv /\ [Next]_vars => TypeInv'
<1> SUFFICES ASSUME TypeOK, Counted, CurSolved, [Next]_vars
             PROVE  TypeInv'
  BY DEF TypeInv
<1> USE DEF TypeInv
<1>1. CASE UNCHANGED vars
  BY <1>1 DEF vars, TypeOK, Offsets, FrameIds, Counted, CurSolved, Known
<1>2. CASE WrongLength
  BY <1>2, CounterAssumption
  DEF WrongLength, equations, loop, TypeOK, Offsets, FrameIds, Counted, CurSolved, Known
<1>3. CASE Ignored
  BY <1>3, <1>1 DEF Ignored
<1>4. ASSUME NEW seq \in Seqs, Duplicate(seq)
      PROVE  TypeInv'
  BY <1>4, CounterAssumption
  DEF Duplicate, equations, loop, TypeOK, Offsets, FrameIds, Counted, CurSolved, Known
<1>5. ASSUME NEW seq \in Seqs, OverBudget(seq)
      PROVE  TypeInv'
  BY <1>5, CounterAssumption
  DEF OverBudget, equations, loop, TypeOK, Offsets, FrameIds, Counted, CurSolved, Known
<1>6. ASSUME NEW seq \in Seqs, Redundant(seq)
      PROVE  TypeInv'
  BY <1>6
  DEF Redundant, Accepted, TypeOK, Offsets, FrameIds, Counted, CurSolved, Known
<1>7. ASSUME NEW seq \in Seqs, NEW payload \in Payloads(seq), SolveOne(seq, payload)
      PROVE  TypeInv'
  <2>1. PICK b \in Blocks : queue' = <<[block |-> b, off |-> Len(arena) + 1]>>
    BY <1>7 DEF SolveOne
  <2>2. arena' = Append(arena, Reduced(seq, payload)) /\ Reduced(seq, payload) \in SUBSET Symbols
    BY <1>7, ReducedIsBuffer DEF SolveOne
  <2>3. queue' \in Seq(Entry')
    <3>1. [block |-> b, off |-> Len(arena) + 1] \in Entry'
      BY <2>2, ArenaGrows DEF Entry
    <3>2. QED
      BY <2>1, <3>1
  <2>4. /\ solved' \in [Blocks -> Offsets' \cup {None}]
        /\ frames' \in Seq(Frame')
        /\ arena' \in Seq(SUBSET Symbols)
    <3>1. solved' = solved /\ frames' = frames
      BY <1>7 DEF SolveOne, Accepted
    <3>2. solved \in [Blocks -> Offsets \cup {None}] /\ frames \in Seq(Frame)
      BY DEF TypeOK, Frame
    <3>3. /\ Seq(Frame) \subseteq Seq(Frame')
          /\ [Blocks -> Offsets \cup {None}] \subseteq [Blocks -> Offsets' \cup {None}]
          /\ arena' \in Seq(SUBSET Symbols)
      BY <2>2, ArenaGrows
    <3>4. QED
      BY <3>1, <3>2, <3>3
  <2>5. /\ UNCHANGED <<solved, solved_count, frames, by_block, pending_edges,
                       frames_dup, frames_dropped, cur, waiting>>
        /\ seen' = seen \cup {seq} /\ frames_new' = frames_new + 1
    BY <1>7 DEF SolveOne, Accepted
  <2>6. TypeOK'
    BY <2>3, <2>4, <2>5 DEF TypeOK, FrameIds, Frame, Entry
  <2>7. QED
    BY <2>5, <2>6 DEF Counted, CurSolved, Known
<1>8. ASSUME NEW seq \in Seqs, NEW payload \in Payloads(seq), Store(seq, payload)
      PROVE  TypeInv'
  <2>1. /\ frames' \in Seq(Frame')
        /\ by_block' \in [Blocks -> Seq(FrameIds')]
        /\ waiting \in Seq(FrameIds')
        /\ arena' = Append(arena, Reduced(seq, payload))
        /\ Reduced(seq, payload) \in SUBSET Symbols
        /\ Unsolved(seq) \in SUBSET Blocks
    BY <1>8, FramesGrow
  <2>2. /\ solved' \in [Blocks -> Offsets' \cup {None}]
        /\ queue' \in Seq(Entry')
        /\ arena' \in Seq(SUBSET Symbols)
    BY <1>8, <2>1, ArenaGrows DEF Store, Accepted, TypeOK, Entry
  <2>3. pending_edges' \in Nat
    <3>1. Cardinality(Unsolved(seq)) \in 0 .. K
      BY <2>1, SeveralBlocks
    <3>2. pending_edges' = pending_edges + Cardinality(Unsolved(seq))
      BY <1>8 DEF Store
    <3>3. QED
      BY <3>1, <3>2, KAssumption DEF TypeOK
  <2>4. /\ UNCHANGED <<solved, solved_count, frames_dup, frames_dropped, cur, waiting>>
        /\ seen' = seen \cup {seq} /\ frames_new' = frames_new + 1
    BY <1>8 DEF Store, Accepted
  <2>5. TypeOK'
    BY <2>1, <2>2, <2>3, <2>4 DEF TypeOK, Frame, Entry
  <2>6. QED
    BY <2>4, <2>5 DEF Counted, CurSolved, Known
<1>9. CASE SkipSolved
  <2>1. queue' \in Seq(Entry)
    BY <1>9, FrontLast DEF SkipSolved, TypeOK, Entry
  <2>2. QED
    BY <1>9, <2>1
    DEF SkipSolved, equations, TypeOK, Offsets, FrameIds, Counted, CurSolved, Known, Entry
<1>10. CASE Solve
  <2> DEFINE b == Last(queue).block
  <2>1. /\ Last(queue) \in Entry
        /\ Known' = Known \cup {b}
        /\ Cardinality(Known') = Cardinality(Known) + 1
        /\ Cardinality(Known') \in 0 .. K
    BY <1>10, KnownGrows DEF Entry
  <2>2. b \in Blocks /\ Last(queue).off \in Offsets
    BY <2>1 DEF Entry
  <2>3. queue' \in Seq(Entry)
    BY <1>10, FrontLast DEF Solve, TypeOK, Entry
  <2>4. /\ solved' = [solved EXCEPT ![b] = Last(queue).off]
        /\ cur' = b
        /\ waiting' = by_block[b]
        /\ by_block' = [by_block EXCEPT ![b] = <<>>]
        /\ solved_count' = solved_count + 1
        /\ UNCHANGED <<frames, seen, arena, pending_edges, frames_new, frames_dup,
                       frames_dropped>>
    BY <1>10 DEF Solve
  <2>5. Counted'
    BY <2>1, <2>4 DEF Counted
  <2>6. /\ solved' \in [Blocks -> Offsets \cup {None}]
        /\ by_block' \in [Blocks -> Seq(FrameIds)]
        /\ waiting' \in Seq(FrameIds)
    BY <2>2, <2>4 DEF TypeOK
  <2>7. TypeOK'
    BY <2>1, <2>2, <2>3, <2>4, <2>5, <2>6 DEF TypeOK, Counted, Offsets, FrameIds, Entry
  <2>8. CurSolved'
    BY <2>1, <2>4 DEF CurSolved
  <2>9. QED
    BY <2>5, <2>7, <2>8
<1>11. CASE SkipInactive
  <2>1. waiting' \in Seq(FrameIds)
    BY <1>11, RangeTail DEF SkipInactive, TypeOK
  <2>2. QED
    BY <1>11, <2>1
    DEF SkipInactive, equations, TypeOK, Offsets, FrameIds, Counted, CurSolved, Known
<1>12. CASE Peel
  <2>1. /\ frames[Head(waiting)].off \in Offsets
        /\ frames[Head(waiting)].idx \ {cur} \in SUBSET Blocks
        /\ Offsets' = Offsets /\ FrameIds' = FrameIds
        /\ arena' \in Seq(SUBSET Symbols)
        /\ frames' \in Seq(Frame)
        /\ Known' = Known /\ cur \in Known
    BY <1>12, PeelFacts
  <2>2. queue' \in Seq(Entry)
    <3>1. CASE UNCHANGED queue
      BY <3>1 DEF TypeOK, Entry
    <3>2. CASE ~ UNCHANGED queue
      <4>1. PICK r \in Freed(frames[Head(waiting)].idx \ {cur}) :
              queue' = Append(queue, [block |-> r, off |-> frames[Head(waiting)].off])
        BY <1>12, <3>2 DEF Peel
      <4>2. r \in Blocks
        BY <2>1 DEF Freed
      <4>3. [block |-> r, off |-> frames[Head(waiting)].off] \in Entry
        BY <2>1, <4>2 DEF Entry
      <4>4. queue \in Seq(Entry)
        BY DEF TypeOK, Entry
      <4>5. QED
        BY <4>1, <4>3, <4>4, AppendProperties
    <3>3. QED
      BY <3>1, <3>2
  <2>3. waiting' \in Seq(FrameIds)
    BY <1>12, RangeTail DEF Peel, TypeOK
  <2>4. UNCHANGED <<solved, solved_count, by_block, seen, pending_edges, frames_new,
                    frames_dup, frames_dropped, cur>>
    BY <1>12 DEF Peel
  <2>5. TypeOK'
    BY <2>1, <2>2, <2>3, <2>4 DEF TypeOK, Frame, Entry
  <2>6. QED
    BY <2>1, <2>4, <2>5 DEF Counted, CurSolved
<1>13. QED
  BY <1>1, <1>2, <1>3, <1>4, <1>5, <1>6, <1>7, <1>8, <1>9, <1>10, <1>11, <1>12
  DEF Next, AddFrame, Resolve

(* The types of the decoder's fields, for every K, selection and budget.   *)
THEOREM TypeCorrect == Spec => []TypeOK
<1>1. TypeInv => TypeOK
  BY DEF TypeInv
<1>2. QED
  BY <1>1, TypeInit, TypeStep, PTL DEF Spec

-----------------------------------------------------------------------------
(* The steps that matter to the equations.                                 *)

Still == UNCHANGED <<solved, solved_count, frames, by_block, seen, arena,
                     pending_edges, queue, cur, waiting>>

\* The actions of Next by name: the case split of the proofs below.
LEMMA StepCases ==
  ASSUME [Next]_vars
  PROVE  \/ Still
         \/ \E seq \in Seqs : Redundant(seq)
         \/ \E seq \in Seqs : \E payload \in Payloads(seq) : SolveOne(seq, payload)
         \/ \E seq \in Seqs : \E payload \in Payloads(seq) : Store(seq, payload)
         \/ SkipSolved \/ Solve \/ SkipInactive \/ Peel
<1>1. UNCHANGED vars => Still
  BY DEF vars, Still
<1>2. WrongLength => Still
  BY DEF WrongLength, equations, loop, Still
<1>3. Ignored => Still
  BY <1>1 DEF Ignored
<1>4. \A seq \in Seqs : Duplicate(seq) \/ OverBudget(seq) => Still
  BY DEF Duplicate, OverBudget, equations, loop, Still
<1>5. QED
  BY <1>1, <1>2, <1>3, <1>4 DEF Next, AddFrame, Resolve

(* The fields of frames and stack entries, and the slots of solved blocks. *)
LEMMA Fields ==
  ASSUME TypeOK
  PROVE  /\ \A f \in FrameIds : /\ frames[f].idx \in SUBSET Blocks
                                /\ frames[f].off \in Offsets
                                /\ frames[f].active \in BOOLEAN
         /\ Active \subseteq FrameIds
         /\ Len(queue) \in Nat /\ DOMAIN queue = 1 .. Len(queue)
         /\ \A i \in DOMAIN queue : queue[i].block \in Blocks /\ queue[i].off \in Offsets
         /\ \A b \in Known : b \in Blocks /\ solved[b] \in Offsets
         /\ \A o \in Offsets : arena[o] \in SUBSET Symbols
<1>1. \A f \in FrameIds : frames[f] \in Frame
  <2>1. frames \in Seq(Frame)
    BY DEF TypeOK, Frame
  <2>2. QED
    BY <2>1, ElementOfSeq DEF FrameIds
<1>2. /\ Len(queue) \in Nat /\ DOMAIN queue = 1 .. Len(queue)
      /\ \A i \in DOMAIN queue : queue[i] \in Entry
  <2>1. queue \in Seq(Entry)
    BY DEF TypeOK, Entry
  <2>2. QED
    BY <2>1, ElementOfSeq, LenProperties
<1>3. \A b \in Known : b \in Blocks /\ solved[b] \in Offsets
  BY DEF TypeOK, Known
<1>4. \A o \in Offsets : arena[o] \in SUBSET Symbols
  BY ElementOfSeq DEF TypeOK, Offsets
<1>5. QED
  BY <1>1, <1>2, <1>3, <1>4 DEF Frame, Entry, Active

(* What a call that starts resolve leaves: one entry, in a new slot.       *)
LEMMA SolveOneFacts ==
  ASSUME TypeInv, NEW seq \in Seqs, NEW payload \in Payloads(seq), SolveOne(seq, payload)
  PROVE  /\ \E b \in Blocks : /\ Unsolved(seq) = {b}
                              /\ DOMAIN queue' = {1}
                              /\ queue'[1].block = b
                              /\ queue'[1].off = Len(arena) + 1
         /\ queue = <<>> /\ waiting = <<>>
         /\ Len(arena) + 1 \notin Offsets
         /\ \A o \in Offsets : arena'[o] = arena[o]
         /\ arena'[Len(arena) + 1] = Reduced(seq, payload)
         /\ seen' = seen \cup {seq}
         /\ Active' = Active /\ Known' = Known
         /\ UNCHANGED <<solved, frames, by_block, waiting, cur>>
<1>1. PICK b \in Blocks : /\ Unsolved(seq) = {b}
                          /\ queue' = <<[block |-> b, off |-> Len(arena) + 1]>>
  BY DEF SolveOne
<1>2. DOMAIN queue' = {1} /\ queue'[1] = [block |-> b, off |-> Len(arena) + 1]
  BY <1>1
<1>3. arena' = Append(arena, Reduced(seq, payload)) /\ Reduced(seq, payload) \in SUBSET Symbols
  BY ReducedIsBuffer DEF SolveOne
<1>4. /\ Len(arena) + 1 \notin Offsets
      /\ \A o \in Offsets : arena'[o] = arena[o]
      /\ arena'[Len(arena) + 1] = Reduced(seq, payload)
  BY <1>3, ArenaGrows DEF TypeInv
<1>5. /\ queue = <<>> /\ waiting = <<>>
      /\ seen' = seen \cup {seq}
      /\ UNCHANGED <<solved, frames, by_block, waiting, cur>>
  BY DEF SolveOne, Accepted, Fresh, Idle
<1>6. Active' = Active /\ Known' = Known
  BY <1>5 DEF Active, FrameIds, Known
<1>7. QED
  BY <1>1, <1>2, <1>4, <1>5, <1>6

(* What a call that stores a frame leaves: one more waiting frame.         *)
LEMMA StoreFacts ==
  ASSUME TypeInv, NEW seq \in Seqs, NEW payload \in Payloads(seq), Store(seq, payload)
  PROVE  LET new == Len(frames) + 1
         IN /\ new \notin FrameIds
            /\ Active' = Active \cup {new}
            /\ \A f \in Active : frames'[f] = frames[f]
            /\ frames'[new].idx = Unsolved(seq)
            /\ frames'[new].off = Len(arena) + 1
            /\ Cardinality(Unsolved(seq)) > 1
            /\ queue = <<>> /\ waiting = <<>>
            /\ Len(arena) + 1 \notin Offsets
            /\ \A o \in Offsets : arena'[o] = arena[o]
            /\ arena'[Len(arena) + 1] = Reduced(seq, payload)
            /\ seen' = seen \cup {seq}
            /\ Known' = Known
            /\ \A b \in Blocks : by_block'[b] = IF b \in Unsolved(seq)
                                                  THEN Append(by_block[b], new)
                                                  ELSE by_block[b]
            /\ UNCHANGED <<solved, queue, waiting, cur>>
<1> DEFINE new == Len(frames) + 1
<1>1. /\ new \notin FrameIds
      /\ FrameIds' = FrameIds \cup {new}
      /\ \A f \in FrameIds : frames'[f] = frames[f]
      /\ frames'[new] = [idx |-> Unsolved(seq), off |-> Len(arena) + 1, active |-> TRUE]
      /\ arena' = Append(arena, Reduced(seq, payload))
      /\ Reduced(seq, payload) \in SUBSET Symbols
  BY FramesGrow DEF TypeInv
<1>2. Active' = Active \cup {new}
  BY <1>1 DEF Active
<1>3. \A f \in Active : frames'[f] = frames[f]
  BY <1>1 DEF Active
<1>4. /\ Len(arena) + 1 \notin Offsets
      /\ \A o \in Offsets : arena'[o] = arena[o]
      /\ arena'[Len(arena) + 1] = Reduced(seq, payload)
  BY <1>1, ArenaGrows DEF TypeInv
<1>5. /\ queue = <<>> /\ waiting = <<>>
      /\ seen' = seen \cup {seq}
      /\ Cardinality(Unsolved(seq)) > 1
      /\ UNCHANGED <<solved, queue, waiting, cur>>
  BY DEF Store, Accepted, Fresh, Idle
<1>6. \A b \in Blocks : by_block'[b] = IF b \in Unsolved(seq)
                                         THEN Append(by_block[b], new) ELSE by_block[b]
  BY DEF Store
<1>7. Known' = Known
  BY <1>5 DEF Known
<1>8. frames'[new].idx = Unsolved(seq) /\ frames'[new].off = Len(arena) + 1
  BY <1>1
<1>9. QED
  BY <1>1, <1>2, <1>3, <1>4, <1>5, <1>6, <1>7, <1>8, Zenon

(* What popping leaves of the stack.                                       *)
LEMMA PopFacts ==
  ASSUME TypeOK, queue # <<>>, queue' = Front(queue)
  PROVE  /\ Len(queue) \in DOMAIN queue
         /\ Last(queue) = queue[Len(queue)]
         /\ DOMAIN queue' = DOMAIN queue \ {Len(queue)}
         /\ \A i \in DOMAIN queue' : queue'[i] = queue[i]
<1>1. queue \in Seq(Entry)
  BY DEF TypeOK, Entry
<1>2. /\ queue' \in Seq(Entry)
      /\ Len(queue) \in Nat \ {0}
      /\ Len(queue') = Len(queue) - 1
      /\ \A i \in 1 .. Len(queue) - 1 : queue'[i] = queue[i]
      /\ Last(queue) = queue[Len(queue)]
  BY <1>1, FrontLast
<1>3. DOMAIN queue = 1 .. Len(queue) /\ DOMAIN queue' = 1 .. Len(queue')
  BY <1>1, <1>2, LenProperties
<1>4. QED
  BY <1>2, <1>3

(* What visiting a frame leaves of it and of the stack.                    *)
LEMMA PeelSteps ==
  ASSUME TypeInv, Peel
  PROVE  LET f == Head(waiting)
             left == frames[f].idx \ {cur}
             off == frames[f].off
             n == Len(queue) + 1
         IN /\ \/ Freed(left) = {} /\ queue' = queue
               \/ \E r \in Freed(left) : /\ DOMAIN queue' = DOMAIN queue \cup {n}
                                         /\ \A i \in DOMAIN queue : queue'[i] = queue[i]
                                         /\ queue'[n].block = r
                                         /\ queue'[n].off = off
            /\ n \notin DOMAIN queue
            /\ Active' = IF Cardinality(left) > 1 THEN Active ELSE Active \ {f}
            /\ frames'[f].idx = left /\ frames'[f].off = off
<1> DEFINE f == Head(waiting)
           left == frames[f].idx \ {cur}
           off == frames[f].off
           n == Len(queue) + 1
<1>1. /\ f \in Active /\ f \in FrameIds /\ FrameIds' = FrameIds
      /\ frames'[f] = [idx |-> left, off |-> off, active |-> StaysActive(left)]
      /\ \A g \in FrameIds : g # f => frames'[g] = frames[g]
      /\ off \in Offsets /\ left \in SUBSET Blocks
  BY PeelFacts DEF TypeInv
<1>2. Active' = IF Cardinality(left) > 1 THEN Active ELSE Active \ {f}
  <2>1. frames'[f].active <=> Cardinality(left) > 1
    <3>1. frames'[f].active = StaysActive(left)
      BY <1>1
    <3>2. QED
      BY <3>1, Zenon DEF StaysActive
  <2>2. Active' = {g \in FrameIds : frames'[g].active}
    BY <1>1 DEF Active
  <2>3. QED
    BY <1>1, <2>1, <2>2 DEF Active
<1>3. DOMAIN queue = 1 .. Len(queue) /\ Len(queue) \in Nat
  BY Fields DEF TypeInv
<1>4. \/ Freed(left) = {} /\ queue' = queue
      \/ \E r \in Freed(left) : queue' = Append(queue, [block |-> r, off |-> off])
  BY DEF Peel
<1>5. ASSUME NEW r \in Freed(left), queue' = Append(queue, [block |-> r, off |-> off])
      PROVE  /\ DOMAIN queue' = DOMAIN queue \cup {n}
             /\ \A i \in DOMAIN queue : queue'[i] = queue[i]
             /\ queue'[n].block = r
             /\ queue'[n].off = off
  <2> DEFINE e == [block |-> r, off |-> off]
  <2>1. e \in Entry
    BY <1>1 DEF Freed, Entry
  <2>2. queue \in Seq(Entry)
    BY DEF TypeInv, TypeOK, Entry
  <2>3. /\ queue' \in Seq(Entry)
        /\ Len(queue') = n
        /\ \A i \in 1 .. Len(queue) : queue'[i] = queue[i]
        /\ queue'[n] = e
    <3> HIDE DEF e
    <3>1. queue' = Append(queue, e)
      BY <1>5 DEF e
    <3>2. QED
      BY <2>1, <2>2, <3>1, AppendProperties
  <2>4. DOMAIN queue' = 1 .. n
    BY <2>3, LenProperties
  <2>5. QED
    BY <1>3, <2>3, <2>4
<1>6. n \notin DOMAIN queue
  BY <1>3
<1>7. frames'[f].idx = left /\ frames'[f].off = off
  BY <1>1
<1>8. QED
  BY <1>2, <1>4, <1>5, <1>6, <1>7, Zenon

-----------------------------------------------------------------------------
(* No two holders share a slot of the arena.                               *)

\* No step makes two holders share an arena slot.
LEMMA SlotsStep ==
  ASSUME TypeInv, SlotsNotShared, [Next]_vars
  PROVE  SlotsNotShared'
<1>1. CASE Still
  BY <1>1 DEF Still, SlotsNotShared, Active, FrameIds, Known
<1>2. ASSUME NEW seq \in Seqs, Redundant(seq)
      PROVE  SlotsNotShared'
  BY <1>2 DEF Redundant, Accepted, SlotsNotShared, Active, FrameIds, Known
<1>3. ASSUME NEW seq \in Seqs, NEW payload \in Payloads(seq), SolveOne(seq, payload)
      PROVE  SlotsNotShared'
  BY <1>3, SolveOneFacts, Fields DEF SlotsNotShared, TypeInv
<1>4. ASSUME NEW seq \in Seqs, NEW payload \in Payloads(seq), Store(seq, payload)
      PROVE  SlotsNotShared'
  <2> DEFINE new == Len(frames) + 1
  <2>1. /\ new \notin FrameIds
        /\ Active' = Active \cup {new}
        /\ \A f \in Active : frames'[f] = frames[f]
        /\ frames'[new].off = Len(arena) + 1
        /\ queue = <<>>
        /\ Len(arena) + 1 \notin Offsets
        /\ Known' = Known
        /\ solved' = solved /\ queue' = queue
    BY <1>4, StoreFacts
  <2>2. /\ Active \subseteq FrameIds
        /\ \A f \in FrameIds : frames[f].off \in Offsets
        /\ \A b \in Known : solved[b] \in Offsets
    BY Fields DEF TypeInv
  <2>3. DOMAIN queue = {}
    BY <2>1
  <2> HIDE DEF new
  <2>4. QED
    BY <2>1, <2>2, <2>3 DEF SlotsNotShared
<1>5. CASE SkipSolved
  <2>1. /\ DOMAIN queue' = DOMAIN queue \ {Len(queue)}
        /\ \A i \in DOMAIN queue' : queue'[i] = queue[i]
    BY <1>5, PopFacts DEF SkipSolved, TypeInv
  <2>2. Active' = Active /\ Known' = Known /\ frames' = frames /\ solved' = solved
    BY <1>5 DEF SkipSolved, equations, Active, FrameIds, Known
  <2>3. QED
    BY <2>1, <2>2 DEF SlotsNotShared
<1>6. CASE Solve
  <2> DEFINE n == Len(queue)
             b == queue[n].block
  <2>1. /\ n \in DOMAIN queue
        /\ Last(queue) = queue[n]
        /\ DOMAIN queue' = DOMAIN queue \ {n}
        /\ \A i \in DOMAIN queue' : queue'[i] = queue[i]
    BY <1>6, PopFacts DEF Solve, TypeInv
  <2>2. Known' = Known \cup {b} /\ b \notin Known
    BY <1>6, <2>1, KnownGrows DEF TypeInv
  <2>3. /\ solved'[b] = queue[n].off
        /\ \A c \in Known : solved'[c] = solved[c]
    BY <1>6, <2>1, <2>2, Fields DEF Solve, TypeInv, TypeOK, Known
  <2>4. Active' = Active /\ frames' = frames
    BY <1>6 DEF Solve, Active, FrameIds
  <2> HIDE DEF n, b
  <2>5. QED
    BY <2>1, <2>2, <2>3, <2>4 DEF SlotsNotShared
<1>7. CASE SkipInactive
  BY <1>7 DEF SkipInactive, equations, SlotsNotShared, Active, FrameIds, Known
<1>8. CASE Peel
  <2> DEFINE f == Head(waiting)
             left == frames[f].idx \ {cur}
             off == frames[f].off
             n == Len(queue) + 1
  <2>1. /\ f \in Active
        /\ frames'[f].off = off
        /\ \A g \in Active : g # f => frames'[g] = frames[g]
        /\ Known' = Known /\ solved' = solved
    BY <1>8, PeelFacts, PeelSteps DEF TypeInv, Peel, Active
  <2>2. Active' \subseteq Active
    BY <1>8, PeelSteps
  <2>3. CASE queue' = queue
    BY <2>1, <2>2, <2>3 DEF SlotsNotShared
  <2>4. CASE queue' # queue
    <3>1. /\ DOMAIN queue' = DOMAIN queue \cup {n}
          /\ \A i \in DOMAIN queue : queue'[i] = queue[i]
          /\ queue'[n].off = off
          /\ n \notin DOMAIN queue
          /\ Freed(left) # {}
      BY <1>8, <2>4, PeelSteps
    <3>2. f \notin Active'
      <4>1. ~ (Cardinality(left) > 1)
        <5>1. left \in SUBSET Blocks
          BY <1>8, PeelFacts DEF TypeInv
        <5>2. \E r : left = {r}
          BY <3>1 DEF Freed
        <5>3. QED
          BY <5>1, <5>2, SeveralBlocks
      <4>2. QED
        BY <1>8, <4>1, PeelSteps
    <3> HIDE DEF f, n, off, left
    <3>3. QED
      BY <2>1, <2>2, <3>1, <3>2 DEF SlotsNotShared, off
  <2>5. QED
    BY <2>3, <2>4
<1>9. QED
  BY <1>1, <1>2, <1>3, <1>4, <1>5, <1>6, <1>7, <1>8, StepCases

-----------------------------------------------------------------------------
(* The adjacency lists lead to exactly the frames that wait.               *)

\* A list of frame ids holds nothing but the ids of stored frames.
LEMMA ListsInFrameIds ==
  ASSUME TypeOK
  PROVE  /\ \A b \in Blocks : by_block[b] \in Seq(FrameIds) /\ Range(by_block[b]) \subseteq FrameIds
         /\ Range(waiting) \subseteq FrameIds
<1>1. ASSUME NEW s \in Seq(FrameIds)
      PROVE  Range(s) \subseteq FrameIds
  BY ElementOfSeq, LenProperties DEF Range
<1>2. QED
  BY <1>1 DEF TypeOK

\* Every step keeps by_block and the active frames in correspondence.
LEMMA AdjacentStep ==
  ASSUME TypeInv, Adjacent, [Next]_vars
  PROVE  Adjacent'
<1>1. CASE Still
  BY <1>1 DEF Still, Adjacent, Active, FrameIds, Known
<1>2. ASSUME NEW seq \in Seqs, Redundant(seq)
      PROVE  Adjacent'
  BY <1>2 DEF Redundant, Accepted, Adjacent, Active, FrameIds, Known
<1>3. ASSUME NEW seq \in Seqs, NEW payload \in Payloads(seq), SolveOne(seq, payload)
      PROVE  Adjacent'
  BY <1>3, SolveOneFacts DEF Adjacent
<1>4. ASSUME NEW seq \in Seqs, NEW payload \in Payloads(seq), Store(seq, payload)
      PROVE  Adjacent'
  <2> DEFINE new == Len(frames) + 1
             U == Unsolved(seq)
  <2>1. /\ new \notin FrameIds
        /\ Active' = Active \cup {new}
        /\ \A f \in Active : frames'[f] = frames[f]
        /\ frames'[new].idx = U
        /\ waiting = <<>> /\ waiting' = <<>>
        /\ Known' = Known
        /\ \A b \in Blocks : by_block'[b] = IF b \in U THEN Append(by_block[b], new)
                                                       ELSE by_block[b]
    BY <1>4, StoreFacts
  <2>2. Active \subseteq FrameIds
    BY DEF Active
  <2>3. U \in SUBSET Blocks /\ U \cap Known = {}
    BY UnsolvedType
  <2>4. FrameIds \subseteq FrameIds' /\ new \in FrameIds'
    BY <1>4, FramesGrow DEF TypeInv
  <2>5. Known \subseteq Blocks
    BY DEF Known
  <2> HIDE DEF new, U
  <2>6. ASSUME NEW b \in Blocks
        PROVE  /\ Range(by_block'[b]) = IF b \in U THEN Range(by_block[b]) \cup {new}
                                                   ELSE Range(by_block[b])
               /\ new \notin Range(by_block[b])
               /\ IsInjective(by_block'[b])
    <3>1. by_block[b] \in Seq(FrameIds) /\ Range(by_block[b]) \subseteq FrameIds
      BY ListsInFrameIds DEF TypeInv
    <3>2. by_block[b] \in Seq(FrameIds')
      BY <2>4, <3>1, SeqMonotonic
    <3>3. new \notin Range(by_block[b]) /\ IsInjective(by_block[b])
      BY <2>1, <3>1 DEF Adjacent
    <3>4. /\ Range(Append(by_block[b], new)) = Range(by_block[b]) \cup {new}
          /\ IsInjective(Append(by_block[b], new))
      BY <2>4, <3>2, <3>3, RangeAppend
    <3>5. by_block'[b] = IF b \in U THEN Append(by_block[b], new) ELSE by_block[b]
      BY <2>1
    <3>6. QED
      BY <3>3, <3>4, <3>5
  <2>7. \A b \in Known' : by_block'[b] = <<>>
    BY <2>1, <2>3, <2>5 DEF Adjacent
  <2>8. Range(waiting') = {} /\ IsInjective(waiting') /\ Range(waiting) = {}
    BY <2>1, RangeEmpty
  <2>9. ASSUME NEW f \in Active'
        PROVE  /\ \A b \in frames'[f].idx : b \notin Known' /\ f \in Range(by_block'[b])
               /\ \A b \in Blocks : f \in Range(by_block'[b]) => b \in frames'[f].idx
    <3>1. CASE f = new
      BY <2>1, <2>3, <2>6, <3>1
    <3>2. CASE f # new
      <4>1. f \in Active /\ frames'[f] = frames[f]
        BY <2>1, <3>2
      <4>2. frames[f].idx \subseteq Blocks
        BY <2>2, <4>1, Fields DEF TypeInv
      <4>3. \A b \in frames[f].idx : b \notin Known /\ f \in Range(by_block[b])
        BY <2>8, <4>1 DEF Adjacent
      <4>4. \A b \in Blocks : f \in Range(by_block[b]) => b \in frames[f].idx
        BY <4>1 DEF Adjacent
      <4>5. QED
        BY <2>1, <2>6, <3>2, <4>1, <4>2, <4>3, <4>4
    <3>3. QED
      BY <3>1, <3>2
  <2>10. QED
    BY <2>6, <2>7, <2>8, <2>9 DEF Adjacent
<1>5. CASE SkipSolved
  BY <1>5 DEF SkipSolved, equations, Adjacent, Active, FrameIds, Known
<1>6. CASE Solve
  <2> DEFINE b == Last(queue).block
  <2>1. Known' = Known \cup {b} /\ b \notin Known /\ b \in Blocks
    BY <1>6, KnownGrows DEF TypeInv
  <2>2. Active' = Active /\ frames' = frames /\ waiting = <<>>
    BY <1>6 DEF Solve, Active, FrameIds
  <2>3. /\ cur' = b /\ waiting' = by_block[b]
        /\ \A c \in Blocks : by_block'[c] = IF c = b THEN <<>> ELSE by_block[c]
    BY <1>6, <2>1 DEF Solve, TypeInv, TypeOK
  <2>4. Range(waiting) = {} /\ Known \subseteq Blocks
    BY <2>2, RangeEmpty DEF Known
  <2>5. \A f \in Active : frames[f].idx \subseteq Blocks
    BY Fields DEF TypeInv
  <2> HIDE DEF b
  <2>6. \A c \in Known' : by_block'[c] = <<>>
    BY <2>1, <2>3, <2>4 DEF Adjacent
  <2>7. /\ \A c \in Blocks : IsInjective(by_block'[c])
        /\ IsInjective(waiting')
    BY <2>1, <2>3, RangeEmpty DEF Adjacent
  <2>8. \A f \in Active : \A c \in frames[f].idx : c \notin Known /\ f \in Range(by_block[c])
    BY <2>4 DEF Adjacent
  <2>9. \A f \in Active' : \A c \in frames'[f].idx :
          \/ c \notin Known' /\ f \in Range(by_block'[c])
          \/ c = cur' /\ f \in Range(waiting')
    BY <2>1, <2>2, <2>3, <2>5, <2>8
  <2>10. \A f \in Active', c \in Blocks :
           f \in Range(by_block'[c]) => c \in frames'[f].idx
    BY <2>2, <2>3, RangeEmpty DEF Adjacent
  <2>11. \A f \in Active' : f \in Range(waiting') => cur' \in frames'[f].idx
    BY <2>1, <2>2, <2>3 DEF Adjacent
  <2>12. QED
    BY <2>6, <2>7, <2>9, <2>10, <2>11 DEF Adjacent
<1>7. CASE SkipInactive
  <2>1. /\ Range(waiting) = Range(waiting') \cup {Head(waiting)}
        /\ IsInjective(waiting) => IsInjective(waiting')
    BY <1>7, RangeTail DEF SkipInactive, TypeInv, TypeOK
  <2>2. Head(waiting) \notin Active
    BY <1>7 DEF SkipInactive, Active
  <2>3. /\ Active' = Active /\ Known' = Known
        /\ UNCHANGED <<frames, by_block, cur>>
    BY <1>7 DEF SkipInactive, equations, Active, FrameIds, Known
  <2>4. QED
    BY <2>1, <2>2, <2>3 DEF Adjacent
<1>8. CASE Peel
  <2> DEFINE f == Head(waiting)
             left == frames[f].idx \ {cur}
  <2>1. /\ f \in Active /\ cur \in Known /\ cur \in Blocks
        /\ Active \subseteq FrameIds
        /\ \A g \in FrameIds : g # f => frames'[g] = frames[g]
        /\ frames'[f].idx = left
        /\ Active' \subseteq Active
        /\ Known' = Known
        /\ UNCHANGED <<by_block, cur>>
    BY <1>8, PeelFacts, PeelSteps DEF TypeInv, Peel, Active
  <2>2. /\ Range(waiting) = Range(waiting') \cup {f}
        /\ IsInjective(waiting) => IsInjective(waiting') /\ f \notin Range(waiting')
    BY <1>8, RangeTail DEF Peel, TypeInv, TypeOK
  <2>3. Range(by_block[cur]) = {}
    BY <2>1, RangeEmpty DEF Adjacent
  <2> HIDE DEF f
  <2>4. /\ \A b \in Known' : by_block'[b] = <<>>
        /\ \A b \in Blocks : IsInjective(by_block'[b])
        /\ IsInjective(waiting')
    BY <2>1, <2>2 DEF Adjacent
  <2>5. ASSUME NEW g \in Active'
        PROVE  /\ \A b \in frames'[g].idx :
                    \/ b \notin Known' /\ g \in Range(by_block'[b])
                    \/ b = cur' /\ g \in Range(waiting')
               /\ \A b \in Blocks : g \in Range(by_block'[b]) => b \in frames'[g].idx
               /\ g \in Range(waiting') => cur' \in frames'[g].idx
    <3>1. CASE g = f
      BY <2>1, <2>2, <2>3, <3>1 DEF Adjacent
    <3>2. CASE g # f
      BY <2>1, <2>2, <3>2 DEF Adjacent
    <3>3. QED
      BY <3>1, <3>2
  <2>6. QED
    BY <2>4, <2>5 DEF Adjacent
<1>9. QED
  BY <1>1, <1>2, <1>3, <1>4, <1>5, <1>6, <1>7, <1>8, StepCases

-----------------------------------------------------------------------------
(* What the slots hold.                                                    *)

ContentInv == SolvedCorrect /\ EquationsHeld

(* A reduced payload keeps exactly the unsolved part of its equation.      *)
LEMMA ReducedType ==
  ASSUME TypeOK, SolvedCorrect, NEW seq \in Seqs, NEW payload \in Payloads(seq)
  PROVE  Reduced(seq, payload) \ Noise = Unsolved(seq)
<1> DEFINE val == [b \in Known |-> arena[solved[b]]]
           S == Equation(seq) \ Unsolved(seq)
<1>1. Equation(seq) \in SUBSET Blocks
  BY EquationType
<1>2. S \in SUBSET Blocks /\ S \subseteq Known
  BY <1>1 DEF Unsolved, Known
<1>3. \A b \in S : val[b] \ Noise = {b}
  BY <1>2 DEF SolvedCorrect
<1>4. XorSum(S, val) \ Noise = S
  <2> HIDE DEF val, S
  <2>1. QED
    BY <1>2, <1>3, XorSumOfSource
<1>5. payload \ Noise = Equation(seq)
  BY PayloadType
<1>6. Unsolved(seq) \subseteq Equation(seq)
  BY DEF Unsolved
<1>7. QED
  BY <1>4, <1>5, <1>6 DEF Reduced, Xor

\* Every step keeps each slot the XOR of exactly what its holder claims.
LEMMA ContentStep ==
  ASSUME TypeInv, SlotsNotShared, Adjacent, ContentInv, [Next]_vars
  PROVE  ContentInv'
<1> USE DEF ContentInv
<1>1. CASE Still
  BY <1>1 DEF Still, SolvedCorrect, EquationsHeld, Active, FrameIds, Known
<1>2. ASSUME NEW seq \in Seqs, Redundant(seq)
      PROVE  ContentInv'
  BY <1>2 DEF Redundant, Accepted, SolvedCorrect, EquationsHeld, Active, FrameIds, Known
<1>3. ASSUME NEW seq \in Seqs, NEW payload \in Payloads(seq), SolveOne(seq, payload)
      PROVE  ContentInv'
  <2>1. Reduced(seq, payload) \ Noise = Unsolved(seq)
    BY ReducedType DEF TypeInv
  <2>2. \A b \in Known : solved[b] \in Offsets
    BY Fields DEF TypeInv
  <2>3. \A f \in Active : frames[f].off \in Offsets
    BY Fields DEF TypeInv
  <2>4. QED
    BY <1>3, <2>1, <2>2, <2>3, SolveOneFacts DEF SolvedCorrect, EquationsHeld
<1>4. ASSUME NEW seq \in Seqs, NEW payload \in Payloads(seq), Store(seq, payload)
      PROVE  ContentInv'
  <2> DEFINE new == Len(frames) + 1
  <2>1. Reduced(seq, payload) \ Noise = Unsolved(seq)
    BY ReducedType DEF TypeInv
  <2>2. \A b \in Known : solved[b] \in Offsets
    BY Fields DEF TypeInv
  <2>3. \A f \in Active : frames[f].off \in Offsets
    BY Fields DEF TypeInv
  <2>4. /\ Active' = Active \cup {new}
        /\ \A f \in Active : frames'[f] = frames[f]
        /\ frames'[new].idx = Unsolved(seq)
        /\ frames'[new].off = Len(arena) + 1
        /\ Cardinality(Unsolved(seq)) > 1
        /\ queue' = <<>>
        /\ \A o \in Offsets : arena'[o] = arena[o]
        /\ arena'[Len(arena) + 1] = Reduced(seq, payload)
        /\ Known' = Known /\ solved' = solved
    BY <1>4, StoreFacts
  <2> HIDE DEF new
  <2>5. SolvedCorrect'
    BY <2>2, <2>4 DEF SolvedCorrect
  <2>6. ASSUME NEW f \in Active'
        PROVE  arena'[frames'[f].off] \ Noise = frames'[f].idx /\ Cardinality(frames'[f].idx) > 1
    <3>1. CASE f \in Active
      BY <2>3, <2>4, <3>1 DEF EquationsHeld
    <3>2. CASE f = new
      BY <2>1, <2>4, <3>2
    <3>3. QED
      BY <2>4, <3>1, <3>2
  <2>7. QED
    BY <2>4, <2>5, <2>6 DEF EquationsHeld
<1>5. CASE SkipSolved
  <2>1. /\ DOMAIN queue' = DOMAIN queue \ {Len(queue)}
        /\ \A i \in DOMAIN queue' : queue'[i] = queue[i]
    BY <1>5, PopFacts DEF SkipSolved, TypeInv
  <2>2. /\ Active' = Active /\ Known' = Known
        /\ UNCHANGED <<frames, solved, arena>>
    BY <1>5 DEF SkipSolved, equations, Active, FrameIds, Known
  <2>3. QED
    BY <2>1, <2>2 DEF SolvedCorrect, EquationsHeld
<1>6. CASE Solve
  <2> DEFINE n == Len(queue)
             b == queue[n].block
  <2>1. /\ n \in DOMAIN queue
        /\ Last(queue) = queue[n]
        /\ DOMAIN queue' = DOMAIN queue \ {n}
        /\ \A i \in DOMAIN queue' : queue'[i] = queue[i]
    BY <1>6, PopFacts DEF Solve, TypeInv
  <2>2. Known' = Known \cup {b}
    BY <1>6, <2>1, KnownGrows DEF TypeInv
  <2>3. /\ solved'[b] = queue[n].off
        /\ \A c \in Known : solved'[c] = solved[c]
    BY <1>6, <2>1, <2>2, KnownGrows, Fields DEF Solve, TypeInv, TypeOK, Known
  <2>4. Active' = Active /\ frames' = frames /\ arena' = arena
    BY <1>6 DEF Solve, Active, FrameIds
  <2>5. arena[queue[n].off] \ Noise = {b}
    BY <2>1 DEF EquationsHeld
  <2> HIDE DEF n, b
  <2>6. QED
    BY <2>1, <2>2, <2>3, <2>4, <2>5 DEF SolvedCorrect, EquationsHeld
<1>7. CASE SkipInactive
  BY <1>7 DEF SkipInactive, equations, SolvedCorrect, EquationsHeld, Active, FrameIds, Known
<1>8. CASE Peel
  <2> DEFINE f == Head(waiting)
             left == frames[f].idx \ {cur}
             off == frames[f].off
             n == Len(queue) + 1
  <2>1. /\ f \in Active /\ cur \in Known
        /\ arena'[off] = Xor(arena[off], arena[solved[cur]])
        /\ \A o \in Offsets : o # off => arena'[o] = arena[o]
        /\ \A g \in Active : g # f => frames'[g] = frames[g]
        /\ frames'[f].idx = left /\ frames'[f].off = off
        /\ Active' \subseteq Active
        /\ f \in Active' => Cardinality(left) > 1
        /\ Known' = Known /\ solved' = solved
    BY <1>8, PeelFacts, PeelSteps DEF TypeInv, Peel, Active
  <2>2. cur \in frames[f].idx
    <3>1. f \in Range(waiting)
      BY <1>8, RangeTail DEF Peel, TypeInv, TypeOK
    <3>2. QED
      BY <2>1, <3>1 DEF Adjacent
  <2>3. /\ \A g \in Active : frames[g].off \in Offsets
        /\ \A b \in Known : solved[b] \in Offsets
        /\ \A i \in DOMAIN queue : queue[i].off \in Offsets
    BY Fields DEF TypeInv
  <2>4. arena'[off] \ Noise = left
    <3>1. arena[off] \ Noise = frames[f].idx
      BY <2>1 DEF EquationsHeld
    <3>2. arena[solved[cur]] \ Noise = {cur}
      BY <2>1 DEF SolvedCorrect
    <3>3. QED
      BY <2>1, <2>2, <3>1, <3>2 DEF Xor
  <2> HIDE DEF f
  <2>5. SolvedCorrect'
    <3>1. \A b \in Known : solved[b] # off
      BY <2>1 DEF SlotsNotShared
    <3>2. QED
      BY <2>1, <2>3, <3>1 DEF SolvedCorrect
  <2>6. ASSUME NEW g \in Active'
        PROVE  arena'[frames'[g].off] \ Noise = frames'[g].idx /\ Cardinality(frames'[g].idx) > 1
    <3>1. CASE g = f
      BY <2>1, <2>4, <3>1
    <3>2. CASE g # f
      <4>1. g \in Active /\ frames'[g] = frames[g] /\ frames[g].off # off
        BY <2>1, <3>2 DEF SlotsNotShared
      <4>2. QED
        BY <2>1, <2>3, <4>1 DEF EquationsHeld
    <3>3. QED
      BY <3>1, <3>2
  <2>7. ASSUME NEW i \in DOMAIN queue'
        PROVE  arena'[queue'[i].off] \ Noise = {queue'[i].block}
    <3>1. ASSUME NEW j \in DOMAIN queue
          PROVE  arena'[queue[j].off] \ Noise = {queue[j].block}
      <4>1. queue[j].off # off /\ queue[j].off \in Offsets
        BY <2>1, <2>3 DEF SlotsNotShared
      <4>2. QED
        BY <2>1, <4>1 DEF EquationsHeld
    <3>2. CASE queue' = queue
      BY <3>1, <3>2
    <3>3. CASE queue' # queue
      <4>1. PICK r \in Freed(left) : /\ DOMAIN queue' = DOMAIN queue \cup {n}
                                     /\ \A j \in DOMAIN queue : queue'[j] = queue[j]
                                     /\ queue'[n].block = r
                                     /\ queue'[n].off = off
        BY <1>8, <3>3, PeelSteps DEF f
      <4>2. left = {r}
        BY DEF Freed
      <4> HIDE DEF n, left, off
      <4>3. QED
        BY <2>4, <3>1, <4>1, <4>2
    <3>4. QED
      BY <3>2, <3>3
  <2>8. QED
    BY <2>5, <2>6, <2>7 DEF EquationsHeld
<1>9. QED
  BY <1>1, <1>2, <1>3, <1>4, <1>5, <1>6, <1>7, <1>8, StepCases

-----------------------------------------------------------------------------
(* Accepted equations and the holders of what they leave open.             *)

\* Every step keeps a holder for what each accepted equation leaves open.
LEMMA TracedStep ==
  ASSUME TypeInv, Adjacent, EquationsHeld, Traced, [Next]_vars
  PROVE  Traced'
<1>1. CASE Still
  BY <1>1 DEF Still, Traced, Open, Active, FrameIds, Known
<1>2. ASSUME NEW seq \in Seqs, Redundant(seq)
      PROVE  Traced'
  <2>1. Open(Equation(seq)) = {}
    BY <1>2, UnsolvedType DEF Redundant, Open
  <2>2. /\ seen' = seen \cup {seq} /\ Known' = Known /\ Active' = Active
        /\ UNCHANGED <<frames, queue>>
    BY <1>2 DEF Redundant, Accepted, Active, FrameIds, Known
  <2>3. QED
    BY <2>1, <2>2 DEF Traced, Open
<1>3. ASSUME NEW seq \in Seqs, NEW payload \in Payloads(seq), SolveOne(seq, payload)
      PROVE  Traced'
  <2>1. PICK b \in Blocks : Unsolved(seq) = {b} /\ DOMAIN queue' = {1} /\ queue'[1].block = b
    BY <1>3, SolveOneFacts
  <2>2. /\ DOMAIN queue = {} /\ seen' = seen \cup {seq}
        /\ Active' = Active /\ Known' = Known /\ frames' = frames
    BY <1>3, SolveOneFacts
  <2>3. Equation(seq) \ Known = {b} /\ b \notin Known
    BY <2>1, UnsolvedType
  <2>4. QED
    BY <2>1, <2>2, <2>3 DEF Traced, Open
<1>4. ASSUME NEW seq \in Seqs, NEW payload \in Payloads(seq), Store(seq, payload)
      PROVE  Traced'
  <2> DEFINE new == Len(frames) + 1
  <2>1. /\ Active' = Active \cup {new}
        /\ \A f \in Active : frames'[f] = frames[f]
        /\ frames'[new].idx = Unsolved(seq)
        /\ DOMAIN queue = {} /\ queue' = queue
        /\ seen' = seen \cup {seq}
        /\ Known' = Known
    BY <1>4, StoreFacts
  <2>2. Unsolved(seq) = Equation(seq) \ Known
    BY UnsolvedType
  <2> HIDE DEF new
  <2>3. \A f \in Active' : \E e \in seen' : Open(Equation(e))' = Open(frames[f].idx)'
    BY <2>1, <2>2 DEF Traced, Open
  <2>4. \A e \in seen' : \/ Open(Equation(e))' = {}
                         \/ \E f \in Active' : Open(Equation(e))' = Open(frames[f].idx)'
    BY <2>1, <2>2 DEF Traced, Open
  <2>5. QED
    BY <2>1, <2>3, <2>4 DEF Traced
<1>5. CASE SkipSolved
  <2> DEFINE n == Len(queue)
  <2>1. /\ n \in DOMAIN queue
        /\ Last(queue) = queue[n]
        /\ DOMAIN queue' = DOMAIN queue \ {n}
        /\ \A i \in DOMAIN queue' : queue'[i] = queue[i]
    BY <1>5, PopFacts DEF SkipSolved, TypeInv
  <2>2. queue[n].block \in Known
    BY <1>5, <2>1, Fields DEF SkipSolved, Known, TypeInv
  <2>3. Known' = Known /\ Active' = Active /\ frames' = frames /\ seen' = seen
    BY <1>5 DEF SkipSolved, equations, Active, FrameIds, Known
  <2> HIDE DEF n
  <2>4. QED
    BY <2>1, <2>2, <2>3 DEF Traced, Open
<1>6. CASE Solve
  <2> DEFINE n == Len(queue)
             b == queue[n].block
  <2>1. /\ n \in DOMAIN queue
        /\ Last(queue) = queue[n]
        /\ DOMAIN queue' = DOMAIN queue \ {n}
        /\ \A i \in DOMAIN queue' : queue'[i] = queue[i]
    BY <1>6, PopFacts DEF Solve, TypeInv
  <2>2. Known' = Known \cup {b}
    BY <1>6, <2>1, KnownGrows DEF TypeInv
  <2>3. Active' = Active /\ frames' = frames /\ seen' = seen
    BY <1>6 DEF Solve, Active, FrameIds
  <2>4. \A X : X \ Known' = (X \ Known) \ {b}
    BY <2>2
  <2> HIDE DEF n
  <2>5. ASSUME NEW e \in seen'
        PROVE  \/ Open(Equation(e))' = {}
               \/ \E f \in Active' : Open(Equation(e))' = Open(frames[f].idx)'
               \/ \E i \in DOMAIN queue' : Open(Equation(e))' = Open({queue[i].block})'
    <3>1. CASE Open(Equation(e)) = {}
      BY <2>4, <3>1 DEF Open
    <3>2. CASE \E f \in Active : Open(Equation(e)) = Open(frames[f].idx)
      BY <2>3, <2>4, <3>2 DEF Open
    <3>3. CASE \E i \in DOMAIN queue : Open(Equation(e)) = Open({queue[i].block})
      <4>1. PICK i \in DOMAIN queue : Open(Equation(e)) = Open({queue[i].block})
        BY <3>3
      <4>2. CASE i = n
        BY <2>4, <4>1, <4>2 DEF Open
      <4>3. CASE i # n
        BY <2>1, <2>4, <4>1, <4>3 DEF Open
      <4>4. QED
        BY <4>2, <4>3
    <3>4. QED
      BY <2>3, <3>1, <3>2, <3>3 DEF Traced
  <2>6. \A f \in Active' : \E e \in seen' : Open(Equation(e))' = Open(frames[f].idx)'
    <3>1. \A f \in Active : \E e \in seen : Open(Equation(e)) = Open(frames[f].idx)
      BY DEF Traced
    <3>2. QED
      BY <2>3, <2>4, <3>1 DEF Open
  <2>7. \A i \in DOMAIN queue' : \E e \in seen' : Open(Equation(e))' = Open({queue[i].block})'
    <3>1. \A i \in DOMAIN queue : \E e \in seen : Open(Equation(e)) = Open({queue[i].block})
      BY DEF Traced
    <3>2. QED
      BY <2>1, <2>3, <2>4, <3>1 DEF Open
  <2>8. QED
    BY <2>5, <2>6, <2>7 DEF Traced
<1>7. CASE SkipInactive
  BY <1>7 DEF SkipInactive, equations, Traced, Open, Active, FrameIds, Known
<1>8. CASE Peel
  <2> DEFINE f == Head(waiting)
             left == frames[f].idx \ {cur}
             n == Len(queue) + 1
  <2>1. /\ f \in Active /\ cur \in Known
        /\ \A g \in Active : g # f => frames'[g] = frames[g]
        /\ frames'[f].idx = left
        /\ left \in SUBSET Blocks
        /\ Known' = Known /\ seen' = seen
    BY <1>8, PeelFacts, PeelSteps DEF TypeInv, Peel, Active
  <2>2. Active' = IF Cardinality(left) > 1 THEN Active ELSE Active \ {f}
    BY <1>8, PeelSteps
  <2>3. left # {}
    <3>1. frames[f].idx \in SUBSET Blocks
      BY <2>1, Fields DEF TypeInv
    <3>2. frames[f].idx # {} /\ frames[f].idx # {cur}
      BY <2>1, <3>1, SeveralBlocks DEF EquationsHeld
    <3>3. QED
      BY <3>2
  <2>4. \A r \in left : solved[r] = None
    BY <2>1 DEF Adjacent, Known
  <2>5. Open(left) = Open(frames[f].idx)
    BY <2>1 DEF Open
  <2>6. CASE Cardinality(left) > 1
    <3>1. Freed(left) = {}
      BY <2>1, <2>6, SeveralBlocks DEF Freed
    <3>2. queue' = queue
      BY <1>8, <3>1, PeelSteps
    <3> HIDE DEF f, left
    <3>3. QED
      BY <2>1, <2>2, <2>5, <2>6, <3>2 DEF Traced, Open
  <2>7. CASE ~ (Cardinality(left) > 1)
    <3>1. PICK r : left = {r}
      BY <2>1, <2>3, <2>7, SeveralBlocks
    <3>2. Freed(left) = {r}
      BY <2>4, <3>1 DEF Freed
    <3>3. /\ DOMAIN queue' = DOMAIN queue \cup {n}
          /\ \A i \in DOMAIN queue : queue'[i] = queue[i]
          /\ queue'[n].block = r
      BY <1>8, <3>2, PeelSteps
    <3> HIDE DEF f, left, n
    <3>4. Active' = Active \ {f}
      BY <2>2, <2>7
    <3>5. Open({r}) = Open(frames[f].idx)
      BY <2>5, <3>1
    <3>6. ASSUME NEW e \in seen'
          PROVE  \/ Open(Equation(e))' = {}
                 \/ \E g \in Active' : Open(Equation(e))' = Open(frames[g].idx)'
                 \/ \E i \in DOMAIN queue' : Open(Equation(e))' = Open({queue[i].block})'
      <4>1. CASE Open(Equation(e)) = {}
        BY <2>1, <4>1 DEF Open
      <4>2. CASE \E g \in Active : Open(Equation(e)) = Open(frames[g].idx)
        <5>1. PICK g \in Active : Open(Equation(e)) = Open(frames[g].idx)
          BY <4>2
        <5>2. CASE g = f
          BY <2>1, <3>3, <3>5, <5>1, <5>2 DEF Open
        <5>3. CASE g # f
          BY <2>1, <3>4, <5>1, <5>3 DEF Open
        <5>4. QED
          BY <5>2, <5>3
      <4>3. CASE \E i \in DOMAIN queue : Open(Equation(e)) = Open({queue[i].block})
        BY <2>1, <3>3, <4>3 DEF Open
      <4>4. QED
        BY <2>1, <4>1, <4>2, <4>3 DEF Traced
    <3>7. \A g \in Active' : \E e \in seen' : Open(Equation(e))' = Open(frames[g].idx)'
      BY <2>1, <3>4 DEF Traced, Open
    <3>8. ASSUME NEW i \in DOMAIN queue'
          PROVE  \E e \in seen' : Open(Equation(e))' = Open({queue[i].block})'
      <4>1. CASE i = n
        <5>1. PICK e \in seen : Open(Equation(e)) = Open(frames[f].idx)
          BY <2>1 DEF Traced
        <5>2. QED
          BY <2>1, <3>3, <3>5, <4>1, <5>1 DEF Open
      <4>2. CASE i # n
        BY <2>1, <3>3, <4>2 DEF Traced, Open
      <4>3. QED
        BY <4>1, <4>2
    <3>9. QED
      BY <3>6, <3>7, <3>8 DEF Traced
  <2>8. QED
    BY <2>6, <2>7
<1>9. QED
  BY <1>1, <1>2, <1>3, <1>4, <1>5, <1>6, <1>7, <1>8, StepCases

-----------------------------------------------------------------------------
(* Every solved block follows from the accepted equations.                 *)

\* The abstract equation of an accepted frame is the one add_frame derived.
LEMMA EqIsEquation == ASSUME TypeOK PROVE \A e \in seen : e \in Seqs /\ Eq[e] = Equation(e)
BY DEF TypeOK, Eq

\* When resolve solves a block, some accepted equation determines it.
LEMMA SolveDetermines ==
  ASSUME TypeInv, Traced, Solve
  PROVE  LET b == Last(queue).block
         IN /\ b \in Blocks
            /\ \E e \in seen : Eq[e] \ Known = {b}
            /\ Known' = Known \cup {b}
            /\ seen' = seen
<1> DEFINE n == Len(queue)
           b == Last(queue).block
<1>1. n \in DOMAIN queue /\ Last(queue) = queue[n]
  BY PopFacts DEF Solve, TypeInv
<1>2. /\ b \in Blocks /\ b \notin Known
      /\ Known' = Known \cup {b}
  BY KnownGrows DEF TypeInv
<1>3. PICK e \in seen : Open(Equation(e)) = Open({queue[n].block})
  BY <1>1 DEF Traced
<1>4. Eq[e] \ Known = {b}
  BY <1>1, <1>2, <1>3, EqIsEquation DEF Open, TypeInv
<1>5. seen' = seen
  BY DEF Solve
<1>6. QED
  BY <1>2, <1>4, <1>5

\* No step solves a block that the accepted equations do not determine.
LEMMA DerivedStep ==
  ASSUME TypeInv, Traced, Derived, [Next]_vars
  PROVE  Derived'
<1>1. ASSUME Known' = Known, seen \subseteq seen'
      PROVE  Derived'
  BY <1>1 DEF Derived, Abs!Closed, Eq
<1>2. CASE Still
  BY <1>1, <1>2 DEF Still, Known
<1>3. ASSUME NEW seq \in Seqs, Redundant(seq)
      PROVE  Derived'
  BY <1>1, <1>3 DEF Redundant, Accepted, Known
<1>4. ASSUME NEW seq \in Seqs, NEW payload \in Payloads(seq), SolveOne(seq, payload)
      PROVE  Derived'
  BY <1>1, <1>4, SolveOneFacts
<1>5. ASSUME NEW seq \in Seqs, NEW payload \in Payloads(seq), Store(seq, payload)
      PROVE  Derived'
  BY <1>1, <1>5, StoreFacts
<1>6. CASE SkipSolved
  BY <1>1, <1>6 DEF SkipSolved, equations, Known
<1>7. CASE Solve
  <2> DEFINE b == Last(queue).block
  <2>1. /\ b \in Blocks
        /\ \E e \in seen : Eq[e] \ Known = {b}
        /\ Known' = Known \cup {b}
        /\ seen' = seen
    BY <1>7, SolveDetermines
  <2> HIDE DEF b
  <2>2. ASSUME NEW X \in SUBSET Blocks, \A e \in seen, c \in Blocks : Eq[e] \ X # {c}
        PROVE  Known' \subseteq X
    <3>1. Known \subseteq X
      BY <2>2 DEF Derived, Abs!Closed
    <3>2. PICK e \in seen : Eq[e] \ Known = {b}
      BY <2>1
    <3>3. b \in X
      <4>1. Eq[e] \ X \subseteq {b} /\ b \in Eq[e]
        BY <3>1, <3>2
      <4>2. Eq[e] \ X # {b}
        BY <2>1, <2>2
      <4>3. QED
        BY <4>1, <4>2
    <3>4. QED
      BY <2>1, <3>1, <3>3
  <2>3. QED
    BY <2>1, <2>2 DEF Derived, Abs!Closed, Eq
<1>8. CASE SkipInactive
  BY <1>1, <1>8 DEF SkipInactive, equations, Known
<1>9. CASE Peel
  BY <1>1, <1>9, PeelFacts DEF Peel, TypeInv
<1>10. QED
  BY <1>2, <1>3, <1>4, <1>5, <1>6, <1>7, <1>8, <1>9, StepCases

-----------------------------------------------------------------------------
(* The inductive invariant.                                                *)

\* A new decoder satisfies the inductive invariant.
LEMMA InitIInv == Init => IInv
<1> SUFFICES ASSUME Init PROVE IInv
  OBVIOUS
<1>1. /\ Known = {} /\ Active = {} /\ DOMAIN queue = {} /\ seen = {}
      /\ waiting = <<>>
      /\ \A b \in Blocks : by_block[b] = <<>>
  BY DEF Init, Known, Active, FrameIds
<1>2. TypeOK /\ Counted /\ CurSolved
  BY TypeInit DEF TypeInv
<1>3. SlotsNotShared /\ SolvedCorrect /\ EquationsHeld
  BY <1>1 DEF SlotsNotShared, SolvedCorrect, EquationsHeld
<1>4. Adjacent
  BY <1>1, RangeEmpty DEF Adjacent
<1>5. Traced /\ Derived
  BY <1>1 DEF Traced, Derived
<1>6. QED
  BY <1>2, <1>3, <1>4, <1>5 DEF IInv

\* Every step of the decoder preserves the inductive invariant.
LEMMA NextIInv == IInv /\ [Next]_vars => IInv'
<1> SUFFICES ASSUME IInv, [Next]_vars PROVE IInv'
  OBVIOUS
<1>1. /\ TypeInv /\ SlotsNotShared /\ ContentInv /\ EquationsHeld
      /\ Adjacent /\ Traced /\ Derived
  BY DEF IInv, TypeInv, ContentInv
<1>2. TypeInv'
  BY <1>1, TypeStep
<1>3. SlotsNotShared'
  BY <1>1, SlotsStep
<1>4. ContentInv'
  BY <1>1, ContentStep
<1>5. Adjacent'
  BY <1>1, AdjacentStep
<1>6. Traced'
  BY <1>1, TracedStep
<1>7. Derived'
  BY <1>1, DerivedStep
<1>8. QED
  BY <1>2, <1>3, <1>4, <1>5, <1>6, <1>7 DEF IInv, TypeInv, ContentInv

(* The inductive invariant holds in every reachable state.                 *)
THEOREM Invariant == Spec => []IInv
BY InitIInv, NextIInv, PTL DEF Spec

-----------------------------------------------------------------------------
(* What follows.                                                           *)

(* xor_at never meets its own slot: the debug assertion of fountain.rs     *)
(* cannot fail, and no holder of a slot is disturbed by another.           *)
THEOREM SlotsAreOwned == Spec => []SlotsNotShared
<1>1. IInv => SlotsNotShared
  BY DEF IInv
<1>2. QED
  BY <1>1, Invariant, PTL

(* What assemble copies for a solved block is that block, whatever the     *)
(* order of arrival, whatever was dropped and whatever was duplicated.     *)
THEOREM DecodingIsSound == Spec => []SolvedCorrect
<1>1. IInv => SolvedCorrect
  BY DEF IInv
<1>2. QED
  BY <1>1, Invariant, PTL

LEMMA CompleteOfInv ==
  ASSUME IInv
  PROVE  CompleteMeansAll
<1>1. solved_count = Cardinality(Known) /\ solved_count \in 0 .. K
  BY DEF IInv, Counted, TypeOK
<1>2. Known \in SUBSET Blocks
  BY DEF Known
<1>3. Cardinality(Blocks) = Cardinality(Known) => Blocks = Known
  BY <1>2, BlocksFinite, FS_Subset
<1>4. QED
  BY <1>1, <1>3, BlocksFinite, KAssumption DEF CompleteMeansAll, IsComplete

(* is_complete compares a counter; it is right about the blocks.           *)
THEOREM CompletionIsTotal == Spec => []CompleteMeansAll
<1>1. IInv => CompleteMeansAll
  BY CompleteOfInv
<1>2. QED
  BY <1>1, Invariant, PTL

(* Between two calls nothing more follows from the accepted equations, and *)
(* a waiting frame has no solved block left.                               *)
LEMMA IdleFacts ==
  ASSUME IInv, Idle
  PROVE  /\ \A f \in Active : Open(frames[f].idx) = frames[f].idx
         /\ \A e \in seen : \/ Eq[e] \ Known = {}
                            \/ \E f \in Active : Eq[e] \ Known = frames[f].idx
         /\ \A e \in seen, b \in Blocks : Eq[e] \ Known # {b}
<1>1. /\ TypeOK /\ Adjacent /\ Traced /\ EquationsHeld
      /\ DOMAIN queue = {} /\ Range(waiting) = {}
  BY RangeEmpty DEF IInv, Idle
<1>2. \A f \in Active : Open(frames[f].idx) = frames[f].idx
  BY <1>1 DEF Adjacent, Open
<1>3. \A e \in seen : \/ Eq[e] \ Known = {}
                      \/ \E f \in Active : Eq[e] \ Known = frames[f].idx
  BY <1>1, <1>2, EqIsEquation DEF Traced, Open
<1>4. \A f \in Active, b \in Blocks : frames[f].idx # {b}
  BY <1>1, Fields, SeveralBlocks DEF EquationsHeld
<1>5. QED
  BY <1>2, <1>3, <1>4

(* No accepted equation is forgotten, and none is invented.                *)
THEOREM NothingIsLost == Spec => []NoEquationLost
<1>1. ASSUME IInv PROVE NoEquationLost
  <2> SUFFICES ASSUME Idle
               PROVE  {frames[f].idx : f \in Active} = {Eq[e] \ Known : e \in seen} \ {{}}
    BY DEF NoEquationLost
  <2>1. /\ \A f \in Active : Open(frames[f].idx) = frames[f].idx
        /\ \A e \in seen : \/ Eq[e] \ Known = {}
                           \/ \E f \in Active : Eq[e] \ Known = frames[f].idx
    BY <1>1, IdleFacts
  <2>2. \A f \in Active : \E e \in seen : Eq[e] \ Known = frames[f].idx
    BY <1>1, <2>1, EqIsEquation DEF IInv, Traced, Open
  <2>3. \A f \in Active : frames[f].idx # {}
    BY <1>1, Fields, SeveralBlocks DEF IInv, EquationsHeld
  <2>4. ASSUME NEW f \in Active
        PROVE  frames[f].idx \in {Eq[e] \ Known : e \in seen} \ {{}}
    BY <2>2, <2>3
  <2>5. ASSUME NEW e \in seen, Eq[e] \ Known # {}
        PROVE  Eq[e] \ Known \in {frames[f].idx : f \in Active}
    BY <2>1, <2>5
  <2>6. QED
    BY <2>4, <2>5
<1>2. QED
  BY <1>1, Invariant, PTL

(* The order of arrival does not matter to what is solved.                 *)
THEOREM OrderDoesNotMatter == Spec => []OrderIndependent
<1>1. ASSUME IInv PROVE OrderIndependent
  <2> SUFFICES ASSUME Idle PROVE Known = Abs!Closure(seen)
    BY DEF OrderIndependent
  <2>1. Abs!Closed(Known, seen)
    BY <1>1, IdleFacts DEF Abs!Closed
  <2>2. Known \in SUBSET Blocks
    BY DEF Known
  <2>3. Abs!Closure(seen) \subseteq Known
    BY <2>1, <2>2 DEF Abs!Closure
  <2>4. Known \subseteq Abs!Closure(seen)
    BY <1>1, <2>2 DEF IInv, Derived, Abs!Closure
  <2>5. QED
    BY <2>3, <2>4
<1>2. QED
  BY <1>1, Invariant, PTL

(* Every step is a step of the abstract peeling decoder, or none.          *)
THEOREM Refinement == Spec => Abs!SafeSpec
<1>1. Init => Abs!Init
  BY DEF Init, Abs!Init, Known
<1>2. ASSUME IInv, [Next]_vars
      PROVE  [Abs!Next]_(Abs!vars)
  <2>0. TypeInv /\ Traced
    BY <1>2 DEF IInv, TypeInv
  <2>1. ASSUME NEW seq \in Seqs, Idle, seen' = seen \cup {seq}, Known' = Known
        PROVE  Abs!Next
    BY <1>2, <2>1, IdleFacts DEF Abs!Next, Abs!Accept, Abs!Saturated, Abs!Determines
  <2>2. CASE Still
    BY <2>2 DEF Still, Abs!vars, Known
  <2>3. ASSUME NEW seq \in Seqs, Redundant(seq)
        PROVE  Abs!Next
    BY <2>1, <2>3 DEF Redundant, Accepted, Fresh, Known
  <2>4. ASSUME NEW seq \in Seqs, NEW payload \in Payloads(seq), SolveOne(seq, payload)
        PROVE  Abs!Next
    BY <2>1, <2>4 DEF SolveOne, Accepted, Fresh, Known
  <2>5. ASSUME NEW seq \in Seqs, NEW payload \in Payloads(seq), Store(seq, payload)
        PROVE  Abs!Next
    BY <2>1, <2>5 DEF Store, Accepted, Fresh, Known
  <2>6. CASE SkipSolved
    BY <2>6 DEF SkipSolved, equations, Abs!vars, Known
  <2>7. CASE Solve
    BY <2>0, <2>7, SolveDetermines DEF Abs!Next, Abs!Learn, Abs!Determines
  <2>8. CASE SkipInactive
    BY <2>8 DEF SkipInactive, equations, Abs!vars, Known
  <2>9. CASE Peel
    BY <2>0, <2>9, PeelFacts DEF Peel, Abs!vars, TypeInv
  <2>10. QED
    BY <1>2, <2>2, <2>3, <2>4, <2>5, <2>6, <2>7, <2>8, <2>9, StepCases
<1>3. QED
  BY <1>1, <1>2, Invariant, PTL DEF Spec, Abs!SafeSpec

LEMMA FirstPhaseOfInv ==
  ASSUME IInv
  PROVE  FirstPhaseSuffices
<1> SUFFICES ASSUME Idle, FirstPhase # {}, FirstPhase \subseteq seen
             PROVE  Known = Blocks
  BY CompleteOfInv DEF FirstPhaseSuffices, CompleteMeansAll, IInv
<1>1. SysSpan = K /\ FirstPhase = Blocks /\ K \in Nat
  BY KAssumption DEF FirstPhase, SysSpan, Blocks
<1>2. ASSUME NEW b \in Blocks
      PROVE  Eq[b] = IF Mode = "causal" /\ b # 0 THEN {b - 1, b} ELSE {b}
  <2>1. b \in seen
    BY <1>1
  <2>2. Eq[b] = Equation(b)
    BY <2>1, EqIsEquation DEF IInv
  <2>3. b < SysSpan /\ b % K = b
    BY <1>1 DEF Blocks
  <2>4. QED
    BY <2>2, <2>3 DEF Equation
<1>3. \A b, c \in Blocks : Eq[b] \ Known # {c}
  BY <1>1, IdleFacts
<1>4. ASSUME Blocks \ Known # {}
      PROVE  FALSE
  <2>1. PICK b \in Blocks \ Known : \A c \in Blocks \ Known : ~ (c < b)
    <3>1. Blocks \ Known \subseteq Nat
      BY DEF Blocks
    <3>2. IsWellFoundedOn(OpToRel(<, Nat), Nat)
      BY NatLessThanWellFounded
    <3>3. PICK b \in Blocks \ Known :
            \A c \in Blocks \ Known : ~ (<<c, b>> \in OpToRel(<, Nat))
      BY <1>4, <3>1, <3>2, WFMin
    <3>4. QED
      BY <3>1, <3>3 DEF OpToRel
  <2>2. CASE Mode = "causal" /\ b # 0
    <3>1. b - 1 \in Blocks /\ b - 1 < b
      <4>1. b \in Blocks
        BY <2>1
      <4>2. QED
        BY <1>1, <2>2, <4>1 DEF Blocks
    <3>2. b - 1 \in Known
      BY <2>1, <3>1
    <3>3. Eq[b] \ Known = {b}
      BY <1>2, <2>1, <2>2, <3>2
    <3>4. QED
      BY <1>3, <3>3
  <2>3. CASE ~ (Mode = "causal" /\ b # 0)
    <3>1. Eq[b] \ Known = {b}
      BY <1>2, <2>1, <2>3
    <3>2. QED
      BY <1>3, <3>1
  <2>4. QED
    BY <2>2, <2>3
<1>5. QED
  BY <1>4 DEF Known

(* The README's theorem, for every K and with any repair frames between:   *)
(* the first block that is not solved would be determined.                 *)
THEOREM FirstPhaseTheorem == Spec => []FirstPhaseSuffices
<1>1. IInv => FirstPhaseSuffices
  BY FirstPhaseOfInv
<1>2. QED
  BY <1>1, Invariant, PTL

(* A solved block stays what it is for the rest of the stream.             *)
THEOREM SolvedStays == Spec => SolvedIsStable
<1>1. ASSUME IInv, [Next]_vars
      PROVE  SolvedKept
  <2>0. TypeInv
    BY <1>1 DEF IInv, TypeInv
  <2> SUFFICES ASSUME NEW b \in Known
               PROVE  solved'[b] = solved[b] /\ arena'[solved[b]] = arena[solved[b]]
    BY DEF SolvedKept
  <2>1. b \in Blocks /\ solved[b] \in Offsets
    BY <2>0, Fields DEF TypeInv
  <2>2. CASE Still
    BY <2>2 DEF Still
  <2>3. ASSUME NEW seq \in Seqs, Redundant(seq)
        PROVE  solved' = solved /\ arena' = arena
    BY <2>3 DEF Redundant, Accepted
  <2>4. ASSUME NEW seq \in Seqs, NEW payload \in Payloads(seq), SolveOne(seq, payload)
        PROVE  solved' = solved /\ arena'[solved[b]] = arena[solved[b]]
    BY <2>0, <2>1, <2>4, SolveOneFacts
  <2>5. ASSUME NEW seq \in Seqs, NEW payload \in Payloads(seq), Store(seq, payload)
        PROVE  solved' = solved /\ arena'[solved[b]] = arena[solved[b]]
    BY <2>0, <2>1, <2>5, StoreFacts
  <2>6. CASE SkipSolved
    BY <2>6 DEF SkipSolved, equations
  <2>7. CASE Solve
    <3>1. b # Last(queue).block
      BY <2>0, <2>7, KnownGrows DEF TypeInv
    <3>2. QED
      BY <2>0, <2>1, <2>7, <3>1 DEF Solve, TypeInv, TypeOK
  <2>8. CASE SkipInactive
    BY <2>8 DEF SkipInactive, equations
  <2>9. CASE Peel
    <3> DEFINE f == Head(waiting)
    <3>1. /\ f \in Active
          /\ \A o \in Offsets : o # frames[f].off => arena'[o] = arena[o]
          /\ solved' = solved
      BY <2>0, <2>9, PeelFacts DEF TypeInv, Peel
    <3>2. solved[b] # frames[f].off
      BY <1>1, <3>1 DEF IInv, SlotsNotShared
    <3>3. QED
      BY <2>1, <3>1, <3>2
  <2>10. QED
    BY <1>1, <2>2, <2>3, <2>4, <2>5, <2>6, <2>7, <2>8, <2>9, StepCases
<1>2. QED
  BY <1>1, Invariant, PTL DEF Spec, SolvedIsStable

(* Neither the arena nor the pending edges exceed their budget, whatever   *)
(* the factors are and however the frames arrive.                          *)
THEOREM BudgetsAreRespected == Spec => []BudgetsHold
<1>1. Init => BudgetsHold
  <2>1. MaxArenaSlots \in Nat /\ MaxPendingEdges \in Nat
    BY FactorAssumption, KAssumption DEF MaxArenaSlots, MaxPendingEdges
  <2>2. QED
    BY <2>1 DEF Init, BudgetsHold
<1>2. ASSUME IInv, BudgetsHold, [Next]_vars
      PROVE  BudgetsHold'
  <2>0. TypeInv
    BY <1>2 DEF IInv, TypeInv
  <2>1. UNCHANGED <<arena, pending_edges>> => BudgetsHold'
    BY <1>2 DEF BudgetsHold, MaxArenaSlots, MaxPendingEdges
  <2>2. CASE Still
    BY <2>1, <2>2 DEF Still
  <2>3. ASSUME NEW seq \in Seqs, Redundant(seq)
        PROVE  BudgetsHold'
    BY <2>1, <2>3 DEF Redundant
  <2>4. ASSUME NEW seq \in Seqs, NEW payload \in Payloads(seq), SolveOne(seq, payload)
        PROVE  BudgetsHold'
    <3>1. Len(arena') = Len(arena) + 1
      BY <2>0, <2>4, ReducedIsBuffer, ArenaGrows DEF SolveOne, TypeInv
    <3>2. Len(arena) + 1 <= MaxArenaSlots /\ pending_edges' = pending_edges
      BY <2>4 DEF SolveOne, Accepted, WithinBudget
    <3>3. QED
      BY <1>2, <3>1, <3>2 DEF BudgetsHold, MaxArenaSlots, MaxPendingEdges
  <2>5. ASSUME NEW seq \in Seqs, NEW payload \in Payloads(seq), Store(seq, payload)
        PROVE  BudgetsHold'
    <3>1. Len(arena') = Len(arena) + 1
      BY <2>0, <2>5, FramesGrow, ArenaGrows DEF TypeInv
    <3>2. Len(arena) + 1 <= MaxArenaSlots
      BY <2>5 DEF Store, Accepted, WithinBudget
    <3>3. pending_edges' <= MaxPendingEdges
      <4>1. Cardinality(Unsolved(seq)) > 1
        BY <2>5 DEF Store
      <4>2. NewEdges(Unsolved(seq)) = Cardinality(Unsolved(seq))
        BY <4>1 DEF NewEdges
      <4>3. pending_edges + NewEdges(Unsolved(seq)) <= MaxPendingEdges
        BY <2>5 DEF Store, Accepted, WithinBudget
      <4>4. pending_edges' = pending_edges + Cardinality(Unsolved(seq))
        BY <2>5 DEF Store
      <4>5. QED
        BY <4>2, <4>3, <4>4
    <3>4. QED
      BY <3>1, <3>2, <3>3 DEF BudgetsHold, MaxArenaSlots, MaxPendingEdges
  <2>6. CASE SkipSolved
    BY <2>1, <2>6 DEF SkipSolved, equations
  <2>7. CASE Solve
    BY <2>1, <2>7 DEF Solve
  <2>8. CASE SkipInactive
    BY <2>1, <2>8 DEF SkipInactive, equations
  <2>9. CASE Peel
    <3>1. Len(arena') = Len(arena)
      <4>1. frames[Head(waiting)].off \in Offsets
        BY <2>0, <2>9, PeelFacts DEF TypeInv
      <4>2. arena \in Seq(SUBSET Symbols)
        BY <2>0 DEF TypeInv, TypeOK
      <4>3. QED
        BY <2>9, <4>1, <4>2 DEF Peel
    <3>2. pending_edges' = pending_edges
      BY <2>9 DEF Peel
    <3>3. QED
      BY <1>2, <3>1, <3>2 DEF BudgetsHold, MaxArenaSlots, MaxPendingEdges
  <2>10. QED
    BY <1>2, <2>2, <2>3, <2>4, <2>5, <2>6, <2>7, <2>8, <2>9, StepCases
<1>3. QED
  BY <1>1, <1>2, Invariant, PTL DEF Spec

-----------------------------------------------------------------------------
(* The decoder between two calls.                                          *)

\* DecoderCalls brings a cardinality of its own, which is the same.
LEMMA SameCardinality == ASSUME NEW S PROVE Calls!Cardinality(S) = Cardinality(S)
BY DEF Calls!Cardinality, Calls!IsFiniteSet, Cardinality, IsFiniteSet

\* Between two calls, what DecoderCalls says of a frame is what add_frame finds.
LEMMA CallFacts ==
  ASSUME TypeOK, Idle, OrderIndependent, CompleteMeansAll, NEW seq \in Seqs
  PROVE  /\ Calls!Complete(Decoder) <=> IsComplete
         /\ Calls!Open(Decoder, seq) = Unsolved(seq)
         /\ Calls!Edges(Decoder, seq) = NewEdges(Unsolved(seq))
         /\ Calls!Slots(Decoder, seq) = IF Unsolved(seq) = {} THEN 0 ELSE 1
         /\ Calls!Refuses(Decoder, seq) <=> \/ IsComplete
                                            \/ seq \in seen
                                            \/ ~ WithinBudget(seq)
<1>1. /\ Decoder.seen = seen /\ Decoder.slots = Len(arena)
      /\ Decoder.edges = pending_edges
  BY DEF Decoder
<1>2. [E \in SUBSET Seqs |-> Abs!Closure(E)][seen] = Known
  <2>1. seen \in SUBSET Seqs /\ Abs!Closure(seen) = Known
    BY DEF TypeOK, OrderIndependent
  <2>2. QED
    BY <2>1
<1>3. Calls!Complete(Decoder) <=> IsComplete
  BY <1>1, <1>2 DEF Calls!Complete, CompleteMeansAll
<1>4. Calls!Open(Decoder, seq) = Unsolved(seq)
  <2>1. Eq[seq] = Equation(seq)
    BY DEF Eq
  <2>2. QED
    BY <1>1, <1>2, <2>1, UnsolvedType DEF Calls!Open
<1>5. Calls!Edges(Decoder, seq) = NewEdges(Unsolved(seq))
  BY <1>4, SameCardinality DEF Calls!Edges, NewEdges
<1>6. Calls!Slots(Decoder, seq) = IF Unsolved(seq) = {} THEN 0 ELSE 1
  BY <1>4 DEF Calls!Slots
<1>7. WithinBudget(seq) <=> /\ ~ (Decoder.slots + 1 > MaxArenaSlots)
                            /\ ~ (Decoder.edges + Calls!Edges(Decoder, seq) > MaxPendingEdges)
  <2>1. /\ Len(arena) \in Nat /\ pending_edges \in Nat
        /\ NewEdges(Unsolved(seq)) \in Nat
        /\ MaxArenaSlots \in Nat /\ MaxPendingEdges \in Nat
    BY UnsolvedType, SeveralBlocks, KAssumption, FactorAssumption, LenProperties
       DEF TypeOK, NewEdges, MaxArenaSlots, MaxPendingEdges
  <2>2. QED
    BY <1>1, <1>5, <2>1 DEF WithinBudget
<1>8. QED
  BY <1>1, <1>3, <1>4, <1>5, <1>6, <1>7 DEF Calls!Refuses

\* A call of add_frame does to the decoder what DecoderCalls says.
LEMMA CallStep ==
  ASSUME TypeInv, OrderIndependent, CompleteMeansAll,
         NEW seq \in Seqs, AddFrame(seq)
  PROVE  Decoder' = Calls!Added(Decoder, seq)
<1> DEFINE U == Unsolved(seq)
<1>1. Idle
  BY DEF AddFrame, Duplicate, OverBudget, Redundant, SolveOne, Store, Accepted, Fresh
<1>2. /\ Calls!Edges(Decoder, seq) = NewEdges(U)
      /\ Calls!Slots(Decoder, seq) = IF U = {} THEN 0 ELSE 1
      /\ Calls!Refuses(Decoder, seq) <=> IsComplete \/ seq \in seen \/ ~ WithinBudget(seq)
  BY <1>1, CallFacts DEF TypeInv
<1>3. ASSUME Calls!Refuses(Decoder, seq), UNCHANGED <<seen, arena, pending_edges>>
      PROVE  Decoder' = Calls!Added(Decoder, seq)
  BY <1>3 DEF Calls!Added, Decoder
<1>4. ASSUME Accepted(seq),
             Len(arena') = Len(arena) + Calls!Slots(Decoder, seq),
             pending_edges' = pending_edges + Calls!Edges(Decoder, seq)
      PROVE  Decoder' = Calls!Added(Decoder, seq)
  <2>1. ~ Calls!Refuses(Decoder, seq) /\ seen' = seen \cup {seq}
    BY <1>2, <1>4 DEF Accepted, Fresh
  <2>2. Calls!Added(Decoder, seq) = [Decoder EXCEPT !.seen = @ \cup {seq},
                                       !.slots = @ + Calls!Slots(Decoder, seq),
                                       !.edges = @ + Calls!Edges(Decoder, seq)]
    BY <2>1 DEF Calls!Added
  <2>3. QED
    BY <1>4, <2>1, <2>2 DEF Decoder
<1>5. U \in SUBSET Blocks /\ Len(arena) \in Nat /\ pending_edges \in Nat
  BY UnsolvedType, LenProperties DEF TypeInv, TypeOK
<1>6. CASE Duplicate(seq)
  BY <1>2, <1>3, <1>6 DEF Duplicate, equations
<1>7. CASE OverBudget(seq)
  BY <1>2, <1>3, <1>7 DEF OverBudget, equations
<1>8. CASE Redundant(seq)
  <2>1. U = {} /\ NewEdges(U) = 0
    BY <1>5, <1>8, SeveralBlocks DEF Redundant, NewEdges
  <2>2. Accepted(seq) /\ UNCHANGED <<arena, pending_edges>>
    BY <1>8 DEF Redundant
  <2>3. QED
    BY <1>2, <1>4, <1>5, <2>1, <2>2
<1>9. ASSUME NEW payload \in Payloads(seq), SolveOne(seq, payload)
      PROVE  Decoder' = Calls!Added(Decoder, seq)
  <2>1. Accepted(seq) /\ pending_edges' = pending_edges /\ \E b \in Blocks : U = {b}
    BY <1>9 DEF SolveOne
  <2>2. U # {} /\ NewEdges(U) = 0
    BY <1>5, <2>1, SeveralBlocks DEF NewEdges
  <2>3. Len(arena') = Len(arena) + 1
    BY <1>9, ReducedIsBuffer, ArenaGrows DEF SolveOne, TypeInv
  <2>4. QED
    BY <1>2, <1>4, <1>5, <2>1, <2>2, <2>3
<1>10. ASSUME NEW payload \in Payloads(seq), Store(seq, payload)
       PROVE  Decoder' = Calls!Added(Decoder, seq)
  <2>1. /\ Accepted(seq) /\ Cardinality(U) > 1
        /\ pending_edges' = pending_edges + Cardinality(U)
    BY <1>10 DEF Store
  <2>2. U # {} /\ NewEdges(U) = Cardinality(U)
    BY <1>5, <2>1, SeveralBlocks DEF NewEdges
  <2>3. Len(arena') = Len(arena) + 1
    BY <1>10, FramesGrow, ArenaGrows DEF TypeInv
  <2>4. QED
    BY <1>2, <1>4, <2>1, <2>2, <2>3
<1>11. QED
  BY <1>6, <1>7, <1>8, <1>9, <1>10 DEF AddFrame

\* The loop of resolve leaves what a caller sees of the budgets alone.
LEMMA ResolveStep == ASSUME TypeInv, Resolve PROVE UNCHANGED Decoder
<1>1. CASE SkipSolved
  BY <1>1 DEF SkipSolved, equations, Decoder
<1>2. CASE Solve
  BY <1>2 DEF Solve, Decoder
<1>3. CASE SkipInactive
  BY <1>3 DEF SkipInactive, equations, Decoder
<1>4. CASE Peel
  <2>1. Len(arena') = Len(arena)
    <3>1. frames[Head(waiting)].off \in Offsets
      BY <1>4, PeelFacts DEF TypeInv
    <3>2. arena \in Seq(SUBSET Symbols)
      BY DEF TypeInv, TypeOK
    <3>3. QED
      BY <1>4, <3>1, <3>2 DEF Peel
  <2>2. UNCHANGED <<seen, pending_edges>>
    BY <1>4 DEF Peel
  <2>3. QED
    BY <2>1, <2>2 DEF Decoder
<1>5. QED
  BY <1>1, <1>2, <1>3, <1>4 DEF Resolve

(* Between two calls the decoder of fountain.rs is that of DecoderCalls:   *)
(* add_frame accepts and charges as it says, and is_complete answers so.   *)
THEOREM CallsAreAbstract == Spec => CallsAgree
<1>1. ASSUME IInv, OrderIndependent, CompleteMeansAll
      PROVE  Idle => (IsComplete <=> Calls!Complete(Decoder))
  <2>1. 0 \in Seqs
    BY MaxSeqAssumption DEF Seqs
  <2>2. QED
    BY <1>1, <2>1, CallFacts DEF IInv
<1>2. ASSUME IInv, OrderIndependent, CompleteMeansAll, [Next]_vars
      PROVE  /\ \A seq \in Seqs : AddFrame(seq) => Decoder' = Calls!Added(Decoder, seq)
             /\ Resolve => UNCHANGED Decoder
  BY <1>2, CallStep, ResolveStep DEF IInv, TypeInv
<1>3. QED
  BY <1>1, <1>2, Invariant, OrderDoesNotMatter, CompletionIsTotal, PTL DEF Spec, CallsAgree

-----------------------------------------------------------------------------
(* The memory of the decoder.                                              *)

\* The adjacency entries, with those resolve is visiting, were all charged.
Charged ==
  /\ IsFiniteSet(Entries)
  /\ Cardinality(Entries) + Len(waiting) <= pending_edges

\* The entries of one list are as many as the list is long.
LEMMA ListEntries ==
  ASSUME NEW S, NEW s \in Seq(S), NEW b
  PROVE  /\ IsFiniteSet({b} \X (DOMAIN s))
         /\ Cardinality({b} \X (DOMAIN s)) = Len(s)
<1>1. Len(s) \in Nat /\ DOMAIN s = 1 .. Len(s)
  BY LenProperties
<1>2. IsFiniteSet(1 .. Len(s)) /\ Cardinality(1 .. Len(s)) = Len(s)
  <2>1. 1 \in Int /\ Len(s) \in Int
    BY <1>1
  <2>2. /\ IsFiniteSet(1 .. Len(s))
        /\ Cardinality(1 .. Len(s)) = IF 1 > Len(s) THEN 0 ELSE Len(s) - 1 + 1
    BY <2>1, FS_Interval
  <2>3. QED
    BY <1>1, <2>2
<1>3. IsFiniteSet({b}) /\ Cardinality({b}) = 1
  BY FS_Singleton
<1>4. /\ IsFiniteSet({b} \X (1 .. Len(s)))
      /\ Cardinality({b} \X (1 .. Len(s))) = 1 * Len(s)
  BY <1>2, <1>3, FS_Product
<1>5. \A n \in Nat : 1 * n = n
  OBVIOUS
<1>6. QED
  BY <1>1, <1>4, <1>5, Zenon

\* A frame that is stored adds one entry for each of its unsolved blocks.
LEMMA ChargedStore ==
  ASSUME TypeInv, Charged,
         NEW seq \in Seqs, NEW payload \in Payloads(seq), Store(seq, payload)
  PROVE  Charged'
<1> DEFINE U == Unsolved(seq)
           entry == [b \in U |-> <<b, Len(by_block[b]) + 1>>]
           added == {entry[b] : b \in U}
<1>1. U \in SUBSET Blocks /\ IsFiniteSet(U) /\ Cardinality(U) \in Nat
  BY UnsolvedType, SeveralBlocks
<1>2. IsFiniteSet(added) /\ Cardinality(added) <= Cardinality(U)
  <2>1. entry \in Surjection(U, added)
    BY DEF Surjection
  <2> HIDE DEF entry, added
  <2>2. QED
    BY <1>1, <2>1, FS_Surjection
<1>3. Entries' = Entries \cup added
  <2>1. ASSUME NEW b \in Blocks
        PROVE  DOMAIN by_block'[b] = IF b \in U THEN (DOMAIN by_block[b]) \cup {Len(by_block[b]) + 1}
                                              ELSE DOMAIN by_block[b]
    <3>1. /\ by_block[b] \in Seq(FrameIds')
          /\ Len(frames) + 1 \in FrameIds'
      <4>1. by_block[b] \in Seq(FrameIds)
        BY DEF TypeInv, TypeOK
      <4>2. FrameIds' = FrameIds \cup {Len(frames) + 1}
        BY FramesGrow DEF TypeInv
      <4>3. QED
        BY <4>1, <4>2, SeqMonotonic
    <3>2. by_block'[b] = IF b \in U THEN Append(by_block[b], Len(frames) + 1)
                                     ELSE by_block[b]
      BY StoreFacts
    <3>3. /\ Len(by_block[b]) \in Nat
          /\ DOMAIN by_block[b] = 1 .. Len(by_block[b])
          /\ DOMAIN Append(by_block[b], Len(frames) + 1) = 1 .. Len(by_block[b]) + 1
      BY <3>1, AppendProperties, LenProperties
    <3>4. 1 .. Len(by_block[b]) + 1 = (1 .. Len(by_block[b])) \cup {Len(by_block[b]) + 1}
      BY <3>3
    <3>5. QED
      BY <3>2, <3>3, <3>4, Zenon
  <2>2. Entries' \subseteq Entries \cup added
    <3> SUFFICES ASSUME NEW b \in Blocks, NEW i \in DOMAIN by_block'[b]
                 PROVE  <<b, i>> \in Entries \cup added
      BY DEF Entries
    <3>1. CASE i \in DOMAIN by_block[b]
      BY <3>1 DEF Entries
    <3>2. CASE b \in U /\ i = Len(by_block[b]) + 1
      BY <3>2
    <3>3. QED
      BY <2>1, <3>1, <3>2
  <2>3. ASSUME NEW b \in Blocks, NEW i \in DOMAIN by_block'[b]
        PROVE  <<b, i>> \in Entries'
    BY DEF Entries
  <2>4. Entries \subseteq Entries'
    <3> SUFFICES ASSUME NEW b \in Blocks, NEW i \in DOMAIN by_block[b]
                 PROVE  <<b, i>> \in Entries'
      BY DEF Entries
    <3>1. i \in DOMAIN by_block'[b]
      BY <2>1
    <3>2. QED
      BY <2>3, <3>1
  <2>5. added \subseteq Entries'
    <3> SUFFICES ASSUME NEW b \in U PROVE <<b, Len(by_block[b]) + 1>> \in Entries'
      OBVIOUS
    <3>1. b \in Blocks /\ Len(by_block[b]) + 1 \in DOMAIN by_block'[b]
      BY <1>1, <2>1
    <3>2. QED
      BY <2>3, <3>1
  <2>6. QED
    BY <2>2, <2>4, <2>5
<1>4. waiting' = waiting /\ pending_edges' = pending_edges + Cardinality(U)
  BY DEF Store, Accepted
<1>5. /\ Cardinality(Entries) \in Nat /\ Cardinality(added) \in Nat
      /\ Len(waiting) \in Nat /\ pending_edges \in Nat
  BY <1>2, FS_CardinalityType, LenProperties DEF Charged, TypeInv, TypeOK
<1> HIDE DEF U, added
<1>6. /\ IsFiniteSet(Entries \cup added)
      /\ Cardinality(Entries \cup added) <= Cardinality(Entries) + Cardinality(added)
  <2>1. IsFiniteSet(Entries \cap added)
    BY FS_Intersection DEF Charged
  <2>2. Cardinality(Entries \cap added) \in Nat
    BY <2>1, FS_CardinalityType
  <2>3. /\ IsFiniteSet(Entries \cup added)
        /\ Cardinality(Entries \cup added)
              = Cardinality(Entries) + Cardinality(added) - Cardinality(Entries \cap added)
    BY <1>2, FS_Union DEF Charged
  <2>4. QED
    BY <1>5, <2>2, <2>3
<1>7. Cardinality(Entries \cup added) \in Nat
  BY <1>6, FS_CardinalityType
<1>8. Cardinality(Entries) + Len(waiting) <= pending_edges
  BY DEF Charged
<1>9. Cardinality(Entries') + Len(waiting') <= pending_edges'
  BY <1>1, <1>2, <1>3, <1>4, <1>5, <1>6, <1>7, <1>8
<1>10. QED
  BY <1>3, <1>6, <1>9 DEF Charged

\* Solving a block moves the entries of its list to those being visited.
LEMMA EntriesTaken ==
  ASSUME TypeInv, Charged, Solve
  PROVE  /\ IsFiniteSet(Entries')
         /\ waiting = <<>>
         /\ Len(waiting') \in Nat
         /\ Cardinality(Entries') = Cardinality(Entries) - Len(waiting')
<1> DEFINE b == Last(queue).block
           taken == {b} \X (DOMAIN by_block[b])
<1>1. b \in Blocks
  BY KnownGrows DEF TypeInv
<1>2. by_block[b] \in Seq(FrameIds) /\ Len(by_block[b]) \in Nat
  BY <1>1, LenProperties DEF TypeInv, TypeOK
<1>3. IsFiniteSet(taken) /\ Cardinality(taken) = Len(by_block[b])
  BY <1>2, ListEntries
<1>4. /\ by_block' = [by_block EXCEPT ![b] = <<>>]
      /\ waiting = <<>> /\ waiting' = by_block[b]
  BY DEF Solve
<1>5. Entries' = Entries \ taken /\ taken \subseteq Entries
  <2>1. \A c \in Blocks : by_block'[c] = IF c = b THEN <<>> ELSE by_block[c]
    BY <1>4 DEF TypeInv, TypeOK
  <2>2. DOMAIN by_block'[b] = {}
    BY <1>1, <2>1
  <2>3. \A c \in Blocks \ {b} : DOMAIN by_block'[c] = DOMAIN by_block[c]
    BY <2>1
  <2> HIDE DEF b
  <2>4. QED
    BY <1>1, <2>2, <2>3 DEF Entries
<1> HIDE DEF taken
<1>6. /\ IsFiniteSet(Entries \ taken)
      /\ Cardinality(Entries \ taken) = Cardinality(Entries) - Cardinality(taken)
  <2>1. Entries \cap taken = taken
    BY <1>5
  <2>2. QED
    BY <2>1, FS_Difference DEF Charged
<1>7. QED
  BY <1>2, <1>3, <1>4, <1>5, <1>6

\* ... so that the account does not change.
LEMMA ChargedSolve ==
  ASSUME TypeInv, Charged, Solve
  PROVE  Charged'
<1>1. Cardinality(Entries) \in Nat /\ pending_edges \in Nat
  BY FS_CardinalityType DEF Charged, TypeInv, TypeOK
<1>2. Cardinality(Entries) <= pending_edges /\ pending_edges' = pending_edges
  <2>1. Len(waiting) = 0
    BY EntriesTaken
  <2>2. QED
    BY <1>1, <2>1 DEF Charged, Solve
<1>3. Cardinality(Entries') + Len(waiting') <= pending_edges'
  BY <1>1, <1>2, EntriesTaken
<1>4. QED
  BY <1>3, EntriesTaken DEF Charged

\* Whatever leaves the lists alone and visits no more keeps the account.
LEMMA ChargedRest ==
  ASSUME TypeInv, Charged, UNCHANGED <<by_block, pending_edges>>,
         \/ waiting' = waiting
         \/ waiting # <<>> /\ waiting' = Tail(waiting)
  PROVE  Charged'
<1>1. Entries' = Entries
  BY DEF Entries
<1>2. Len(waiting) \in Nat /\ Len(waiting') \in Nat /\ Len(waiting') <= Len(waiting)
  <2>1. waiting \in Seq(FrameIds)
    BY DEF TypeInv, TypeOK
  <2>2. Len(waiting) \in Nat
    BY <2>1, LenProperties
  <2>3. CASE waiting # <<>> /\ waiting' = Tail(waiting)
    <3>1. Len(waiting) # 0
      BY <2>1, <2>3, EmptySeq
    <3>2. Len(Tail(waiting)) = Len(waiting) - 1
      BY <2>1, <2>3, HeadTailProperties
    <3>3. Len(Tail(waiting)) \in Nat /\ Len(Tail(waiting)) <= Len(waiting)
      BY <2>2, <3>1, <3>2
    <3>4. QED
      BY <2>2, <2>3, <3>3, Zenon
  <2>4. QED
    BY <2>2, <2>3
<1>3. Cardinality(Entries) \in Nat /\ pending_edges \in Nat
  BY FS_CardinalityType DEF Charged, TypeInv, TypeOK
<1>4. Cardinality(Entries) + Len(waiting') <= pending_edges
  BY <1>2, <1>3 DEF Charged
<1>5. QED
  BY <1>1, <1>4 DEF Charged

\* No edge is stored that was not charged.
LEMMA ChargedStays == Spec => []Charged
<1>1. Init => Charged
  <2> SUFFICES ASSUME Init PROVE Charged
    OBVIOUS
  <2>1. Entries = {}
    BY DEF Init, Entries
  <2>2. Len(waiting) = 0 /\ pending_edges = 0
    BY DEF Init
  <2>3. QED
    BY <2>1, <2>2, FS_EmptySet DEF Charged
<1>2. ASSUME IInv, Charged, [Next]_vars
      PROVE  Charged'
  <2>0. TypeInv
    BY <1>2 DEF IInv, TypeInv
  <2>1. CASE Still
    BY <1>2, <2>0, <2>1, ChargedRest DEF Still
  <2>2. ASSUME NEW seq \in Seqs, Redundant(seq)
        PROVE  Charged'
    BY <1>2, <2>0, <2>2, ChargedRest DEF Redundant, Accepted
  <2>3. ASSUME NEW seq \in Seqs, NEW payload \in Payloads(seq), SolveOne(seq, payload)
        PROVE  Charged'
    BY <1>2, <2>0, <2>3, ChargedRest DEF SolveOne, Accepted
  <2>4. ASSUME NEW seq \in Seqs, NEW payload \in Payloads(seq), Store(seq, payload)
        PROVE  Charged'
    BY <1>2, <2>0, <2>4, ChargedStore
  <2>5. CASE SkipSolved
    BY <1>2, <2>0, <2>5, ChargedRest DEF SkipSolved, equations
  <2>6. CASE Solve
    BY <1>2, <2>0, <2>6, ChargedSolve
  <2>7. CASE SkipInactive
    BY <1>2, <2>0, <2>7, ChargedRest DEF SkipInactive, equations
  <2>8. CASE Peel
    BY <1>2, <2>0, <2>8, ChargedRest DEF Peel
  <2>9. QED
    BY <1>2, <2>1, <2>2, <2>3, <2>4, <2>5, <2>6, <2>7, <2>8, StepCases
<1>3. QED
  BY <1>1, <1>2, Invariant, PTL DEF Spec

(* The adjacency lists and the frames resolve is visiting hold no more     *)
(* entries than pending_edges says, so that the edge budget of             *)
(* try_new_mode bounds them, and the arena budget the arena.               *)
THEOREM MemoryIsBounded == Spec => []MemoryBounded
<1>1. Charged /\ BudgetsHold => MemoryBounded
  BY DEF Charged, MemoryBounded
<1>2. QED
  BY <1>1, ChargedStays, BudgetsAreRespected, PTL

-----------------------------------------------------------------------------
(* The work of resolve.                                                    *)

\* What is counted of the work.
Counts ==
  /\ Len(queue) \in Nat /\ Len(waiting) \in Nat
  /\ Cardinality(Entries) \in Nat /\ pending_edges \in Nat

LEMMA WorkTypes ==
  ASSUME TypeInv, Charged
  PROVE  Counts
BY FS_CardinalityType, LenProperties DEF Counts, Charged, TypeInv, TypeOK

\* Taking the top of the stack.
LEMMA PoppedLength ==
  ASSUME TypeInv, queue # <<>>, queue' = Front(queue)
  PROVE  Len(queue') = Len(queue) - 1
<1>1. queue \in Seq(Entry)
  BY DEF TypeInv, TypeOK, Entry
<1>2. QED
  BY <1>1, FrontLast

\* A visit is one frame less to visit.
LEMMA VisitedLength ==
  ASSUME TypeInv, waiting # <<>>, waiting' = Tail(waiting)
  PROVE  Len(waiting') = Len(waiting) - 1
<1>1. waiting \in Seq(FrameIds)
  BY DEF TypeInv, TypeOK
<1>2. QED
  BY <1>1, HeadTailProperties

\* A visit puts at most one entry on the stack.
LEMMA FreedLength ==
  ASSUME TypeInv, Peel
  PROVE  Len(queue') = Len(queue) \/ Len(queue') = Len(queue) + 1
<1> DEFINE f == Head(waiting)
           left == frames[f].idx \ {cur}
           off == frames[f].off
<1>1. queue \in Seq(Entry)
  BY DEF TypeInv, TypeOK, Entry
<1>2. off \in Offsets /\ left \in SUBSET Blocks
  BY PeelFacts DEF TypeInv
<1>3. \/ queue' = queue
      \/ \E r \in Freed(left) : queue' = Append(queue, [block |-> r, off |-> off])
  BY DEF Peel
<1>4. ASSUME NEW r \in Freed(left), queue' = Append(queue, [block |-> r, off |-> off])
      PROVE  Len(queue') = Len(queue) + 1
  <2> DEFINE e == [block |-> r, off |-> off]
  <2>1. e \in Entry
    BY <1>2 DEF Freed, Entry
  <2>2. queue' = Append(queue, e)
    BY <1>4
  <2> HIDE DEF e
  <2>3. QED
    BY <1>1, <2>1, <2>2, AppendProperties
<1>5. QED
  BY <1>3, <1>4

\* Every iteration leaves less to do.
LEMMA WorkDescends ==
  ASSUME TypeInv, Charged, Counts, Counts', Resolve
  PROVE  Work' < Work
<1>1. /\ Len(queue) \in Nat /\ Len(waiting) \in Nat /\ Cardinality(Entries) \in Nat
      /\ Len(queue') \in Nat /\ Len(waiting') \in Nat /\ Cardinality(Entries') \in Nat
  BY DEF Counts
<1>2. CASE SkipSolved
  <2>1. Entries' = Entries /\ waiting' = waiting
    BY <1>2 DEF SkipSolved, equations, Entries
  <2>2. Len(queue') = Len(queue) - 1
    BY <1>2, PoppedLength DEF SkipSolved
  <2>3. QED
    BY <1>1, <2>1, <2>2 DEF Work
<1>3. CASE Solve
  <2>1. Cardinality(Entries') = Cardinality(Entries) - Len(waiting') /\ Len(waiting) = 0
    BY <1>3, EntriesTaken
  <2>2. Len(queue') = Len(queue) - 1
    BY <1>3, PoppedLength DEF Solve
  <2>3. QED
    BY <1>1, <2>1, <2>2 DEF Work
<1>4. CASE SkipInactive
  <2>1. Entries' = Entries /\ queue' = queue
    BY <1>4 DEF SkipInactive, equations, Entries
  <2>2. Len(waiting') = Len(waiting) - 1
    BY <1>4, VisitedLength DEF SkipInactive
  <2>3. QED
    BY <1>1, <2>1, <2>2 DEF Work
<1>5. CASE Peel
  <2>1. Entries' = Entries
    BY <1>5 DEF Peel, Entries
  <2>2. Len(waiting') = Len(waiting) - 1
    BY <1>5, VisitedLength DEF Peel
  <2>3. Len(queue') = Len(queue) \/ Len(queue') = Len(queue) + 1
    BY <1>5, FreedLength
  <2>4. QED
    BY <1>1, <2>1, <2>2, <2>3 DEF Work
<1>6. QED
  BY <1>2, <1>3, <1>4, <1>5 DEF Resolve

\* A call of add_frame begins resolve with one entry, or not at all.
LEMMA WorkBounded ==
  ASSUME TypeInv, Charged, Charged', Counts, Counts', Work <= 2 * pending_edges + 1, [Next]_vars
  PROVE  (Work <= 2 * pending_edges + 1)'
<1>1. /\ Len(queue) \in Nat /\ Len(waiting) \in Nat
      /\ Cardinality(Entries) \in Nat /\ pending_edges \in Nat
      /\ Len(queue') \in Nat /\ Len(waiting') \in Nat
      /\ Cardinality(Entries') \in Nat /\ pending_edges' \in Nat
  BY DEF Counts
<1>2. Cardinality(Entries') + Len(waiting') <= pending_edges'
  BY DEF Charged
<1>3. CASE Still
  BY <1>3 DEF Still, Work, Entries
<1>4. ASSUME Len(queue') <= 1
      PROVE  (Work <= 2 * pending_edges + 1)'
  BY <1>1, <1>2, <1>4 DEF Work
<1>5. ASSUME NEW seq \in Seqs, Redundant(seq)
      PROVE  Len(queue') <= 1
  <2>1. queue' = <<>>
    BY <1>5 DEF Redundant, Accepted, Fresh, Idle
  <2>2. QED
    BY <2>1
<1>6. ASSUME NEW seq \in Seqs, NEW payload \in Payloads(seq), SolveOne(seq, payload)
      PROVE  Len(queue') <= 1
  <2>1. PICK b \in Blocks : queue' = <<[block |-> b, off |-> Len(arena) + 1]>>
    BY <1>6 DEF SolveOne
  <2>2. QED
    BY <2>1
<1>7. ASSUME NEW seq \in Seqs, NEW payload \in Payloads(seq), Store(seq, payload)
      PROVE  Len(queue') <= 1
  <2>1. queue' = <<>>
    BY <1>7 DEF Store, Accepted, Fresh, Idle
  <2>2. QED
    BY <2>1
<1>8. CASE Resolve
  <2>1. Work' < Work
    BY <1>8, WorkDescends
  <2>2. pending_edges' = pending_edges
    BY <1>8 DEF Resolve, SkipSolved, Solve, SkipInactive, Peel, equations
  <2>3. QED
    BY <2>1, <2>2, <1>1 DEF Work
<1>9. QED
  BY <1>3, <1>4, <1>5, <1>6, <1>7, <1>8, StepCases DEF Resolve

(* The loop of resolve goes down: every iteration leaves less to do, and   *)
(* a call iterates at most twice per pending edge and once more.           *)
THEOREM ResolveGoesDown == Spec => ResolveDescends
<1> DEFINE Bounded == Work <= 2 * pending_edges + 1
<1>1. Init => Bounded
  <2> SUFFICES ASSUME Init PROVE Bounded
    OBVIOUS
  <2>1. Entries = {}
    BY DEF Init, Entries
  <2>2. Len(queue) = 0 /\ Len(waiting) = 0 /\ pending_edges = 0
    BY DEF Init
  <2>3. QED
    BY <2>1, <2>2, FS_EmptySet DEF Work
<1>2. IInv /\ Charged => TypeInv /\ Counts
  BY WorkTypes DEF IInv, TypeInv
<1>3. TypeInv /\ Charged /\ Charged' /\ Counts /\ Counts' /\ Bounded /\ [Next]_vars => Bounded'
  BY WorkBounded
<1>4. TypeInv /\ Charged /\ Counts /\ Counts' => [Resolve => Work' < Work]_vars
  BY WorkDescends
<1>5. QED
  BY <1>1, <1>2, <1>3, <1>4, Invariant, ChargedStays, PTL DEF Spec, ResolveDescends

-----------------------------------------------------------------------------
(* The first phase, received.                                              *)

\* While there is room, what was received was accepted, unless the decoder was
\* complete before.
RoomAccepts == IsComplete \/ (Room => received \subseteq seen)

\* A frame charges at most the blocks there are.
LEMMA EdgesOfFrame ==
  ASSUME TypeInv, NEW seq \in Seqs
  PROVE  NewEdges(Unsolved(seq)) \in 0 .. K
<1>1. Unsolved(seq) \in SUBSET Blocks
  BY UnsolvedType
<1>2. Cardinality(Unsolved(seq)) \in Nat /\ Cardinality(Unsolved(seq)) <= K
  BY <1>1, BlocksFinite, FS_Subset, FS_CardinalityType
<1>3. QED
  BY <1>2, KAssumption DEF NewEdges

\* Neither the arena nor the pending edges ever get less, and once complete the
\* decoder is complete.
LEMMA RoomShrinks ==
  ASSUME TypeInv, TypeInv', [Next]_vars
  PROVE  (Room' => Room) /\ (IsComplete => IsComplete')
<1>1. /\ Len(arena) \in Nat /\ Len(arena') \in Nat /\ pending_edges \in Nat
      /\ pending_edges' \in Nat /\ solved_count \in Nat /\ solved_count' \in Nat
      /\ K \in Nat /\ MaxArenaSlots \in Nat /\ MaxPendingEdges \in Nat
  BY LenProperties, KAssumption, FactorAssumption
     DEF TypeInv, TypeOK, MaxArenaSlots, MaxPendingEdges
<1>2. ASSUME Len(arena) <= Len(arena'), pending_edges <= pending_edges',
             solved_count <= solved_count'
      PROVE  (Room' => Room) /\ (IsComplete => IsComplete')
  BY <1>1, <1>2 DEF Room, IsComplete, MaxArenaSlots, MaxPendingEdges
<1>3. CASE Still
  BY <1>1, <1>2, <1>3 DEF Still
<1>4. ASSUME NEW seq \in Seqs, Redundant(seq)
      PROVE  (Room' => Room) /\ (IsComplete => IsComplete')
  BY <1>1, <1>2, <1>4 DEF Redundant, Accepted
<1>5. ASSUME NEW seq \in Seqs, NEW payload \in Payloads(seq),
             SolveOne(seq, payload) \/ Store(seq, payload)
      PROVE  (Room' => Room) /\ (IsComplete => IsComplete')
  <2>1. arena' = Append(arena, Reduced(seq, payload)) /\ Reduced(seq, payload) \in SUBSET Symbols
    BY <1>5, ReducedIsBuffer DEF SolveOne, Store
  <2>2. Len(arena') = Len(arena) + 1
    BY <2>1, AppendProperties DEF TypeInv, TypeOK
  <2>3. solved_count' = solved_count
    BY <1>5 DEF SolveOne, Store, Accepted
  <2>4. pending_edges <= pending_edges'
    <3>1. CASE SolveOne(seq, payload)
      BY <3>1, <1>1 DEF SolveOne
    <3>2. CASE Store(seq, payload)
      <4>1. pending_edges' = pending_edges + Cardinality(Unsolved(seq))
            /\ Cardinality(Unsolved(seq)) \in Nat
        BY <3>2, UnsolvedType, SeveralBlocks DEF Store
      <4>2. QED
        BY <4>1, <1>1
    <3>3. QED
      BY <1>5, <3>1, <3>2
  <2>5. QED
    BY <1>1, <1>2, <2>2, <2>3, <2>4
<1>6. CASE SkipSolved \/ SkipInactive
  BY <1>1, <1>2, <1>6 DEF SkipSolved, SkipInactive, equations
<1>7. CASE Solve
  BY <1>1, <1>2, <1>7 DEF Solve
<1>8. CASE Peel
  <2>1. PICK off : arena' = [arena EXCEPT ![off] = Xor(arena[off], arena[solved[cur]])]
    BY <1>8 DEF Peel
  <2>2. DOMAIN arena' = DOMAIN arena
    BY <2>1
  <2>3. DOMAIN arena = 1 .. Len(arena) /\ DOMAIN arena' = 1 .. Len(arena')
    BY LenProperties DEF TypeInv, TypeOK
  <2>4. Len(arena') = Len(arena)
    BY <2>2, <2>3, <1>1
  <2>5. pending_edges' = pending_edges /\ solved_count' = solved_count
    BY <1>8 DEF Peel
  <2>6. QED
    BY <1>1, <1>2, <2>4, <2>5
<1>9. QED
  BY <1>3, <1>4, <1>5, <1>6, <1>7, <1>8, StepCases

\* A frame is accepted, or known, or there was no room for it.
LEMMA CaptureAccepts ==
  ASSUME TypeInv, TypeInv', RoomAccepts, NEW seq \in Seqs, Capture(seq)
  PROVE  RoomAccepts'
<1>1. (Room' => Room) /\ (IsComplete => IsComplete')
  <2>1. Next
    BY DEF Capture, Next
  <2>2. QED
    BY <2>1, RoomShrinks
<1> SUFFICES ASSUME ~ IsComplete, Room'
             PROVE  received' \subseteq seen'
  BY <1>1 DEF RoomAccepts
<1>2. received \subseteq seen /\ received' = received \cup {seq}
  BY <1>1 DEF RoomAccepts, Capture
<1>3. CASE Duplicate(seq)
  BY <1>2, <1>3 DEF Duplicate, equations
<1>4. CASE OverBudget(seq)
  <2>1. ~ WithinBudget(seq)
    BY <1>4 DEF OverBudget
  <2>2. NewEdges(Unsolved(seq)) \in 0 .. K
    BY EdgesOfFrame
  <2>3. Len(arena) \in Nat /\ pending_edges \in Nat /\ K \in Nat
        /\ MaxArenaSlots \in Nat /\ MaxPendingEdges \in Nat
    BY LenProperties, KAssumption, FactorAssumption
       DEF TypeInv, TypeOK, MaxArenaSlots, MaxPendingEdges
  <2>4. Len(arena) + 1 <= MaxArenaSlots /\ pending_edges + K <= MaxPendingEdges
    BY <1>1, <2>3 DEF Room
  <2>5. QED
    BY <2>1, <2>2, <2>3, <2>4 DEF WithinBudget
<1>5. CASE \/ Redundant(seq)
           \/ \E payload \in Payloads(seq) : SolveOne(seq, payload) \/ Store(seq, payload)
  <2>1. seen' = seen \cup {seq}
    BY <1>5 DEF Redundant, SolveOne, Store, Accepted
  <2>2. QED
    BY <1>2, <2>1
<1>6. QED
  BY <1>3, <1>4, <1>5 DEF Capture, AddFrame

(* While the budgets have room for any frame the claim of the README holds *)
(* as it stands: every first-phase frame that was received was accepted.   *)
THEOREM FirstPhaseReceived == CaptureSpec => []FirstPhaseWithRoom
<1>1. CaptureInit => IInv /\ RoomAccepts
  BY InitIInv DEF CaptureInit, RoomAccepts
<1>2. [CaptureNext]_<<vars, received>> => [Next]_vars
  BY DEF CaptureNext, Capture, Next
<1>3. IInv /\ [Next]_vars => IInv'
  BY NextIInv
<1>4. IInv => TypeInv
  BY DEF IInv, TypeInv
<1>5. TypeInv /\ TypeInv' /\ RoomAccepts /\ [CaptureNext]_<<vars, received>> => RoomAccepts'
  <2> SUFFICES ASSUME TypeInv, TypeInv', RoomAccepts, [CaptureNext]_<<vars, received>>
               PROVE  RoomAccepts'
    OBVIOUS
  <2>1. ASSUME NEW seq \in Seqs, Capture(seq)
        PROVE  RoomAccepts'
    BY <2>1, CaptureAccepts
  <2>2. ASSUME Resolve \/ UNCHANGED vars, UNCHANGED received
        PROVE  RoomAccepts'
    <3>1. (Room' => Room) /\ (IsComplete => IsComplete')
      BY <2>2, RoomShrinks DEF Next
    <3>2. seen' = seen
      BY <2>2 DEF Resolve, SkipSolved, Solve, SkipInactive, Peel, equations, vars
    <3>3. QED
      BY <2>2, <3>1, <3>2 DEF RoomAccepts
  <2>3. QED
    BY <2>1, <2>2 DEF CaptureNext
<1>6. IInv /\ RoomAccepts => FirstPhaseWithRoom
  <2> SUFFICES ASSUME IInv, RoomAccepts, Idle, Room, FirstPhase # {}, FirstPhase \subseteq received
               PROVE  IsComplete
    BY DEF FirstPhaseWithRoom
  <2>1. FirstPhase \subseteq seen => IsComplete
    BY FirstPhaseOfInv DEF FirstPhaseSuffices
  <2>2. QED
    BY <2>1 DEF RoomAccepts
<1>7. QED
  BY <1>1, <1>2, <1>3, <1>4, <1>5, <1>6, PTL DEF CaptureSpec
=============================================================================
