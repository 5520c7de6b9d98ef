------------------------------- MODULE LtCode -------------------------------
(***************************************************************************)
(* The code of src/src/fountain.rs as a system of equations over GF(2).    *)
(*                                                                         *)
(* A payload is the SET of symbols that were XORed into it: source block b *)
(* is {b}, and XOR is symmetric difference.  This is exact, not a sketch:  *)
(* a buffer holds the bytes of block b for every content of the file iff   *)
(* its set is {b}.  The members of Noise are errors that got past the      *)
(* 32-bit frame tag; they travel through XOR like any other symbol.        *)
(***************************************************************************)
EXTENDS Integers, FiniteSets

CONSTANTS
  K,       \* the number of source blocks, `k`
  Mode,    \* which constructor built the codec: "rsd", "systematic" or "causal"
  MaxSeq,  \* the last sequence number, u32::MAX in the code
  Repair,  \* Repair[seq]: the blocks the seeded generator selects for seq
  Noise    \* error symbols, disjoint from the block numbers

Blocks == 0 .. (K - 1)
Seqs == 0 .. MaxSeq
Symbols == Blocks \cup Noise

ASSUME KAssumption == K \in Nat \ {0}
ASSUME ModeAssumption == Mode \in {"rsd", "systematic", "causal"}
ASSUME MaxSeqAssumption == MaxSeq \in Nat
ASSUME RepairAssumption == Repair \in [Seqs -> (SUBSET Blocks) \ {{}}]
ASSUME NoiseAssumption == Noise \cap Blocks = {}

-----------------------------------------------------------------------------
(* XOR of two buffers, and of the buffers val[b] for b in S.               *)

Xor(a, b) == (a \ b) \cup (b \ a)

XorSum(S, val) ==
  {x \in Symbols : Cardinality({b \in S : x \in val[b]}) % 2 = 1}

-----------------------------------------------------------------------------
(* Which blocks a frame covers.  The first SysSpan frames are the first    *)
(* phase; the encoder and the decoder derive its equations by code of      *)
(* their own, and share frame_indices_into for the repair tail.            *)

SysSpan == IF Mode = "rsd" THEN 0 ELSE K

FrameIndices(seq) == Repair[seq]

\* LtDecoder::add_frame derives the blocks of `seq`.
Equation(seq) ==
  IF seq < SysSpan
    THEN IF Mode = "causal" /\ seq # 0 THEN {seq - 1, seq} ELSE {seq % K}
    ELSE FrameIndices(seq)

\* LtEncoder::encode_into produces the payload of `seq` from the source.
Source == [b \in Blocks |-> {b}]

Bug_Encode(seq) ==          \* the first phase one frame short
  IF seq < SysSpan - 1
    THEN IF Mode = "causal" /\ seq # 0
           THEN Xor(Source[seq], Source[seq - 1])
           ELSE Source[seq]
    ELSE XorSum(FrameIndices(seq), Source)

Encode(seq) ==
  IF seq < SysSpan
    THEN IF Mode = "causal" /\ seq # 0
           THEN Xor(Source[seq], Source[seq - 1])
           ELSE Source[seq]
    ELSE XorSum(FrameIndices(seq), Source)

\* What a frame of `seq` may carry when it reaches the decoder.
Payloads(seq) == {Xor(Encode(seq), e) : e \in SUBSET Noise}

FirstPhase == 0 .. (SysSpan - 1)
=============================================================================
