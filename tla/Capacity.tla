------------------------------ MODULE Capacity ------------------------------
(***************************************************************************)
(* src/src/capacity.rs, and the checks on lengths that surround it: those   *)
(* of the sender's constructor, of the encoder's and of the decoder's.      *)
(* A length or a size that is None is 0 here, which no Some ever is.        *)
(***************************************************************************)
EXTENDS Integers

CONSTANTS
  HeaderLen,
  MaxU16,           \* u16::MAX, which is also MAX_SOURCE_BLOCKS
  MaxStreamBytes

ASSUME CapacityAssumption ==
  /\ HeaderLen \in Nat /\ MaxU16 \in Nat \ {0}
  /\ MaxStreamBytes \in Nat

\* usize::div_ceil, for b > 0.
DivCeil(a, b) == (a + b - 1) \div b

\* block_length
BlockLength(frame) == IF frame - HeaderLen \in 1 .. MaxU16 THEN frame - HeaderLen ELSE 0

\* source_block_count, where block_length is not None
SourceBlockCount(payload, frame) == DivCeil(payload, BlockLength(frame))

\* fits_in_one_stream
FitsInOneStream(payload, frame) ==
  BlockLength(frame) # 0 /\ SourceBlockCount(payload, frame) \in 1 .. MaxU16

Bug_MinimumFrameBytes(payload) == DivCeil(payload, MaxU16) + HeaderLen - 1

\* minimum_frame_bytes
MinimumFrameBytes(payload) ==
  (IF DivCeil(payload, MaxU16) > 1 THEN DivCeil(payload, MaxU16) ELSE 1) + HeaderLen

\* smallest_sufficient_frame_size: the candidates, and the least of them.
Candidates(payload, options) ==
  {f \in options : f >= MinimumFrameBytes(payload) /\ BlockLength(f) # 0}

SmallestSufficient(payload, options) ==
  IF Candidates(payload, options) = {} THEN 0
  ELSE CHOOSE f \in Candidates(payload, options) :
         \A g \in Candidates(payload, options) : f <= g

\* Sender::try_with_mode up to the encoder, and checked_encoder_k.
SenderChecks(payload, block_len) ==
  /\ payload > 0
  /\ block_len \in 1 .. MaxU16
  /\ payload <= MaxStreamBytes
  /\ FitsInOneStream(payload, block_len + HeaderLen)

EncoderChecks(payload, block_len) ==
  /\ payload > 0
  /\ block_len \in 1 .. MaxU16
  /\ payload <= MaxStreamBytes
  /\ DivCeil(payload, block_len) \in 1 .. MaxU16

\* try_push with the default limits, and LtDecoder::try_new_mode.
WithinMaximum(k, block_len, total_len) ==
  total_len <= MaxStreamBytes /\ k <= MaxU16 /\ block_len <= MaxU16

Bug_DecoderChecks(k, block_len, total_len) ==     \* wants the last block to be full
  /\ k > 0 /\ block_len > 0 /\ total_len > 0
  /\ k <= MaxU16 /\ block_len <= MaxU16
  /\ total_len <= MaxStreamBytes
  /\ k * block_len = total_len

DecoderChecks(k, block_len, total_len) ==
  /\ k > 0 /\ block_len > 0 /\ total_len > 0
  /\ k <= MaxU16 /\ block_len <= MaxU16
  /\ total_len <= MaxStreamBytes
  /\ k = DivCeil(total_len, block_len)
=============================================================================
