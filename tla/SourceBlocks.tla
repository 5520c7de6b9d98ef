---------------------------- MODULE SourceBlocks ----------------------------
(***************************************************************************)
(* A payload on its way into source blocks and back: the constructor of     *)
(* Sender, the copying loop of LtEncoder::try_with_mode, the blocks as      *)
(* LtDecoder stores them, and the copying loop of assemble.                 *)
(*                                                                         *)
(* Byte i of the payload is i + 1, and 0 is a byte of padding.  That the    *)
(* decoder solves each block from frames is the matter of LtDecoder.        *)
(***************************************************************************)
EXTENDS Capacity

CONSTANTS
  WordBytes,        \* bytes of a word: 4
  Lengths, Frames,  \* lengths of payloads, sizes of frames to try
  MaxU32

ASSUME SourceBlocksAssumption ==
  /\ WordBytes \in Nat \ {0}
  /\ Lengths \subseteq Nat /\ Frames \subseteq Nat
  /\ MaxU32 \in Nat /\ MaxStreamBytes <= MaxU32

VARIABLES
  pc,
  len,          \* payload.len()
  block_len,
  k,
  b,            \* the block a loop is at
  arena,        \* blocks, as bytes
  out

vars == <<pc, len, block_len, k, b, arena, out>>

Width == DivCeil(block_len, WordBytes) * WordBytes

Init ==
  /\ pc = "construct"
  /\ len \in Lengths
  /\ \E frame \in Frames : block_len = BlockLength(frame)
  /\ k = 0 /\ b = 0
  /\ arena = [i \in {} |-> 0]
  /\ out = [i \in {} |-> 0]

\* Sender::try_with_mode and LtEncoder::try_with_mode, up to its loop.
Construct ==
  /\ pc = "construct"
  /\ IF SenderChecks(len, block_len) /\ EncoderChecks(len, block_len)
     THEN /\ k' = DivCeil(len, block_len)
          /\ arena' = [i \in 0 .. k' * Width - 1 |-> 0]
          /\ pc' = "split"
     ELSE pc' = "refused" /\ UNCHANGED <<k, arena>>
  /\ UNCHANGED <<len, block_len, b, out>>

Start == b * block_len

End == IF Start + block_len < len THEN Start + block_len ELSE len

Bug_Split ==                        \* blocks of bytes, not of whole words
  /\ pc = "split" /\ b < k
  /\ arena' = [i \in DOMAIN arena |->
       IF i \in Start .. End - 1 THEN i + 1 ELSE arena[i]]
  /\ b' = b + 1
  /\ UNCHANGED <<pc, len, block_len, k, out>>

\* One iteration of the loop of try_with_mode.
Split ==
  LET dst == b * Width
  IN /\ pc = "split" /\ b < k
     /\ arena' = [i \in DOMAIN arena |->
          IF i \in dst .. dst + (End - Start) - 1 THEN Start + (i - dst) + 1 ELSE arena[i]]
     /\ b' = b + 1
     /\ UNCHANGED <<pc, len, block_len, k, out>>

\* The header, in the integers of the frame.
HeaderK == k % (MaxU16 + 1)
HeaderBlockLen == block_len % (MaxU16 + 1)
HeaderTotalLen == len % (MaxU32 + 1)

Admitted ==
  /\ WithinMaximum(HeaderK, HeaderBlockLen, HeaderTotalLen)
  /\ DecoderChecks(HeaderK, HeaderBlockLen, HeaderTotalLen)

\* A receiver meets the stream and, with every block solved, assembles it.
Receive ==
  /\ pc = "split" /\ b = k
  /\ IF Admitted
     THEN /\ pc' = "assemble"
          /\ out' = [i \in 0 .. HeaderTotalLen - 1 |-> 0]
     ELSE pc' = "rejected" /\ out' = out
  /\ b' = 0
  /\ UNCHANGED <<len, block_len, k, arena>>

\* What a frame carries of a block, in a slot of words of the decoder.
Slot(x) == [i \in 0 .. Width - 1 |-> IF i < block_len THEN arena[x * Width + i] ELSE 0]

CopyLen == IF block_len < len - Start THEN block_len ELSE len - Start

\* One iteration of the loop of assemble.
Assemble ==
  /\ pc = "assemble" /\ b < k
  /\ out' = [i \in DOMAIN out |->
       IF i \in Start .. Start + CopyLen - 1 THEN Slot(b)[i - Start] ELSE out[i]]
  /\ b' = b + 1
  /\ pc' = IF b + 1 = k THEN "done" ELSE pc
  /\ UNCHANGED <<len, block_len, k, arena>>

Next == Construct \/ Split \/ Receive \/ Assemble

Spec == Init /\ [][Next]_vars

-----------------------------------------------------------------------------
(* Properties.                                                             *)

\* The lengths of the arena and of the payload are those the constructor and
\* assemble allocate, and every byte in them is one of the payload or zero.
TypeOK ==
  /\ pc \in {"construct", "refused", "split", "rejected", "assemble", "done"}
  /\ len \in Nat
  /\ block_len \in 0 .. MaxU16
  /\ k \in 0 .. MaxU16
  /\ b \in 0 .. k
  /\ arena \in [0 .. k * Width - 1 -> 0 .. len]
  /\ DOMAIN out \in {{}, 0 .. len - 1}

\* No slice of the two loops runs backwards or leaves its buffer, whichever
\* way the length falls between the blocks: neither loop can panic.
InBounds ==
  /\ pc = "split" /\ b < k =>
       /\ Start <= End /\ End <= len
       /\ b * Width + (End - Start) <= k * Width
       /\ End - Start <= Width
  /\ pc = "assemble" /\ b < k =>
       /\ CopyLen \in 0 .. Width
       /\ Start + CopyLen <= len

\* Every stream a sender can be built for, a receiver with the default limits
\* admits: the checks of the two sides agree, in the integers of the header.
SendersAreAdmitted == pc # "rejected"

\* What assemble returns is the payload, with neither the padding of the words
\* nor that of a short last block in it.
Reassembled == pc = "done" => out = [i \in 0 .. len - 1 |-> i + 1]

\* smallest_sufficient_frame_size chooses the least frame of those offered
\* with which the sender can be built, and finds one whenever there is one,
\* provided the payload is within the limit of a stream.
SmallestIsRight ==
  len \in 1 .. MaxStreamBytes =>
    \A options \in SUBSET Frames :
      LET accepted == {f \in options : SenderChecks(len, BlockLength(f))}
          chosen == SmallestSufficient(len, options)
      IN IF accepted = {} THEN chosen = 0
         ELSE chosen \in accepted /\ \A f \in accepted : chosen <= f
=============================================================================
