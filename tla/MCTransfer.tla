----------------------------- MODULE MCTransfer -----------------------------
(* Values for the constants of Transfer: two senders, and two headers that  *)
(* only a damaged frame can carry, one over the receiver's block length and *)
(* one whose block count contradicts its length.                            *)
EXTENDS Transfer, TLC

CONSTANTS a, b, big, odd

TailFrom(n, last) == [s \in Seqs |-> IF s < n THEN {0} ELSE last[(s - n) % 3]]
TailA == 0 :> {0, 1} @@ 1 :> {1} @@ 2 :> {0}
TailB == 0 :> {0} @@ 1 :> {0, 1} @@ 2 :> {1}

TwoStreams ==
  a :> [flags |-> "causal", k |-> 2, block_len |-> 4, total_len |-> 7,
        repair |-> TailFrom(2, TailA)]
  @@ b :> [flags |-> "systematic", k |-> 2, block_len |-> 3, total_len |-> 6,
           repair |-> TailFrom(2, TailB)]
  @@ big :> [flags |-> "rsd", k |-> 1, block_len |-> 5, total_len |-> 5,
             repair |-> [s \in Seqs |-> {0}]]
  @@ odd :> [flags |-> "rsd", k |-> 1, block_len |-> 4, total_len |-> 7,
             repair |-> [s \in Seqs |-> {0}]]

SmallLimits == [max_stream_bytes |-> 8, max_source_blocks |-> 2, max_block_len |-> 4]
MaximumLimits == [max_stream_bytes |-> 16, max_source_blocks |-> 4, max_block_len |-> 8]
=============================================================================
