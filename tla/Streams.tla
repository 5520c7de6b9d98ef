------------------------------ MODULE Streams -------------------------------
(***************************************************************************)
(* The optical streams of a transfer.  A stream id stands for one          *)
(* StreamIdentity of src/src/frame.rs: Stream[s] gives the header fields   *)
(* the receiver looks at, and the selection its session id seeds.  An id   *)
(* without a sender is a header that no sender made: what a damaged frame  *)
(* may claim when its 32-bit tag happens to fit.                           *)
(***************************************************************************)
EXTENDS Integers, FiniteSets

CONSTANTS
  Stream,   \* id -> [flags, k, block_len, total_len, repair]
  Senders,  \* the ids that a sender emits
  MaxSeq    \* the last sequence number, u32::MAX in the code

StreamIds == DOMAIN Stream
Seqs == 0 .. MaxSeq
Frames == [stream : StreamIds, seq : Seqs]

ASSUME StreamAssumption ==
  /\ MaxSeq \in Nat
  /\ Senders \subseteq StreamIds
  /\ \A s \in StreamIds :
       /\ Stream[s].flags \in {"rsd", "systematic", "causal"}
       /\ Stream[s].k \in Nat \ {0}
       /\ Stream[s].block_len \in Nat \ {0}
       /\ Stream[s].total_len \in Nat \ {0}
       /\ Stream[s].repair \in [Seqs -> (SUBSET (0 .. Stream[s].k - 1)) \ {{}}]

\* The fountain code of stream s, without errors.
Code(s) == INSTANCE LtCode WITH K <- Stream[s].k, Mode <- Stream[s].flags,
                                Repair <- Stream[s].repair, Noise <- {}

\* The blocks each frame of stream s covers.
Equations == [s \in StreamIds |-> [seq \in Seqs |-> Code(s)!Equation(seq)]]

\* What peeling derives from the frames E of stream s: Decodable[s][E].  LtDecoder
\* is proved to compute this, in whatever order the frames arrive.
Peel(s) == INSTANCE Peeling WITH Blocks <- Code(s)!Blocks, Eq <- Equations[s],
                                 eqs <- {}, known <- {}
Decodable == [s \in StreamIds |-> [E \in SUBSET Seqs |-> Peel(s)!Closure(E)]]
=============================================================================
