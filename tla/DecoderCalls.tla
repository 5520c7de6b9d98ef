---------------------------- MODULE DecoderCalls ----------------------------
(***************************************************************************)
(* LtDecoder of src/src/fountain.rs between two calls, as its caller sees  *)
(* it: no buffers and no loop.  A decoder is a record of the frames it     *)
(* accepted and of what they cost against its two budgets; what it solved  *)
(* follows from the frames.  LtDecoder implements this call by call, and   *)
(* Receiver computes with it.                                              *)
(***************************************************************************)
EXTENDS Integers, FiniteSets

CONSTANTS
  Blocks,      \* the source blocks
  Eq,          \* Eq[n]: the blocks that frame n covers
  Determined,  \* Determined[E]: the blocks that the frames E determine
  MaxSlots,    \* what the arena may hold
  MaxEdges     \* MAX_PENDING_EDGES_PER_BLOCK for all blocks

New == [seen |-> {}, slots |-> 0, edges |-> 0]

\* is_complete
Complete(d) == Determined[d.seen] = Blocks

\* The blocks of frame n that are not solved, and what they cost.
Open(d, n) == Eq[n] \ Determined[d.seen]

Edges(d, n) == IF Cardinality(Open(d, n)) > 1 THEN Cardinality(Open(d, n)) ELSE 0

Slots(d, n) == IF Open(d, n) = {} THEN 0 ELSE 1

\* The early returns of add_frame.  A redundant frame needs room for a slot too,
\* which it then does not take.
Refuses(d, n) ==
  \/ Complete(d)
  \/ n \in d.seen
  \/ d.slots + 1 > MaxSlots
  \/ d.edges + Edges(d, n) > MaxEdges

\* The decoder after add_frame(n).
Added(d, n) ==
  IF Refuses(d, n) THEN d
  ELSE [d EXCEPT !.seen = @ \cup {n},
                 !.slots = @ + Slots(d, n),
                 !.edges = @ + Edges(d, n)]
=============================================================================
