-------------------------- MODULE AbstractBlockSet --------------------------
(* The set of blocks a waiting frame lacks, as LtDecoder computes with it:  *)
(* made of any blocks, after which blocks only leave it, one at a time.     *)
EXTENDS Naturals

CONSTANT K
VARIABLE members

Init == members \in (SUBSET (0 .. K - 1)) \ {{}}

Remove(block) == members' = members \ {block}

Next == \E block \in 0 .. K - 1 : Remove(block)

Spec == Init /\ [][Next]_members
=============================================================================
