-------------------------- MODULE MCBlockSelection --------------------------
(* Values for BlockSelection.                                              *)
EXTENDS BlockSelection

\* Every distribution over K degrees.
AllCdfs ==
  {c \in [0 .. (K - 1) -> 0 .. Unit] :
     c[K - 1] = Unit /\ \A d \in 1 .. (K - 1) : c[d - 1] <= c[d]}
=============================================================================
