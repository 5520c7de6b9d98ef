----------------------------- MODULE MCLtDecoder ----------------------------
(* Values for the constants of LtDecoder.                                  *)
EXTENDS LtDecoder

\* K = 3, no first phase: seven frames, every non-empty subset once.
EveryEquation == 0 :> {0} @@ 1 :> {0, 1} @@ 2 :> {1, 2} @@ 3 :> {0, 1, 2}
                 @@ 4 :> {2} @@ 5 :> {0, 2} @@ 6 :> {1}

\* (A first phase does not read its entries of Repair.)

\* K = 4 after a first phase: four repair frames, one of them of degree one and
\* one a repetition of a first-phase equation.
Tail4 == [s \in 0 .. 3 |-> {0}] @@ 4 :> {0, 1, 2, 3} @@ 5 :> {2} @@ 6 :> {1, 2}
         @@ 7 :> {0, 3}
=============================================================================
