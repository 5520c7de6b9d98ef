------------------------ MODULE MCFirstPhaseCapture -------------------------
(* K = 2 with the budgets of the code, and a tail of seven repair frames of
   degree two.                                                             *)
EXTENDS FirstPhaseCapture

TailOfDegreeTwo == [s \in 0 .. 8 |-> {0, 1}]
=============================================================================
