--------------------------- MODULE MCJudgedProof ----------------------------
(* Values for JudgedProof.  A proof of two cells fits with the empty message *)
(* only, one of three never.  The envelope of "full" fills a stream, so its *)
(* aux has the most cells that verify_ext admits; "huge" is one too long.   *)
EXTENDS JudgedProof, TLC

CONSTANTS j1, j2, e1, e2

MCMsgLen == ("empty" :> 0) @@ ("file" :> 1) @@ ("full" :> 4) @@ ("huge" :> 5)

MCRelation == {<<"x1", "empty">>, <<"x2", "file">>, <<"x2", "full">>, <<"x2", "huge">>}

Interchangeable == Permutations({j1, j2}) \cup Permutations({e1, e2})
=============================================================================
