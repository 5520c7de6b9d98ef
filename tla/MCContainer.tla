---------------------------- MODULE MCContainer -----------------------------
(* Values for Container: what is packed has a name and a type of up to       *)
(* three characters.  safe_file_name and normalize_mime_type alone see names *)
(* and types of up to five, and a device whose name is two letters long.     *)
EXTENDS Container

CONSTANTS small, incompressible, big, huge, empty

MCNames == {Cells(<<"n", "c">>), Cells(<<"n", "/">>), Cells(<<"n", "c", "c", "c">>)}
MCTypes == {Cells(<<"a", "/", "b">>), Cells(<<"d", "/", "d">>), Cells(<<"a">>)}
MCPrecompressed == {Cells(<<"d", "/", "d">>)}

MCContents == {small, incompressible, big, huge, empty}
MCSize == (small :> 1) @@ (incompressible :> 6) @@ (big :> 6) @@ (huge :> 7) @@ (empty :> 0)
MCGzSize == (small :> 3) @@ (incompressible :> 7) @@ (big :> 3) @@ (huge :> 3) @@ (empty :> 2)

Strings(chars, n) == UNION {[1 .. k -> chars] : k \in 0 .. n}

MCNameStrings == Strings({"c", "C", "n", "/", "ctl", ":", ".", " ", "nbsp"}, 4)
                 \cup [1 .. 5 -> {"c", "n", "ctl", ".", " "}]
MCTypeStrings == Strings({"a", "/", ";", " ", "nbsp", "ctl", "("}, 5)

MCCharacters ==
  {"a", "b", "c", "C", "d", "n", "N", "t", "/", "ctl", ":", ";", ".", " ", "nbsp", "(", "_",
   "other"}

MCUpper == [ch \in MCCharacters |-> CASE ch = "c" -> "C" [] ch = "n" -> "N" [] OTHER -> ch]

MCDevices == {<<"C", "N">>}
MCDefaultName == <<"t", ".", "b">>
MCDefaultType == <<"d", "/", "d">>
=============================================================================
