------------------------------ MODULE MCU32Set ------------------------------
(* Keys of six bits: a run of seven sequence numbers, and four that start   *)
(* from a slot of the run.                                                  *)
EXTENDS U32Set

SixBitInserts == 0 .. 6 \cup {13, 16, 29, 63}
=============================================================================
