------------------------------- MODULE U32Set -------------------------------
(***************************************************************************)
(* U32Set of src/src/set.rs, the decoder's set of sequence numbers: open   *)
(* addressing with linear probing, growth at a load of 7/10.  `keys` and   *)
(* the bit vector `occ` are one function `table`, Free where the bit is 0. *)
(***************************************************************************)
EXTENDS Integers, FiniteSetsExt, Functions

CONSTANTS
  Width,       \* bits of a key: 32
  Multiplier,  \* the odd multiplier of hash: 0x9e3779b1
  InitialCaps, \* of new, no slots, and of with_capacity(n), a power of two from 8 on
  Inserts,     \* the keys a run inserts
  Free         \* an unoccupied slot

\* Powers of two up to that of the largest table, one bit wider than a key.
Power[n \in 0 .. Width + 1] == IF n = 0 THEN 1 ELSE 2 * Power[n - 1]

Keys == 0 .. (Power[Width] - 1)

ASSUME WidthAssumption == Width \in Nat /\ Width >= 3
ASSUME MultiplierAssumption == Multiplier \in Keys /\ Multiplier % 2 = 1
ASSUME CapAssumption ==
  InitialCaps \subseteq {0} \cup {Power[t] : t \in 3 .. Width}
ASSUME InsertsAssumption == Inserts \subseteq Keys
ASSUME FreeAssumption == Free \notin Keys

VARIABLES
  table,       \* slot -> key, or Free
  len,
  inserted     \* the keys given to insert so far

tableVars == <<table, len, inserted>>

Cap == Cardinality(DOMAIN table)

EmptyTable(cap) == [i \in 0 .. (cap - 1) |-> Free]

TableInit ==
  /\ \E cap \in InitialCaps : table = EmptyTable(cap)
  /\ len = 0
  /\ inserted = {}

-----------------------------------------------------------------------------
(* hash(v) & mask, in a key's width and then in a table of cap slots.      *)
Bug_Home(v, cap) == ((v * (Multiplier - 1)) % Power[Width]) % cap   \* even multiplier

Home(v, cap) == ((v * Multiplier) % Power[Width]) % cap

\* The slots probed for v, in order; the loops of contains and insert stop at
\* the first that is free or holds v.
Probe(v, d, cap) == (Home(v, cap) + d) % cap

Stops(t, cap, v) == {d \in 0 .. (cap - 1) : t[Probe(v, d, cap)] \in {Free, v}}

Slot(t, cap, v) == Probe(v, Min(Stops(t, cap, v)), cap)

Contains(v) == Cap # 0 /\ table[Slot(table, Cap, v)] = v

\* insert into a table that has room.
Placed(t, cap, v) == [t EXCEPT ![Slot(t, cap, v)] = v]

NewCap(cap) == IF cap = 0 THEN 8 ELSE 2 * cap

\* grow: the occupied slots are inserted again, by increasing index.
Bug_Grown(t, cap) ==    \* copies every key to the slot it had
  [i \in 0 .. (NewCap(cap) - 1) |-> IF i < cap THEN t[i] ELSE Free]

Moved(t, cap) ==
  LET moved[n \in 0 .. cap] ==
        IF n = 0 THEN EmptyTable(NewCap(cap))
        ELSE IF t[n - 1] = Free THEN moved[n - 1]
        ELSE Placed(moved[n - 1], NewCap(cap), t[n - 1])
  IN moved

Grown(t, cap) == Moved(t, cap)[cap]

Bug_Crowded == len >= Cap        \* grows only when full

Crowded == Cap = 0 \/ (len + 1) * 10 >= Cap * 7

Insert(v) ==
  LET cap == IF Crowded THEN NewCap(Cap) ELSE Cap
      roomy == IF Crowded THEN Grown(table, Cap) ELSE table
  IN /\ Stops(roomy, cap, v) # {}
     /\ table' = Placed(roomy, cap, v)
     /\ len' = IF roomy[Slot(roomy, cap, v)] = v THEN len ELSE len + 1
     /\ inserted' = inserted \cup {v}

TableNext == \E v \in Inserts : Insert(v)

TableSpec == TableInit /\ [][TableNext]_tableVars

-----------------------------------------------------------------------------
\* The table has no slots yet or a power of two of them, as the mask of hash
\* presupposes, and counts no more keys than it has slots.
TableTypeOK ==
  /\ Cap = 0 \/ \E t \in 3 .. Width + 1 : DOMAIN table = 0 .. (Power[t] - 1)
  /\ Range(table) \subseteq Keys \cup {Free}
  /\ len \in 0 .. Cap
  /\ inserted \in SUBSET Keys

\* The loops of contains and insert end for every key: through the mask they come
\* to every slot, and some slot is free.  They are not entered without slots.
ProbesEnd ==
  TableTypeOK /\ (Cap # 0 => \A v \in Keys : Stops(table, Cap, v) # {})

\* contains knows every key inserted, across growth, and no other: add_frame
\* neither takes a duplicate for a new frame nor refuses a new one.
RemembersExactly ==
  /\ \A v \in Keys : Contains(v) <=> v \in inserted
  /\ len = Cardinality(inserted)

\* set.rs: "any run of consecutive keys (fountain sequence numbers) never
\* collides", in whatever order they arrive.
RunsDoNotCollide ==
  \A first \in Keys :
    inserted = first .. (first + len - 1) =>
      \A v \in inserted : table[Home(v, Cap)] = v
=============================================================================
