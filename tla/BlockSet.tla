------------------------------ MODULE BlockSet ------------------------------
(***************************************************************************)
(* BlockSet of src/src/fountain.rs: the blocks a waiting frame still lacks, *)
(* as a vector when they are few and as a bitmap with a counter when they   *)
(* are many.  LtDecoder has a plain set in its place; AbstractBlockSet is   *)
(* that set, and Refines says that both representations implement it.       *)
(*                                                                         *)
(* A word of the bitmap is the set of its bits.                            *)
(***************************************************************************)
EXTENDS Naturals, Sequences, FiniteSets

CONSTANTS
  K,            \* the number of source blocks
  DenseLimit,   \* DENSE_LIMIT
  WordBits      \* bits of a word: 64

ASSUME BlockSetAssumption ==
  K \in Nat \ {0} /\ DenseLimit \in Nat /\ WordBits \in Nat \ {0}

VARIABLES
  kind,     \* the variant: "Dense" or "Sparse"
  vec,      \* of Dense
  bits,     \* of Sparse
  count     \* of Sparse

vars == <<kind, vec, bits, count>>

Blocks == 0 .. K - 1
WordOf(b) == b \div WordBits
BitOf(b) == b % WordBits
Words == 0 .. (K + WordBits - 1) \div WordBits - 1

Elements(s) == {s[i] : i \in DOMAIN s}

\* Whatever unsolved holds in add_frame: distinct blocks in any order.
MemberLists ==
  {s \in UNION {[1 .. n -> Blocks] : n \in 1 .. K} :
     \A i, j \in DOMAIN s : s[i] = s[j] => i = j}

\* BlockSet::new
Init ==
  \E members \in MemberLists :
    IF Len(members) > DenseLimit
    THEN /\ kind = "Sparse"
         /\ vec = <<>>
         /\ bits = [w \in Words |-> {BitOf(b) : b \in {c \in Elements(members) : WordOf(c) = w}}]
         /\ count = Len(members)
    ELSE /\ kind = "Dense"
         /\ vec = members
         /\ bits = [w \in Words |-> {}]
         /\ count = 0

\* Vec::swap_remove: the last entry takes the place of the removed one.
SwapRemove(s, i) ==
  [j \in 1 .. Len(s) - 1 |-> IF j = i THEN s[Len(s)] ELSE s[j]]

RemoveDense(block) ==
  /\ kind = "Dense"
  /\ \E i \in DOMAIN vec : vec[i] = block /\ vec' = SwapRemove(vec, i)
  /\ UNCHANGED <<kind, bits, count>>

Bug_ClearWord(block) ==         \* zeroes the word instead of one bit of it
  /\ kind = "Sparse"
  /\ BitOf(block) \in bits[WordOf(block)]
  /\ bits' = [bits EXCEPT ![WordOf(block)] = {}]
  /\ count' = count - 1
  /\ UNCHANGED <<kind, vec>>

RemoveSparse(block) ==
  /\ kind = "Sparse"
  /\ BitOf(block) \in bits[WordOf(block)]
  /\ bits' = [bits EXCEPT ![WordOf(block)] = @ \ {BitOf(block)}]
  /\ count' = count - 1
  /\ UNCHANGED <<kind, vec>>

\* What the representation holds.
Members ==
  IF kind = "Dense" THEN Elements(vec)
  ELSE {b \in Blocks : BitOf(b) \in bits[WordOf(b)]}

RemoveAbsent(block) == block \notin Members /\ UNCHANGED vars

Remove(block) == RemoveDense(block) \/ RemoveSparse(block) \/ RemoveAbsent(block)

\* len and single, the latter asked only when len is one.
Length == IF kind = "Dense" THEN Len(vec) ELSE count

Least(S) == CHOOSE n \in S : \A m \in S : n <= m

Bug_Single ==                \* the bit without the words before it
  IF kind = "Dense" THEN vec[1]
  ELSE Least(bits[Least({w \in Words : bits[w] # {}})])

Single ==
  IF kind = "Dense" THEN vec[1]
  ELSE LET w == Least({u \in Words : bits[u] # {}})
       IN w * WordBits + Least(bits[w])

Next == \E block \in Blocks : Remove(block)

Spec == Init /\ [][Next]_vars

-----------------------------------------------------------------------------
(* Properties.                                                             *)

\* Few blocks are a vector, many a bitmap with a counter that is never negative
\* (a usize: below zero it would wrap).
TypeOK ==
  /\ kind \in {"Dense", "Sparse"}
  /\ vec \in Seq(Blocks)
  /\ bits \in [Words -> SUBSET (0 .. WordBits - 1)]
  /\ count \in Nat

\* Nothing but the members is stored: a bitmap has no bit beyond the last block
\* (len and single would count it), a vector no block twice (remove would
\* leave the second one).
Canonical ==
  /\ \A i, j \in DOMAIN vec : vec[i] = vec[j] => i = j
  /\ kind = "Sparse" =>
       \A w \in Words : \A i \in bits[w] : w * WordBits + i \in Blocks

\* resolve decides from len whether a frame is used up, frees a block or goes
\* on waiting: the length, and the counter of the bitmap, are those of the set
\* after any sequence of removals, repeated and absent blocks included.
LenExact == Length = Cardinality(Members)

\* The block that a frame frees is the one it still lacks.
SingleExact == Length = 1 => Members = {Single}

\* Both representations implement the set that LtDecoder computes with.
Set == INSTANCE AbstractBlockSet WITH members <- Members
Refines == Set!Spec

\* Removing a block removes that block and no other, wherever it is stored:
\* resolve has just XORed its content out of the frame.
RemovesTheBlock == [][\A block \in Blocks : Remove(block) => Set!Remove(block)]_vars
=============================================================================
