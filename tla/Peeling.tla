------------------------------ MODULE Peeling -------------------------------
(***************************************************************************)
(* What the fountain decoder promises, with no buffers, queues or budgets: *)
(* it knows exactly the blocks that repeated substitution can derive from  *)
(* the equations it accepted.  It accepts a new equation only when nothing *)
(* more follows from the old ones, and learns one block at a time.         *)
(***************************************************************************)
EXTENDS Integers, FiniteSets

CONSTANTS
  Blocks,  \* the unknowns
  Seqs,    \* the names of the equations
  Eq       \* Eq[e]: the blocks equation e sums

VARIABLES
  eqs,     \* the equations accepted so far
  known    \* the blocks whose content is known

vars == <<eqs, known>>

\* Equation e determines block b once everything else in it is known.
Determines(e, b) == Eq[e] \ known = {b}

Saturated == \A e \in eqs, b \in Blocks : ~ Determines(e, b)

\* X is closed under equations E: none of them leaves exactly one block open.
Closed(X, E) == \A e \in E, b \in Blocks : Eq[e] \ X # {b}

\* The blocks equations E determine: the least closed set.
Closure(E) == {b \in Blocks : \A X \in SUBSET Blocks : Closed(X, E) => b \in X}

-----------------------------------------------------------------------------
Init == eqs = {} /\ known = {}

Accept(e) ==
  /\ Saturated
  /\ eqs' = eqs \cup {e}
  /\ UNCHANGED known

Learn(b) ==
  /\ \E e \in eqs : Determines(e, b)
  /\ known' = known \cup {b}
  /\ UNCHANGED eqs

Next == (\E e \in Seqs : Accept(e)) \/ (\E b \in Blocks : Learn(b))

SafeSpec == Init /\ [][Next]_vars

Spec == SafeSpec /\ WF_vars(\E b \in Blocks : Learn(b))

-----------------------------------------------------------------------------
TypeOK == eqs \in SUBSET Seqs /\ known \in SUBSET Blocks

\* Nothing is known that does not follow from the accepted equations.
Sound == \A X \in SUBSET Blocks : Closed(X, eqs) => known \subseteq X
=============================================================================
