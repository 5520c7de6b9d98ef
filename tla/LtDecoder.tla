----------------------------- MODULE LtDecoder ------------------------------
(***************************************************************************)
(* LtDecoder of src/src/fountain.rs: duplicate detection, the storage      *)
(* budgets, the arena of partially reduced equations, the block-to-frame   *)
(* adjacency and the peeling loop of `resolve`.                            *)
(*                                                                         *)
(* One call of add_frame is one action up to the loop of `resolve`, whose  *)
(* iterations are actions of their own (Solve, SkipSolved, Peel,           *)
(* SkipInactive).  add_frame takes &mut self, so nothing else runs before  *)
(* the loop ends: every other action waits for Idle.                       *)
(*                                                                         *)
(* Arena offsets count block-sized slots, from 1; None (0) is the None of  *)
(* `solved`.  Vec positions (FrameId) also count from 1.                   *)
(***************************************************************************)
EXTENDS LtCode, SequencesExt

CONSTANTS
  ArenaFactor,  \* slots per block the arena may hold: 4
  EdgeFactor,   \* MAX_PENDING_EDGES_PER_BLOCK: 64
  MaxDup,       \* bound on frames_dup
  MaxDropped    \* bound on frames_dropped

ASSUME FactorAssumption == ArenaFactor \in Nat /\ EdgeFactor \in Nat
ASSUME CounterAssumption == MaxDup \in Nat /\ MaxDropped \in Nat

VARIABLES
  solved,         \* block -> arena slot that holds it, or None
  solved_count,
  frames,         \* the PendingFrames: [idx, off, active]
  by_block,       \* block -> FrameIds waiting for it
  seen,           \* sequence numbers accepted
  arena,          \* the slots, each a set of symbols
  pending_edges,
  frames_new, frames_dup, frames_dropped,
  queue,          \* resolve: the stack of [block, off]
  cur,            \* resolve: the block just solved, `b`
  waiting         \* resolve: its FrameIds still to visit

equations == <<solved, solved_count, frames, by_block, seen, arena,
               pending_edges, frames_new>>
loop == <<queue, cur, waiting>>
vars == <<solved, solved_count, frames, by_block, seen, arena, pending_edges,
          frames_new, frames_dup, frames_dropped, queue, cur, waiting>>

-----------------------------------------------------------------------------
(* The state, read.                                                        *)

None == 0

Known == {b \in Blocks : solved[b] # None}

Idle == queue = <<>> /\ waiting = <<>>

IsComplete == solved_count >= K

Unsolved(seq) == {b \in Equation(seq) : solved[b] = None}

NewEdges(U) == IF Cardinality(U) > 1 THEN Cardinality(U) ELSE 0

MaxArenaSlots == ArenaFactor * K
MaxPendingEdges == EdgeFactor * K

Bug_WithinBudget(seq) ==      \* charges the edges only after they are stored
  /\ Len(arena) + 1 <= MaxArenaSlots
  /\ pending_edges <= MaxPendingEdges

WithinBudget(seq) ==
  /\ Len(arena) + 1 <= MaxArenaSlots
  /\ pending_edges + NewEdges(Unsolved(seq)) <= MaxPendingEdges

\* The new slot: the payload XOR every block of the equation already solved.
Reduced(seq, payload) ==
  Xor(payload, XorSum(Equation(seq) \ Unsolved(seq),
                      [b \in Known |-> arena[solved[b]]]))

Init ==
  /\ solved = [b \in Blocks |-> None]
  /\ solved_count = 0
  /\ frames = <<>>
  /\ by_block = [b \in Blocks |-> <<>>]
  /\ seen = {}
  /\ arena = <<>>
  /\ pending_edges = 0
  /\ frames_new = 0 /\ frames_dup = 0 /\ frames_dropped = 0
  /\ queue = <<>> /\ cur = 0 /\ waiting = <<>>

-----------------------------------------------------------------------------
(* add_frame.                                                              *)

\* block.len() != self.block_len
WrongLength ==
  /\ Idle
  /\ frames_dropped < MaxDropped
  /\ frames_dropped' = frames_dropped + 1
  /\ UNCHANGED <<equations, loop, frames_dup>>

\* The early return of a decoder that is complete.
Ignored == Idle /\ IsComplete /\ UNCHANGED vars

Duplicate(seq) ==
  /\ Idle /\ ~ IsComplete
  /\ seq \in seen
  /\ frames_dup < MaxDup
  /\ frames_dup' = frames_dup + 1
  /\ UNCHANGED <<equations, loop, frames_dropped>>

Fresh(seq) == Idle /\ ~ IsComplete /\ seq \notin seen

Bug_OverBudget(seq) ==        \* remembers the dropped frame as seen
  /\ Fresh(seq)
  /\ ~ WithinBudget(seq)
  /\ frames_dropped < MaxDropped
  /\ frames_dropped' = frames_dropped + 1
  /\ seen' = seen \cup {seq}
  /\ UNCHANGED <<solved, solved_count, frames, by_block, arena, pending_edges,
                 frames_new, loop, frames_dup>>

OverBudget(seq) ==
  /\ Fresh(seq)
  /\ ~ WithinBudget(seq)
  /\ frames_dropped < MaxDropped
  /\ frames_dropped' = frames_dropped + 1
  /\ UNCHANGED <<equations, loop, frames_dup>>

Accepted(seq) ==
  /\ Fresh(seq)
  /\ WithinBudget(seq)
  /\ seen' = seen \cup {seq}
  /\ frames_new' = frames_new + 1
  /\ UNCHANGED <<solved, solved_count, frames_dup, frames_dropped, cur, waiting>>

\* Every block of the frame is solved already.
Redundant(seq) ==
  /\ Unsolved(seq) = {}
  /\ Accepted(seq)
  /\ UNCHANGED <<frames, by_block, arena, pending_edges, queue>>

\* Exactly one block is unsolved: resolve(b, off) starts.
SolveOne(seq, payload) ==
  \E b \in Blocks :
    /\ Unsolved(seq) = {b}
    /\ Accepted(seq)
    /\ arena' = Append(arena, Reduced(seq, payload))
    /\ queue' = <<[block |-> b, off |-> Len(arena) + 1]>>
    /\ UNCHANGED <<frames, by_block, pending_edges>>

\* Two or more are unsolved: the equation waits for each of them.
Store(seq, payload) ==
  LET U == Unsolved(seq)
      frame_id == Len(frames) + 1
  IN /\ Cardinality(U) > 1
     /\ Accepted(seq)
     /\ arena' = Append(arena, Reduced(seq, payload))
     /\ pending_edges' = pending_edges + Cardinality(U)
     /\ by_block' = [b \in Blocks |-> IF b \in U THEN Append(by_block[b], frame_id)
                                                 ELSE by_block[b]]
     /\ frames' = Append(frames, [idx |-> U, off |-> Len(arena) + 1, active |-> TRUE])
     /\ UNCHANGED queue

-----------------------------------------------------------------------------
(* resolve.                                                                *)

\* The popped block was solved by an earlier entry: `continue`.
Bug_SkipSolved ==             \* peeks instead of popping
  /\ queue # <<>> /\ waiting = <<>>
  /\ solved[Last(queue).block] # None
  /\ UNCHANGED vars

SkipSolved ==
  /\ queue # <<>> /\ waiting = <<>>
  /\ solved[Last(queue).block] # None
  /\ queue' = Front(queue)
  /\ UNCHANGED <<equations, frames_dup, frames_dropped, cur, waiting>>

\* The popped block becomes solved and its adjacency list is taken.
Bug_Solve ==                  \* does not look whether it is solved already
  /\ queue # <<>> /\ waiting = <<>>
  /\ LET b == Last(queue).block
     IN /\ solved' = [solved EXCEPT ![b] = Last(queue).off]
        /\ cur' = b
        /\ waiting' = by_block[b]
        /\ by_block' = [by_block EXCEPT ![b] = <<>>]
  /\ solved_count' = solved_count + 1
  /\ queue' = Front(queue)
  /\ UNCHANGED <<frames, seen, arena, pending_edges, frames_new, frames_dup,
                 frames_dropped>>

Solve ==
  /\ queue # <<>> /\ waiting = <<>>
  /\ LET b == Last(queue).block
     IN /\ solved[b] = None
        /\ solved' = [solved EXCEPT ![b] = Last(queue).off]
        /\ cur' = b
        /\ waiting' = by_block[b]
        /\ by_block' = [by_block EXCEPT ![b] = <<>>]
  /\ solved_count' = solved_count + 1
  /\ queue' = Front(queue)
  /\ UNCHANGED <<frames, seen, arena, pending_edges, frames_new, frames_dup,
                 frames_dropped>>

\* `if !frame.active { continue; }`
SkipInactive ==
  /\ waiting # <<>>
  /\ ~ frames[Head(waiting)].active
  /\ waiting' = Tail(waiting)
  /\ UNCHANGED <<equations, frames_dup, frames_dropped, queue, cur>>

\* `match frame.idx.len()`: what is left of a frame stays active with two
\* blocks or more, and is queued with one that is unsolved.
Bug_StaysActive(left) == Cardinality(left) > 0

StaysActive(left) == Cardinality(left) > 1

Bug_Freed(left) ==            \* drops the equation while others are queued
  {r \in left : left = {r} /\ solved[r] = None /\ queue = <<>>}

Freed(left) == {r \in left : left = {r} /\ solved[r] = None}

Peel ==
  /\ waiting # <<>>
  /\ LET f == Head(waiting)
         off == frames[f].off
         left == frames[f].idx \ {cur}
     IN /\ frames[f].active
        /\ arena' = [arena EXCEPT ![off] = Xor(arena[off], arena[solved[cur]])]
        /\ frames' = [frames EXCEPT ![f] =
                        [idx |-> left, off |-> off, active |-> StaysActive(left)]]
        /\ \/ /\ Freed(left) = {}
              /\ UNCHANGED queue
           \/ \E r \in Freed(left) : queue' = Append(queue, [block |-> r, off |-> off])
  /\ waiting' = Tail(waiting)
  /\ UNCHANGED <<solved, solved_count, by_block, seen, pending_edges, frames_new,
                 frames_dup, frames_dropped, cur>>

-----------------------------------------------------------------------------
AddFrame(seq) ==
  \/ Duplicate(seq)
  \/ OverBudget(seq)
  \/ Redundant(seq)
  \/ \E payload \in Payloads(seq) : SolveOne(seq, payload) \/ Store(seq, payload)

Resolve == SkipSolved \/ Solve \/ SkipInactive \/ Peel

Next == WrongLength \/ Ignored \/ (\E seq \in Seqs : AddFrame(seq)) \/ Resolve

\* The loop of `resolve` runs to its end; nothing obliges anyone to send.
Spec == Init /\ [][Next]_vars /\ WF_vars(Resolve)

-----------------------------------------------------------------------------
(* The type invariant.                                                     *)

Offsets == 1 .. Len(arena)
FrameIds == 1 .. Len(frames)

\* Every index that the decoder keeps points into its buffers: solved slots into
\* the arena, entries of by_block and of the stack to frames it stored.
TypeOK ==
  /\ solved \in [Blocks -> Offsets \cup {None}]
  /\ solved_count \in 0 .. K
  /\ frames \in Seq([idx : SUBSET Blocks, off : Offsets, active : BOOLEAN])
  /\ by_block \in [Blocks -> Seq(FrameIds)]
  /\ seen \in SUBSET Seqs
  /\ arena \in Seq(SUBSET Symbols)
  /\ pending_edges \in Nat
  /\ frames_new \in Nat
  /\ frames_dup \in 0 .. MaxDup
  /\ frames_dropped \in 0 .. MaxDropped
  /\ queue \in Seq([block : Blocks, off : Offsets])
  /\ cur \in Blocks
  /\ waiting \in Seq(FrameIds)

-----------------------------------------------------------------------------
(* What must hold.                                                         *)

Active == {f \in FrameIds : frames[f].active}

Eq == [e \in Seqs |-> Equation(e)]

Abs == INSTANCE Peeling WITH eqs <- seen, known <- Known

\* The decoder as its caller sees it.
Calls == INSTANCE DecoderCalls
           WITH Determined <- [E \in SUBSET Seqs |-> Abs!Closure(E)],
                MaxSlots <- MaxArenaSlots,
                MaxEdges <- MaxPendingEdges

Decoder == [seen |-> seen, slots |-> Len(arena), edges |-> pending_edges]

\* resolve XORs one arena slot into another and asserts that they differ
\* (xor_at): no two holders of a slot - a waiting frame, an entry of the
\* stack, a solved block - ever hold the same one.
SlotsNotShared ==
  /\ \A f, g \in Active : frames[f].off = frames[g].off => f = g
  /\ \A f \in Active, b \in Known : frames[f].off # solved[b]
  /\ \A f \in Active, i \in DOMAIN queue : frames[f].off # queue[i].off
  /\ \A i, j \in DOMAIN queue : queue[i].off = queue[j].off => i = j
  /\ \A i \in DOMAIN queue, b \in Known : queue[i].off # solved[b]
  /\ \A b, c \in Known : solved[b] = solved[c] => b = c

\* The slot add_frame and resolve leave in solved[b] holds block b and nothing
\* else of the source, whatever frames came in whatever order.
SolvedCorrect == \A b \in Known : arena[solved[b]] \ Noise = {b}

\* is_complete compares a counter with k; assemble then copies every block,
\* leaving zeroes for one that is missing.  The counter never lies.
CompleteMeansAll == IsComplete <=> Known = Blocks

\* Between two calls of add_frame the waiting frames are exactly what is left
\* of the accepted equations: no equation in `seen` was forgotten, so that a
\* retransmission the decoder refuses as a duplicate is not needed.
NoEquationLost ==
  Idle => {frames[f].idx : f \in Active} = {Eq[e] \ Known : e \in seen} \ {{}}

\* Between two calls the solved blocks are the least closure of the accepted
\* equations, which does not depend on the order in which they arrived.
OrderIndependent == Idle => Known = Abs!Closure(seen)

\* The README's theorem about the first phase: once all its frames are accepted
\* the payload is there, exact up to errors that got past a tag, whatever came
\* between or before them.  That takes an encoder and a decoder that agree, each
\* by code of its own, where the first phase ends and what its frames cover.
FirstPhaseSuffices ==
  Idle /\ FirstPhase # {} /\ FirstPhase \subseteq seen => IsComplete /\ SolvedCorrect

\* The two quantities add_frame compares with the budgets never exceed them.
BudgetsHold ==
  /\ Len(arena) <= MaxArenaSlots
  /\ pending_edges <= MaxPendingEdges

\* The entries of the adjacency lists: block and position.
Entries == UNION {{b} \X (DOMAIN by_block[b]) : b \in Blocks}

\* The budgets of try_new_mode bound the memory: the arena, and the adjacency
\* entries stored in by_block with those resolve is visiting.
MemoryBounded ==
  /\ BudgetsHold
  /\ Cardinality(Entries) + Len(waiting) <= pending_edges

\* What the loop of resolve may still come to: entries of its stack, and frames to
\* visit, each of which may put another entry on the stack.
Work == Len(queue) + 2 * (Cardinality(Entries) + Len(waiting))

\* Every iteration of resolve leaves less to do, whatever frames free, and no call
\* finds more than the pending edges allow: add_frame, which a display can make
\* run at any time, iterates at most twice for each of them and once more.
ResolveDescends ==
  /\ [](Work <= 2 * pending_edges + 1)
  /\ [][Resolve => Work' < Work]_vars

\* Between two calls the decoder is that of DecoderCalls: each call of add_frame
\* accepts or refuses the frame and charges the budgets as it does, for what the
\* frames accepted so far determine; resolve changes none of this; and is_complete
\* says whether they determine everything.
CallsAgree ==
  /\ [](Idle => (IsComplete <=> Calls!Complete(Decoder)))
  /\ [][/\ \A seq \in Seqs : AddFrame(seq) => Decoder' = Calls!Added(Decoder, seq)
        /\ Resolve => UNCHANGED Decoder]_vars

\* A solved block stays solved, in its slot, and no later XOR of resolve or
\* append of add_frame touches that slot.
SolvedKept ==
  \A b \in Known : solved'[b] = solved[b] /\ arena'[solved[b]] = arena[solved[b]]

SolvedIsStable == [][SolvedKept]_vars

\* Every step implements a step of the abstract peeling decoder, or none.
RefinesPeeling == Abs!Spec

\* The loop of resolve ends.
ResolveEnds == ~ Idle ~> Idle

-----------------------------------------------------------------------------
(* Why it holds: the inductive invariant behind the properties above.      *)

\* The counter of is_complete counts the solved blocks.
Counted == solved_count = Cardinality(Known)

\* The block whose list is being visited is solved.
CurSolved == waiting # <<>> => cur \in Known

\* A waiting frame holds the XOR of two or more blocks, an entry of the stack
\* that of one.
EquationsHeld ==
  /\ \A f \in Active : /\ arena[frames[f].off] \ Noise = frames[f].idx
                       /\ Cardinality(frames[f].idx) > 1
  /\ \A i \in DOMAIN queue : arena[queue[i].off] \ Noise = {queue[i].block}

\* A waiting frame is listed at exactly its blocks: at those that are unsolved,
\* or for the block just solved in the part of its list still to visit.
Adjacent ==
  /\ \A b \in Known : by_block[b] = <<>>
  /\ \A b \in Blocks : IsInjective(by_block[b])
  /\ IsInjective(waiting)
  /\ \A f \in Active : \A b \in frames[f].idx :
       \/ b \notin Known /\ f \in Range(by_block[b])
       \/ b = cur /\ f \in Range(waiting)
  /\ \A f \in Active, b \in Blocks : f \in Range(by_block[b]) => b \in frames[f].idx
  /\ \A f \in Active : f \in Range(waiting) => cur \in frames[f].idx

\* What is open of a set of blocks.
Open(X) == X \ Known

\* Whatever an accepted equation leaves open is held by a waiting frame or an
\* entry of the stack, and those hold nothing else.
Traced ==
  /\ \A e \in seen :
       \/ Open(Equation(e)) = {}
       \/ \E f \in Active : Open(Equation(e)) = Open(frames[f].idx)
       \/ \E i \in DOMAIN queue : Open(Equation(e)) = Open({queue[i].block})
  /\ \A f \in Active : \E e \in seen : Open(Equation(e)) = Open(frames[f].idx)
  /\ \A i \in DOMAIN queue : \E e \in seen : Open(Equation(e)) = Open({queue[i].block})

\* Nothing is solved that the equations do not determine.
Derived == \A X \in SUBSET Blocks : Abs!Closed(X, seen) => Known \subseteq X

\* All of it, the strengthening every theorem about the decoder rests on.
IInv ==
  /\ TypeOK /\ Counted /\ CurSolved
  /\ SlotsNotShared
  /\ SolvedCorrect /\ EquationsHeld
  /\ Adjacent
  /\ Traced
  /\ Derived
=============================================================================
