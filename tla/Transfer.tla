------------------------------ MODULE Transfer ------------------------------
(***************************************************************************)
(* Displays and a camera.  Each sender shows its frames in turn; of each   *)
(* stream the last Window frames may still reach the receiver, in any      *)
(* order and any number of times; a frame may be lost, or arrive damaged.  *)
(* The frame tag detects damage except for a bounded number of collisions, *)
(* when the receiver sees whatever header and payload the damage made.     *)
(*                                                                         *)
(* Senders run on devices of their own, so their steps interleave with the *)
(* receiver's; try_push and try_next_frame take &mut self and are atomic.  *)
(***************************************************************************)
EXTENDS Sender, Receiver, Sequences

CONSTANTS
  Window,         \* frames of a stream that may still be on their way
  MaxLosses,      \* bound on the frames that are never captured
  MaxCollisions,  \* bound on damaged frames whose tag fits
  Damaged,        \* the stream ids such a frame may claim
  MaxResets       \* bound on the resets by the application

ASSUME TransferAssumption ==
  /\ Window \in Nat \ {0}
  /\ MaxLosses \in Nat /\ MaxCollisions \in Nat /\ MaxResets \in Nat
  /\ Damaged \subseteq StreamIds

VARIABLES
  captured,       \* the frames that were captured intact
  losses, collisions, resets,
  handed          \* the containers handed over since the last reset

channel == <<captured, losses, collisions, resets, handed>>
vars == <<senderVars, receiverVars, channel>>

Init ==
  /\ SenderInit
  /\ ReceiverInit
  /\ captured = {}
  /\ losses = 0 /\ collisions = 0 /\ resets = 0
  /\ handed = <<>>

\* The number of frames sender s has shown.
Shown(s) == IF exhausted[s] THEN MaxSeq + 1 ELSE seq[s]

OnAir(f) == f \in sent /\ f.seq + Window >= Shown(f.stream)

\* The frame that leaves the air when s shows the next one.
Leaving(s) == {f \in sent \ captured : f.stream = s /\ f.seq + Window = seq[s]}

Emit(s) ==
  /\ TryNextFrame(s)
  /\ losses + Cardinality(Leaving(s)) <= MaxLosses
  /\ losses' = losses + Cardinality(Leaving(s))
  /\ UNCHANGED <<receiverVars, captured, collisions, resets, handed>>

\* The container that try_push returned, if it did.
HandOver == handed' = IF result'.container = None THEN handed
                                                  ELSE Append(handed, result'.container)

Capture(f) ==
  /\ OnAir(f)
  /\ TryPush(f.stream, f.seq, FALSE)
  /\ captured' = captured \cup {f}
  /\ HandOver
  /\ UNCHANGED <<senderVars, losses, collisions, resets>>

CaptureDamaged ==
  /\ sent # {}
  /\ PushCorrupt
  /\ UNCHANGED <<senderVars, channel>>

CaptureCollision(s, n) ==
  /\ collisions < MaxCollisions
  /\ TryPush(s, n, TRUE)
  /\ collisions' = collisions + 1
  /\ HandOver
  /\ UNCHANGED <<senderVars, captured, losses, resets>>

ResetReceiver ==
  /\ resets < MaxResets
  /\ Reset
  /\ resets' = resets + 1
  /\ handed' = <<>>
  /\ UNCHANGED <<senderVars, captured, losses, collisions>>

Next ==
  \/ \E s \in Senders : Emit(s)
  \/ \E f \in Frames : Capture(f)
  \/ CaptureDamaged
  \/ \E s \in Damaged, n \in Seqs : CaptureCollision(s, n)
  \/ ResetReceiver

SafeSpec == Init /\ [][Next]_vars

\* A sender goes on showing new frames ("Under loss, continue requesting new
\* sequence numbers", README.md), and a frame that stays on the air is captured;
\* one may be lost by leaving it.
Spec ==
  /\ SafeSpec
  /\ \A s \in Senders : WF_vars(Emit(s))
  /\ \A f \in Frames : WF_vars(Capture(f) /\ f \notin captured)

-----------------------------------------------------------------------------
\* The receiver has a decoder of a known stream or none, and the bounded
\* counters of the channel stay within their bounds.
TypeOK ==
  /\ SenderTypeOK
  /\ identity \in StreamIds \cup {None}
  /\ decoder = None \/ decoder \in Decoders
  /\ delivered \in BOOLEAN
  /\ result \in [status : Statuses, container : Containers \cup {None}]
  /\ captured \in SUBSET sent
  /\ losses \in 0 .. MaxLosses
  /\ collisions \in 0 .. MaxCollisions
  /\ resets \in 0 .. MaxResets
  /\ handed \in Seq(Containers)

\* The frames accepted since the lock determine the whole payload.
Whole == decoder # None /\ Decodable[identity][decoder.seen] = Code(identity)!Blocks

\* session.rs: the receiver "reconstructs the container exactly once": it hands one
\* over as soon as what it accepted determines it, and no other before the next
\* reset.  That is the container of the stream it is locked to and of a sender in
\* view, byte for byte, even if collisions poisoned some of the equations or
\* claimed a stream that nobody sends.
HandedOnce ==
  /\ delivered <=> Whole
  /\ Len(handed) = IF delivered THEN 1 ELSE 0
  /\ \A i \in DOMAIN handed :
       handed[i] = [stream |-> identity, intact |-> TRUE] /\ identity \in Senders

\* The receiver holds a decoder exactly while it is locked, and locks only to a
\* stream its limits admit: rejecting a stream leaves nothing behind.
LockIsAdmissible ==
  IF identity = None
    THEN decoder = None /\ ~ delivered
    ELSE decoder # None /\ Within(identity, Limits) /\ Within(identity, Maximum)

\* "isolates the stream identity": the frames of other senders, however they
\* interleave, never reach the decoder.  Only a collision spoils an equation, and
\* each collision at most one.
StreamsDoNotMix ==
  decoder # None => Cardinality(decoder.spoiled) <= collisions

\* A lock ends only by the application's reset or, before the container is handed
\* over, by a mismatch of the stream tag.  A stream none of whose frames collided
\* never mismatches: what its decoder assembles is what its sender split.
LockIsKept ==
  [][identity # None /\ identity' # identity =>
       /\ identity' = None
       /\ resets' > resets \/ (collisions' > 0 /\ ~ delivered)]_vars

\* Despite losses within the redundancy of the repair tail, duplicates,
\* reordering and damage, detected or not, the container is handed over; a
\* mismatch of the stream tag starts the reconstruction afresh.
Delivery == <> delivered

-----------------------------------------------------------------------------
(* Why it holds: the inductive invariant behind the properties above.      *)

\* If nobody sends the stream locked to, whatever was stored of it is spoiled.
ForeignIsSpoiled ==
  decoder # None /\ identity \notin Senders /\ decoder.seen # {} => decoder.spoiled # {}

\* All of it: the strengthening the theorems about a transfer rest on.
IInv ==
  /\ TypeOK
  /\ HandedOnce /\ LockIsAdmissible /\ StreamsDoNotMix
  /\ ForeignIsSpoiled
  /\ NoSequenceReuse
=============================================================================
