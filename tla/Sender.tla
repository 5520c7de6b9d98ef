------------------------------- MODULE Sender -------------------------------
(***************************************************************************)
(* Sender of src/src/session.rs, one for each stream: try_next_frame emits *)
(* the frames of the stream by increasing sequence number, and refuses     *)
(* once the last number is used.                                           *)
(***************************************************************************)
EXTENDS Streams

VARIABLES
  seq,        \* per sender: the next sequence number
  exhausted,  \* per sender: the last number was emitted
  sent        \* every frame emitted, the light that left the displays

senderVars == <<seq, exhausted, sent>>

SenderInit ==
  /\ seq = [s \in Senders |-> 0]
  /\ exhausted = [s \in Senders |-> FALSE]
  /\ sent = {}

\* seq and exhausted after a frame: the counter never passes MaxSeq.
Bug_Wrap(s) ==          \* wraps like an unchecked u32
  /\ seq' = [seq EXCEPT ![s] = (@ + 1) % (MaxSeq + 1)]
  /\ UNCHANGED exhausted

Advance(s) ==
  \/ /\ seq[s] = MaxSeq
     /\ exhausted' = [exhausted EXCEPT ![s] = TRUE]
     /\ UNCHANGED seq
  \/ /\ seq[s] # MaxSeq
     /\ seq' = [seq EXCEPT ![s] = @ + 1]
     /\ UNCHANGED exhausted

\* An exhausted sender returns SequenceExhausted and changes nothing.
TryNextFrame(s) ==
  /\ ~ exhausted[s]
  /\ sent' = sent \cup {[stream |-> s, seq |-> seq[s]]}
  /\ Advance(s)

SenderTypeOK ==
  /\ seq \in [Senders -> Seqs]
  /\ exhausted \in [Senders -> BOOLEAN]
  /\ sent \in SUBSET [stream : Senders, seq : Seqs]

\* The sequence numbers sender s has used.
Used(s) == IF exhausted[s] THEN Seqs ELSE 0 .. (seq[s] - 1)

\* try_next_frame uses every number once, in order, and never starts again: what
\* was emitted is what the counter and the exhausted flag say.
NoSequenceReuse ==
  \A s \in Senders : {f.seq : f \in {g \in sent : g.stream = s}} = Used(s)
=============================================================================
