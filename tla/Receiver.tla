------------------------------ MODULE Receiver ------------------------------
(***************************************************************************)
(* Receiver of src/src/session.rs: it locks to the first stream it can     *)
(* accept, feeds the decoder of that stream, checks the container against  *)
(* the stream tag and hands it over.                                       *)
(*                                                                         *)
(* The decoder is that of DecoderCalls, which LtDecoder is proved to       *)
(* implement: the frames it accepted and what they cost against its two    *)
(* budgets.  `spoiled` records the stored frames whose payload is not what *)
(* the stream's sender encoded.                                            *)
(***************************************************************************)
EXTENDS Streams

CONSTANTS
  None,         \* the None of an Option
  Limits,       \* ReceiverLimits: [max_stream_bytes, max_source_blocks, max_block_len]
  Maximum,      \* ReceiverLimits::MAXIMUM, which LtDecoder insists on as well
  ArenaFactor,  \* slots per block of the decoder's arena: 4
  EdgeFactor    \* MAX_PENDING_EDGES_PER_BLOCK: 64

VARIABLES
  identity,     \* the stream locked to, or None
  decoder,      \* [seen, slots, edges, spoiled], or None
  delivered,
  result        \* what try_push returned last: [status, container]

receiverVars == <<identity, decoder, delivered, result>>

Statuses ==
  {"Ok", "CorruptFrame", "StreamConflict", "ResourceLimit", "InvalidStream", "TooLarge"}

\* A container that was assembled: the bytes its sender split, or others.
Containers == [stream : StreamIds, intact : BOOLEAN]

Decoders == [seen : SUBSET Seqs, slots : Nat, edges : Nat, spoiled : SUBSET Seqs]

ASSUME ReceiverAssumption == ArenaFactor \in Nat /\ EdgeFactor \in Nat

\* None is no value of a type it is an option of.
ASSUME NoneAssumption ==
  None \notin StreamIds /\ None \notin Containers /\ None \notin Decoders

Returns(status) == result' = [status |-> status, container |-> None]

ReceiverInit ==
  /\ identity = None
  /\ decoder = None
  /\ delivered = FALSE
  /\ result = [status |-> "Ok", container |-> None]

-----------------------------------------------------------------------------
(* Admission of a new stream.                                              *)

Within(s, limits) ==
  /\ Stream[s].total_len <= limits.max_stream_bytes
  /\ Stream[s].k <= limits.max_source_blocks
  /\ Stream[s].block_len <= limits.max_block_len

\* What LtDecoder::try_new_mode accepts.
Consistent(s) ==
  /\ Within(s, Maximum)
  /\ Stream[s].k = (Stream[s].total_len + Stream[s].block_len - 1) \div Stream[s].block_len

\* ... and the error for what it does not accept, in the order of its checks.
Refusal(s) ==
  IF /\ Stream[s].k <= Maximum.max_source_blocks
     /\ Stream[s].block_len <= Maximum.max_block_len
     /\ Stream[s].total_len > Maximum.max_stream_bytes
  THEN "TooLarge" ELSE "InvalidStream"

NewDecoder == [seen |-> {}, slots |-> 0, edges |-> 0, spoiled |-> {}]

-----------------------------------------------------------------------------
(* The decoder.                                                            *)

Calls(s) == INSTANCE DecoderCalls
              WITH Blocks <- Code(s)!Blocks,
                   Eq <- Equations[s],
                   Determined <- Decodable[s],
                   MaxSlots <- ArenaFactor * Stream[s].k,
                   MaxEdges <- EdgeFactor * Stream[s].k

IsComplete(s, d) == Calls(s)!Complete(d)

\* A payload that is stored spoils its slot; that of a redundant frame is not.
Added(s, d, n, spoils) ==
  LET stored == ~ Calls(s)!Refuses(d, n) /\ Calls(s)!Open(d, n) # {}
  IN [Calls(s)!Added(d, n) EXCEPT !.spoiled = IF spoils /\ stored THEN @ \cup {n} ELSE @]

\* What assemble may return: a spoiled equation need not be one that was used.
Assembled(s, d) ==
  {c \in Containers : /\ c.stream = s
                      /\ d.spoiled = {} => c.intact
                      /\ c.intact => d.spoiled = {} \/ s \in Senders}

\* checksum32(container) = stream_tag
TagFits(c) == c.intact

-----------------------------------------------------------------------------
(* try_push, for frame n of stream s; `spoils` if its payload is not the   *)
(* sender's although its tag fits.                                         *)

\* parse_frame returned None.
PushCorrupt ==
  /\ Returns("CorruptFrame")
  /\ UNCHANGED <<identity, decoder, delivered>>

Bug_Conflicts(s) == FALSE      \* never compares the identity

Conflicts(s) == identity # None /\ identity # s

Bug_PushConflict(s) ==         \* starts afresh with the newcomer
  /\ Conflicts(s)
  /\ Returns("StreamConflict")
  /\ identity' = None
  /\ decoder' = None
  /\ delivered' = FALSE

PushConflict(s) ==
  /\ Conflicts(s)
  /\ Returns("StreamConflict")
  /\ UNCHANGED <<identity, decoder, delivered>>

Bug_PushOverLimit(s) ==        \* locks before it checks
  /\ identity = None
  /\ ~ Within(s, Limits)
  /\ Returns("ResourceLimit")
  /\ identity' = s
  /\ UNCHANGED <<decoder, delivered>>

PushOverLimit(s) ==
  /\ identity = None
  /\ ~ Within(s, Limits)
  /\ Returns("ResourceLimit")
  /\ UNCHANGED <<identity, decoder, delivered>>

PushInvalid(s) ==
  /\ identity = None
  /\ Within(s, Limits) /\ ~ Consistent(s)
  /\ Returns(Refusal(s))
  /\ UNCHANGED <<identity, decoder, delivered>>

\* The stream is the one locked to, or becomes it.
Admitted(s) ==
  \/ identity = None /\ Within(s, Limits) /\ Consistent(s)
  \/ identity # None /\ ~ Conflicts(s) /\ decoder # None

Locked(s) == IF identity = None THEN s ELSE identity

\* Frames of a stream that was delivered are ignored.
PushDelivered(s) ==
  /\ Admitted(s) /\ delivered
  /\ Returns("Ok")
  /\ UNCHANGED <<identity, decoder, delivered>>

\* The decoder after add_frame.
Fed(s, n, spoils) ==
  Added(Locked(s), IF identity = None THEN NewDecoder ELSE decoder, n,
        spoils \/ s # Locked(s))

PushPending(s, n, spoils) ==
  /\ Admitted(s) /\ ~ delivered
  /\ ~ IsComplete(Locked(s), Fed(s, n, spoils))
  /\ identity' = Locked(s)
  /\ decoder' = Fed(s, n, spoils)
  /\ Returns("Ok")
  /\ UNCHANGED delivered

\* The frame completes the stream.
Completes(s, n, spoils) ==
  /\ Admitted(s) /\ ~ delivered
  /\ IsComplete(Locked(s), Fed(s, n, spoils))

Bug_PushComplete(s, n, spoils) ==    \* forgets to set `delivered`
  /\ Completes(s, n, spoils)
  /\ \E c \in Assembled(Locked(s), Fed(s, n, spoils)) :
       /\ TagFits(c)
       /\ identity' = Locked(s)
       /\ decoder' = Fed(s, n, spoils)
       /\ result' = [status |-> "Ok", container |-> c]
       /\ UNCHANGED delivered

PushComplete(s, n, spoils) ==
  /\ Completes(s, n, spoils)
  /\ \E c \in Assembled(Locked(s), Fed(s, n, spoils)) :
       /\ TagFits(c)
       /\ identity' = Locked(s)
       /\ decoder' = Fed(s, n, spoils)
       /\ delivered' = TRUE
       /\ result' = [status |-> "Ok", container |-> c]

Bug_PushMismatch(s, n, spoils) ==    \* returns the error without the reset
  /\ Completes(s, n, spoils)
  /\ \E c \in Assembled(Locked(s), Fed(s, n, spoils)) :
       /\ ~ TagFits(c)
       /\ identity' = Locked(s)
       /\ decoder' = Fed(s, n, spoils)
       /\ Returns("CorruptFrame")
       /\ UNCHANGED delivered

PushMismatch(s, n, spoils) ==
  /\ Completes(s, n, spoils)
  /\ \E c \in Assembled(Locked(s), Fed(s, n, spoils)) :
       /\ ~ TagFits(c)
       /\ identity' = None
       /\ decoder' = None
       /\ delivered' = FALSE
       /\ Returns("CorruptFrame")

TryPush(s, n, spoils) ==
  \/ PushConflict(s)
  \/ PushOverLimit(s)
  \/ PushInvalid(s)
  \/ PushDelivered(s)
  \/ PushPending(s, n, spoils)
  \/ PushComplete(s, n, spoils)
  \/ PushMismatch(s, n, spoils)

\* reset, called by the application.
Reset ==
  /\ identity' = None
  /\ decoder' = None
  /\ delivered' = FALSE
  /\ UNCHANGED result
=============================================================================
