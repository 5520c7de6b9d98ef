------------------------- MODULE FirstPhaseCapture --------------------------
(***************************************************************************)
(* The decoder, with a record of the frames that were received: handed to  *)
(* add_frame with the right length, and not only those it accepted.  The   *)
(* README states its theorem about the first phase for received frames.    *)
(***************************************************************************)
EXTENDS LtDecoder

VARIABLE received     \* the sequence numbers handed to add_frame so far

CaptureInit == Init /\ received = {}

Capture(seq) == AddFrame(seq) /\ received' = received \cup {seq}

CaptureNext ==
  \/ \E seq \in Seqs : Capture(seq)
  \/ Resolve /\ UNCHANGED received

CaptureSpec == CaptureInit /\ [][CaptureNext]_<<vars, received>>

\* README.md, "Causal first phase": all first-phase frames reconstruct exactly,
\* regardless of arrival order.  It fails when frames of the repair tail, and
\* perhaps some of the first phase, arrive first and fill the arena with equations
\* that do not resolve: add_frame then drops over budget the first-phase frame that
\* would resolve them.
FirstPhaseReconstructs ==
  Idle /\ FirstPhase # {} /\ FirstPhase \subseteq received => IsComplete

\* What the budgets leave for one more frame, whichever it is.
Room ==
  /\ Len(arena) < MaxArenaSlots
  /\ pending_edges + K <= MaxPendingEdges

\* As far as the README's claim does hold: while the budgets have room for any
\* frame, none was dropped, and all first-phase frames reconstruct.
FirstPhaseWithRoom ==
  Idle /\ Room /\ FirstPhase # {} /\ FirstPhase \subseteq received => IsComplete
=============================================================================
