--------------------------- MODULE TransferProofs ---------------------------
(***************************************************************************)
(* Proofs about Transfer: any number of senders, streams of any size, any  *)
(* limits, any window of the channel and any number of losses, collisions  *)
(* and resets.                                                             *)
(***************************************************************************)
EXTENDS Transfer, FiniteSetTheorems, TLAPS

-----------------------------------------------------------------------------
(* The codes of the streams.                                               *)

\* A frame covers some of the blocks of its stream, and at least one.
LEMMA EquationTyped ==
  ASSUME NEW s \in StreamIds, NEW n \in Seqs
  PROVE  /\ Equations[s][n] \subseteq Code(s)!Blocks
         /\ Equations[s][n] # {}
         /\ IsFiniteSet(Code(s)!Blocks)
<1> DEFINE k == Stream[s].k
<1>1. k \in Nat \ {0} /\ n \in Nat /\ Code(s)!Blocks = 0 .. k - 1
  BY StreamAssumption DEF Code!Blocks, Seqs
<1>2. Stream[s].repair[n] \in (SUBSET (0 .. k - 1)) \ {{}}
  BY StreamAssumption
<1>3. n % k \in 0 .. k - 1
  BY <1>1
<1>4. Equations[s][n] = Code(s)!Equation(n)
  BY DEF Equations
<1>5. IsFiniteSet(Code(s)!Blocks)
  <2>1. 0 \in Int /\ k - 1 \in Int
    BY <1>1
  <2>2. QED
    BY <1>1, <2>1, FS_Interval
<1>6. CASE n < Code(s)!SysSpan
  <2>1. n < k
    BY <1>1, <1>6 DEF Code!SysSpan
  <2>2. n # 0 => {n - 1, n} \subseteq 0 .. k - 1
    BY <1>1, <2>1
  <2>3. (Equations[s][n] = {n - 1, n} /\ n # 0) \/ Equations[s][n] = {n % k}
    BY <1>4, <1>6 DEF Code!Equation
  <2>4. QED
    BY <1>1, <1>3, <1>5, <2>2, <2>3
<1>7. CASE ~ (n < Code(s)!SysSpan)
  <2>1. Equations[s][n] = Stream[s].repair[n]
    BY <1>4, <1>7 DEF Code!Equation, Code!FrameIndices
  <2>2. QED
    BY <1>1, <1>2, <1>5, <2>1
<1>8. QED
  BY <1>6, <1>7

\* No frames determine no blocks, and a stream has one at least.
LEMMA NothingFromNothing ==
  ASSUME NEW s \in StreamIds
  PROVE  Decodable[s][{}] = {} /\ Code(s)!Blocks # {}
<1>1. Decodable[s][{}] = Peel(s)!Closure({})
  BY DEF Decodable
<1>2. Peel(s)!Closed({}, {})
  BY DEF Peel!Closed
<1>3. Peel(s)!Closure({}) = {}
  BY <1>2 DEF Peel!Closure
<1>4. 0 \in Code(s)!Blocks
  BY StreamAssumption DEF Code!Blocks
<1>5. QED
  BY <1>1, <1>3, <1>4

\* DecoderCalls counts with the same operator.
LEMMA SameCardinality ==
  ASSUME NEW s \in StreamIds, NEW S
  PROVE  Calls(s)!Cardinality(S) = Cardinality(S)
BY DEF Calls!Cardinality, Calls!IsFiniteSet, Cardinality, IsFiniteSet

\* What add_frame does to a decoder, in either case.
LEMMA AddedTyped ==
  ASSUME NEW s \in StreamIds, NEW n \in Seqs, NEW spoils \in BOOLEAN, NEW d \in Decoders
  PROVE  /\ Added(s, d, n, spoils) \in Decoders
         /\ Added(s, d, n, spoils).spoiled \in {d.spoiled, d.spoiled \cup {n}}
         /\ Added(s, d, n, spoils).seen \in {d.seen, d.seen \cup {n}}
         /\ d.seen = {} /\ spoils /\ Added(s, d, n, spoils).seen # {}
              => Added(s, d, n, spoils).spoiled # {}
<1> DEFINE e == Calls(s)!Added(d, n)
<1>1. d = [seen |-> d.seen, slots |-> d.slots, edges |-> d.edges, spoiled |-> d.spoiled]
      /\ d.seen \in SUBSET Seqs /\ d.slots \in Nat /\ d.edges \in Nat
      /\ d.spoiled \in SUBSET Seqs
  BY DEF Decoders
<1>2. Calls(s)!Slots(d, n) \in Nat
  BY DEF Calls!Slots
<1>3. Calls(s)!Edges(d, n) \in Nat
  <2>1. IsFiniteSet(Calls(s)!Open(d, n))
    BY EquationTyped, FS_Subset DEF Calls!Open
  <2>2. Cardinality(Calls(s)!Open(d, n)) \in Nat
    BY <2>1, FS_CardinalityType
  <2>3. QED
    BY <2>2, SameCardinality DEF Calls!Edges
<1>4. /\ e \in Decoders /\ e.spoiled = d.spoiled
      /\ e.seen \in {d.seen, d.seen \cup {n}}
  <2>1. CASE Calls(s)!Refuses(d, n)
    BY <2>1 DEF Calls!Added
  <2>2. CASE ~ Calls(s)!Refuses(d, n)
    <3>1. e = [seen |-> d.seen \cup {n}, slots |-> d.slots + Calls(s)!Slots(d, n),
               edges |-> d.edges + Calls(s)!Edges(d, n), spoiled |-> d.spoiled]
      BY <1>1, <2>2 DEF Calls!Added
    <3>2. QED
      BY <1>1, <1>2, <1>3, <3>1 DEF Decoders
  <2>3. QED
    BY <2>1, <2>2
<1>5. /\ Added(s, d, n, spoils) \in Decoders
      /\ Added(s, d, n, spoils).seen = e.seen
      /\ Added(s, d, n, spoils).spoiled =
           IF spoils /\ ~ Calls(s)!Refuses(d, n) /\ Calls(s)!Open(d, n) # {}
             THEN d.spoiled \cup {n} ELSE d.spoiled
  BY <1>4 DEF Added, Decoders
<1>6. ASSUME d.seen = {}, spoils, e.seen # {}
      PROVE  Added(s, d, n, spoils).spoiled # {}
  <2>1. ~ Calls(s)!Refuses(d, n)
    BY <1>6 DEF Calls!Added
  <2>2. Calls(s)!Open(d, n) # {}
    BY <1>6, EquationTyped, NothingFromNothing DEF Calls!Open
  <2>3. QED
    BY <1>5, <1>6, <2>1, <2>2
<1>7. QED
  BY <1>4, <1>5, <1>6

\* A frame as its sender made it spoils nothing.
LEMMA GenuineSpoilsNothing ==
  ASSUME NEW s \in StreamIds, NEW n \in Seqs, NEW spoils \in BOOLEAN, NEW d \in Decoders,
         ~ spoils
  PROVE  Added(s, d, n, spoils).spoiled = d.spoiled
<1>1. Calls(s)!Added(d, n).spoiled = d.spoiled
  BY DEF Calls!Added, Decoders
<1>2. QED
  BY <1>1 DEF Added, Calls!Added, Decoders

-----------------------------------------------------------------------------
(* The receiver.                                                           *)

ReceiverTypeOK ==
  /\ identity \in StreamIds \cup {None}
  /\ decoder = None \/ decoder \in Decoders
  /\ delivered \in BOOLEAN
  /\ result \in [status : Statuses, container : Containers \cup {None}]
  /\ handed \in Seq(Containers)
  /\ collisions \in Nat

ReceiverInv ==
  /\ ReceiverTypeOK
  /\ HandedOnce /\ LockIsAdmissible /\ StreamsDoNotMix /\ ForeignIsSpoiled

LEMMA SpoiledIsFinite == ASSUME NEW d \in Decoders PROVE IsFiniteSet(d.spoiled)
<1>1. 0 \in Int /\ MaxSeq \in Int
  BY StreamAssumption
<1>2. IsFiniteSet(Seqs)
  BY <1>1, FS_Interval DEF Seqs
<1>3. QED
  BY <1>2, FS_Subset DEF Decoders

\* The decoder that try_push feeds, and what it is fed, once the frame is admitted.
LEMMA FeedingIsSound ==
  ASSUME NEW s \in StreamIds, NEW n \in Seqs, NEW spoils \in BOOLEAN,
         ReceiverInv, Admitted(s), ~ delivered, s \in Senders \/ spoils,
         NEW hits \in Nat, spoils => hits = 1
  PROVE  /\ Locked(s) = s
         /\ Within(s, Limits) /\ Within(s, Maximum)
         /\ Fed(s, n, spoils) \in Decoders
         /\ Cardinality(Fed(s, n, spoils).spoiled) <= collisions + hits
         /\ s \notin Senders /\ Fed(s, n, spoils).seen # {} => Fed(s, n, spoils).spoiled # {}
<1> USE DEF ReceiverInv, ReceiverTypeOK
<1> DEFINE d == IF identity = None THEN NewDecoder ELSE decoder
           fed == Added(s, d, n, spoils)
<1>1. Locked(s) = s /\ Within(s, Limits) /\ Within(s, Maximum)
  BY DEF Admitted, Locked, Conflicts, Consistent, LockIsAdmissible
<1>2. d \in Decoders
  BY DEF Admitted, NewDecoder, Decoders
<1>3. Fed(s, n, spoils) = fed
  BY <1>1 DEF Fed
<1>4. Cardinality(d.spoiled) <= collisions /\ IsFiniteSet(d.spoiled)
  <2>1. IsFiniteSet(d.spoiled)
    BY <1>2, SpoiledIsFinite
  <2>2. CASE identity = None
    BY <2>1, <2>2, FS_EmptySet DEF NewDecoder
  <2>3. CASE identity # None
    BY <2>1, <2>3 DEF Admitted, StreamsDoNotMix
  <2>4. QED
    BY <2>2, <2>3
<1>5. Cardinality(fed.spoiled) <= collisions + hits
  <2> HIDE DEF d
  <2>1. fed.spoiled \in {d.spoiled, d.spoiled \cup {n}}
    BY <1>2, AddedTyped
  <2>2. Cardinality(d.spoiled) \in Nat
    BY <1>4, FS_CardinalityType
  <2>3. Cardinality(d.spoiled \cup {n}) \in {Cardinality(d.spoiled), Cardinality(d.spoiled) + 1}
    BY <1>4, <2>2, FS_AddElement
  <2>4. CASE ~ spoils
    <3>1. fed.spoiled = d.spoiled
      BY <1>2, <2>4, GenuineSpoilsNothing, Zenon
    <3>2. QED
      BY <1>4, <2>2, <3>1
  <2>5. CASE spoils
    <3>1. hits = 1
      BY <2>5
    <3>2. Cardinality(fed.spoiled) \in {Cardinality(d.spoiled), Cardinality(d.spoiled) + 1}
      BY <2>1, <2>3
    <3>3. collisions \in Nat /\ Cardinality(d.spoiled) <= collisions
      BY <1>4
    <3> HIDE DEF fed
    <3>4. QED
      BY <2>2, <3>1, <3>2, <3>3
  <2>6. QED
    BY <2>4, <2>5, Zenon
<1>6. s \notin Senders /\ fed.seen # {} => fed.spoiled # {}
  <2>1. ASSUME s \notin Senders, d.seen # {}
        PROVE  d.spoiled # {}
    BY <2>1, <1>1 DEF ForeignIsSpoiled, Admitted, Locked, NewDecoder
  <2>2. d.spoiled \subseteq fed.spoiled
    BY <1>2, AddedTyped
  <2>3. QED
    BY <1>2, <2>1, <2>2, AddedTyped
<1>7. QED
  BY <1>1, <1>2, <1>3, <1>5, <1>6, AddedTyped

\* A decoder without a frame is not complete.
LEMMA CompleteSaw ==
  ASSUME NEW s \in StreamIds, NEW d \in Decoders, IsComplete(s, d)
  PROVE  d.seen # {} /\ Decodable[s][d.seen] = Code(s)!Blocks
BY NothingFromNothing DEF IsComplete, Calls!Complete

\* A call of try_push, whatever way it takes, and what the application does with
\* its result.
LEMMA PushKeeps ==
  ASSUME NEW s \in StreamIds, NEW n \in Seqs, NEW spoils \in BOOLEAN,
         ReceiverInv, TryPush(s, n, spoils), HandOver, s \in Senders \/ spoils,
         NEW hits \in Nat, spoils => hits = 1, collisions' = collisions + hits
  PROVE  ReceiverInv'
<1> USE DEF ReceiverInv, ReceiverTypeOK
<1> DEFINE fed == Fed(s, n, spoils)
<1>1. ASSUME NEW status \in Statuses, Returns(status), UNCHANGED <<identity, decoder, delivered>>
      PROVE  ReceiverInv'
  <2>1. handed' = handed /\ result' \in [status : Statuses, container : Containers \cup {None}]
    BY <1>1 DEF HandOver, Returns
  <2>2. StreamsDoNotMix'
    <3>1. ASSUME decoder # None PROVE Cardinality(decoder.spoiled) \in Int
      <4>1. IsFiniteSet(decoder.spoiled)
        BY <3>1, SpoiledIsFinite
      <4>2. QED
        BY <4>1, FS_CardinalityType
    <3>2. QED
      BY <1>1, <3>1 DEF StreamsDoNotMix
  <2>3. QED
    BY <1>1, <2>1, <2>2 DEF HandedOnce, Whole, LockIsAdmissible, ForeignIsSpoiled
<1>2. CASE PushConflict(s) \/ PushOverLimit(s) \/ PushInvalid(s) \/ PushDelivered(s)
  BY <1>1, <1>2 DEF PushConflict, PushOverLimit, PushInvalid, Refusal, PushDelivered, Statuses
<1>3. CASE PushPending(s, n, spoils)
  <2>1. /\ Admitted(s) /\ ~ delivered
        /\ ~ IsComplete(Locked(s), fed)
        /\ identity' = Locked(s) /\ decoder' = fed /\ delivered' = delivered
        /\ result' = [status |-> "Ok", container |-> None]
    BY <1>3 DEF PushPending, Returns
  <2>2. /\ identity' = s /\ decoder' \in Decoders /\ decoder' # None /\ s # None
        /\ result' \in [status : Statuses, container : Containers \cup {None}]
    BY <2>1, FeedingIsSound, NoneAssumption DEF Statuses
  <2>3. handed' = handed /\ handed = <<>>
    BY <2>1 DEF HandOver, HandedOnce
  <2>4. ~ Whole'
    BY <2>1, <2>2, FeedingIsSound DEF Whole, IsComplete, Calls!Complete
  <2>5. HandedOnce'
    BY <2>1, <2>3, <2>4 DEF HandedOnce
  <2>6. LockIsAdmissible' /\ StreamsDoNotMix' /\ ForeignIsSpoiled'
    BY <2>1, <2>2, FeedingIsSound DEF LockIsAdmissible, StreamsDoNotMix, ForeignIsSpoiled, Within
  <2>7. ReceiverTypeOK'
    BY <2>1, <2>2, <2>3, FeedingIsSound
  <2>8. QED
    BY <2>5, <2>6, <2>7
<1>4. CASE PushComplete(s, n, spoils)
  <2>1. PICK c \in Assembled(Locked(s), fed) :
          /\ Completes(s, n, spoils) /\ TagFits(c)
          /\ identity' = Locked(s) /\ decoder' = fed /\ delivered' = TRUE
          /\ result' = [status |-> "Ok", container |-> c]
    BY <1>4 DEF PushComplete
  <2>2. /\ Admitted(s) /\ ~ delivered /\ IsComplete(Locked(s), fed)
        /\ c \in Assembled(Locked(s), fed) /\ c \in Containers
    BY <2>1 DEF Completes, Assembled
  <2>3. /\ identity' = s /\ decoder' \in Decoders /\ decoder' # None /\ s # None
        /\ result' \in [status : Statuses, container : Containers \cup {None}]
    BY <2>1, <2>2, FeedingIsSound, NoneAssumption DEF Statuses
  <2>4. handed' = <<c>> /\ handed' \in Seq(Containers)
    BY <2>1, <2>2, NoneAssumption DEF HandOver, HandedOnce
  <2>5. Whole'
    BY <2>1, <2>2, <2>3, FeedingIsSound, CompleteSaw DEF Whole
  <2>6. c = [stream |-> s, intact |-> TRUE]
    BY <2>1, <2>2, FeedingIsSound DEF Assembled, Containers, TagFits
  <2>7. s \in Senders
    BY <2>1, <2>2, FeedingIsSound, CompleteSaw DEF Assembled, TagFits
  <2>8. HandedOnce'
    <3>1. Len(handed') = 1 /\ \A i \in DOMAIN handed' : handed'[i] = c
      BY <2>4
    <3>2. QED
      BY <2>1, <2>3, <2>5, <2>6, <2>7, <3>1 DEF HandedOnce
  <2>9. LockIsAdmissible' /\ StreamsDoNotMix' /\ ForeignIsSpoiled'
    BY <2>1, <2>2, <2>3, FeedingIsSound DEF LockIsAdmissible, StreamsDoNotMix, ForeignIsSpoiled, Within
  <2>10. ReceiverTypeOK'
    BY <2>1, <2>3, <2>4, FeedingIsSound
  <2>11. QED
    BY <2>8, <2>9, <2>10
<1>5. CASE PushMismatch(s, n, spoils)
  <2>1. /\ ~ delivered
        /\ identity' = None /\ decoder' = None /\ delivered' = FALSE
        /\ result' = [status |-> "CorruptFrame", container |-> None]
    BY <1>5 DEF PushMismatch, Completes, Returns
  <2>2. handed' = <<>>
    BY <2>1 DEF HandOver, HandedOnce
  <2>3. ReceiverTypeOK'
    <3>1. handed' \in Seq(Containers) /\ collisions' \in Nat
      BY <2>2
    <3>2. result' \in [status : Statuses, container : Containers \cup {None}]
      BY <2>1 DEF Statuses
    <3>3. QED
      BY <2>1, <3>1, <3>2
  <2>4. QED
    BY <2>1, <2>2, <2>3 DEF HandedOnce, Whole, LockIsAdmissible, StreamsDoNotMix,
                            ForeignIsSpoiled
<1>6. QED
  BY <1>2, <1>3, <1>4, <1>5 DEF TryPush

-----------------------------------------------------------------------------
(* The senders.                                                            *)

Emitted(s) == {f.seq : f \in {g \in sent : g.stream = s}}

\* A frame more is a number more of its sender and none of the others.
LEMMA EmittedAfter ==
  ASSUME NEW s \in Senders, NEW t \in Senders, SenderTypeOK, TryNextFrame(s)
  PROVE  Emitted(t)' = IF t = s THEN Emitted(t) \cup {seq[s]} ELSE Emitted(t)
<1> DEFINE new == [stream |-> s, seq |-> seq[s]]
<1>1. sent' = sent \cup {new}
  BY DEF TryNextFrame
<1>2. CASE t = s
  <2>1. {g \in sent' : g.stream = s} = {g \in sent : g.stream = s} \cup {new}
    BY <1>1
  <2>2. {g.seq : g \in {h \in sent : h.stream = s} \cup {new}} =
          {g.seq : g \in {h \in sent : h.stream = s}} \cup {seq[s]}
    <3>1. new.seq = seq[s]
      OBVIOUS
    <3> HIDE DEF new
    <3>2. QED
      BY <3>1
  <2>3. QED
    BY <1>2, <2>1, <2>2 DEF Emitted
<1>3. CASE t # s
  <2>1. {g \in sent' : g.stream = t} = {g \in sent : g.stream = t}
    BY <1>1, <1>3
  <2>2. QED
    BY <1>3, <2>1 DEF Emitted
<1>4. QED
  BY <1>2, <1>3

\* try_next_frame emits the number it is at, goes on to the next, and stops after
\* the last.
LEMMA NextFrameKeeps ==
  ASSUME NEW s \in Senders, SenderTypeOK, NoSequenceReuse, TryNextFrame(s)
  PROVE  SenderTypeOK' /\ NoSequenceReuse'
<1>1. MaxSeq \in Nat /\ seq[s] \in 0 .. MaxSeq /\ ~ exhausted[s] /\ s \in StreamIds
  BY StreamAssumption DEF SenderTypeOK, TryNextFrame, Seqs
<1>2. SenderTypeOK'
  <2>1. sent' \in SUBSET [stream : Senders, seq : Seqs]
    BY <1>1 DEF SenderTypeOK, TryNextFrame, Seqs
  <2>2. exhausted' \in [Senders -> BOOLEAN] /\ seq' \in [Senders -> Seqs]
    <3>1. CASE seq[s] = MaxSeq
      BY <1>1, <3>1 DEF SenderTypeOK, TryNextFrame, Advance
    <3>2. CASE seq[s] # MaxSeq
      <4>1. seq[s] + 1 \in Seqs
        BY <1>1, <3>2 DEF Seqs
      <4>2. QED
        BY <1>1, <3>2, <4>1 DEF SenderTypeOK, TryNextFrame, Advance
    <3>3. QED
      BY <3>1, <3>2
  <2>3. QED
    BY <2>1, <2>2 DEF SenderTypeOK
<1>3. ASSUME NEW t \in Senders
      PROVE  Emitted(t)' = Used(t)'
  <2>1. Emitted(t) = Used(t)
    BY DEF NoSequenceReuse, Emitted
  <2>2. CASE t # s
    <3>1. seq'[t] = seq[t] /\ exhausted'[t] = exhausted[t]
      BY <2>2 DEF TryNextFrame, Advance, SenderTypeOK
    <3>2. QED
      BY <2>1, <2>2, <3>1, EmittedAfter DEF Used
  <2>3. CASE t = s
    <3>1. Used(s) = 0 .. seq[s] - 1
      BY <1>1 DEF Used
    <3>2. Used(s)' = 0 .. seq[s]
      BY <1>1 DEF Used, TryNextFrame, Advance, SenderTypeOK, Seqs
    <3>3. 0 .. seq[s] = (0 .. seq[s] - 1) \cup {seq[s]}
      BY <1>1
    <3>4. QED
      BY <2>1, <2>3, <3>1, <3>2, <3>3, EmittedAfter
  <2>4. QED
    BY <2>2, <2>3
<1>4. QED
  BY <1>2, <1>3 DEF NoSequenceReuse, Emitted

-----------------------------------------------------------------------------
(* The whole transfer.                                                     *)

\* The invariant, with what it says of the receiver in one piece.
Parts == TypeOK /\ ReceiverInv /\ NoSequenceReuse

LEMMA PartsOfIInv == IInv <=> Parts
<1>1. TypeOK => ReceiverTypeOK
  BY TransferAssumption DEF TypeOK, ReceiverTypeOK
<1>2. QED
  BY <1>1 DEF IInv, Parts, ReceiverInv

LEMMA InitIInv == Init => IInv
<1> SUFFICES ASSUME Init PROVE IInv
  OBVIOUS
<1> USE DEF Init, SenderInit, ReceiverInit
<1>1. SenderTypeOK
  BY StreamAssumption DEF SenderTypeOK, Seqs
<1>2. /\ result \in [status : Statuses, container : Containers \cup {None}]
      /\ handed \in Seq(Containers) /\ Len(handed) = 0 /\ DOMAIN handed = {}
      /\ losses \in 0 .. MaxLosses /\ collisions \in 0 .. MaxCollisions
      /\ resets \in 0 .. MaxResets /\ collisions \in Nat /\ captured \in SUBSET sent
  BY TransferAssumption DEF Statuses
<1>3. TypeOK
  BY <1>1, <1>2 DEF TypeOK
<1>4. HandedOnce
  BY <1>2 DEF HandedOnce, Whole
<1>5. ReceiverInv
  BY <1>2, <1>4 DEF ReceiverInv, ReceiverTypeOK, LockIsAdmissible, StreamsDoNotMix,
                    ForeignIsSpoiled
<1>6. NoSequenceReuse
  BY DEF NoSequenceReuse, Used
<1>7. QED
  BY <1>3, <1>5, <1>6, PartsOfIInv DEF Parts

LEMMA NextIInv == IInv /\ [Next]_vars => IInv'
<1> SUFFICES ASSUME Parts, [Next]_vars PROVE Parts'
  BY PartsOfIInv DEF IInv, Parts, ReceiverInv
<1> USE DEF Parts
<1>0. losses \in Nat /\ collisions \in Nat /\ resets \in Nat /\ SenderTypeOK
      /\ MaxLosses \in Nat /\ MaxCollisions \in Nat /\ MaxResets \in Nat
  BY TransferAssumption DEF TypeOK
<1>1. ASSUME NEW s \in Senders, Emit(s) PROVE Parts'
  <2>1. SenderTypeOK' /\ NoSequenceReuse'
    BY <1>0, <1>1, NextFrameKeeps DEF Emit
  <2>2. ReceiverInv'
    BY <1>1 DEF Emit, receiverVars, ReceiverInv, ReceiverTypeOK, HandedOnce, Whole,
                LockIsAdmissible, StreamsDoNotMix, ForeignIsSpoiled
  <2>3. Cardinality(Leaving(s)) \in Nat
    <3>1. Leaving(s) \subseteq {[stream |-> s, seq |-> seq[s] - Window]}
      BY <1>0, StreamAssumption, TransferAssumption
         DEF Leaving, SenderTypeOK, Seqs
    <3>2. IsFiniteSet({[stream |-> s, seq |-> seq[s] - Window]})
      BY FS_Singleton
    <3>3. IsFiniteSet(Leaving(s))
      BY <3>1, <3>2, FS_Subset
    <3>4. QED
      BY <3>3, FS_CardinalityType
  <2>4. losses' \in 0 .. MaxLosses
    BY <1>0, <1>1, <2>3 DEF Emit
  <2>5. captured' \in SUBSET sent'
    BY <1>1 DEF Emit, TryNextFrame, TypeOK
  <2>6. QED
    BY <1>1, <2>1, <2>2, <2>4, <2>5 DEF Emit, receiverVars, TypeOK
<1>2. ASSUME NEW s \in StreamIds, NEW n \in Seqs, NEW spoils \in BOOLEAN,
             TryPush(s, n, spoils), HandOver, s \in Senders \/ spoils,
             NEW hits \in Nat, spoils => hits = 1, collisions' = collisions + hits,
             collisions' \in 0 .. MaxCollisions,
             captured' \in SUBSET sent,
             UNCHANGED <<senderVars, losses, resets>>
      PROVE  Parts'
  <2>1. ReceiverInv'
    BY <1>2, PushKeeps
  <2>2. QED
    BY <1>2, <2>1 DEF TypeOK, ReceiverInv, ReceiverTypeOK, senderVars, SenderTypeOK,
                      NoSequenceReuse, Used
<1>3. ASSUME NEW f \in Frames, Capture(f) PROVE Parts'
  <2>1. f \in sent
    BY <1>3 DEF Capture, OnAir
  <2>2. f.stream \in Senders
    BY <1>0, <2>1 DEF SenderTypeOK
  <2>3. f.stream \in StreamIds /\ f.seq \in Seqs
    BY DEF Frames
  <2>4. TryPush(f.stream, f.seq, FALSE) /\ HandOver
    BY <1>3, Zenon DEF Capture
  <2>5. /\ captured' \in SUBSET sent /\ collisions' = collisions + 0
        /\ collisions' \in 0 .. MaxCollisions
        /\ UNCHANGED <<senderVars, losses, resets>>
    BY <1>0, <1>3, <2>1 DEF Capture, TypeOK
  <2>6. QED
    BY <1>2, <2>2, <2>3, <2>4, <2>5
<1>4. CASE CaptureDamaged
  <2>1. /\ UNCHANGED <<senderVars, channel, identity, decoder, delivered>>
        /\ result' \in [status : Statuses, container : Containers \cup {None}]
    BY <1>4 DEF CaptureDamaged, PushCorrupt, Returns, Statuses
  <2>2. QED
    BY <2>1 DEF senderVars, channel, TypeOK, ReceiverInv, ReceiverTypeOK, HandedOnce, Whole,
                LockIsAdmissible, StreamsDoNotMix, ForeignIsSpoiled, SenderTypeOK,
                NoSequenceReuse, Used
<1>5. ASSUME NEW s \in Damaged, NEW n \in Seqs, CaptureCollision(s, n) PROVE Parts'
  <2>1. TryPush(s, n, TRUE) /\ HandOver
    BY <1>5, Zenon DEF CaptureCollision
  <2>2. /\ captured' \in SUBSET sent /\ collisions' = collisions + 1
        /\ collisions' \in 0 .. MaxCollisions
        /\ UNCHANGED <<senderVars, losses, resets>>
    BY <1>0, <1>5 DEF CaptureCollision, TypeOK
  <2>3. s \in StreamIds
    BY TransferAssumption
  <2>4. QED
    BY <1>2, <2>1, <2>2, <2>3
<1>6. CASE ResetReceiver
  <2>1. /\ UNCHANGED <<senderVars, result, captured, losses, collisions>>
        /\ identity' = None /\ decoder' = None /\ delivered' = FALSE
        /\ resets' \in 0 .. MaxResets
        /\ handed' = <<>>
    BY <1>0, <1>6 DEF ResetReceiver, Reset
  <2>2. /\ handed' \in Seq(Containers) /\ Len(handed') = 0 /\ DOMAIN handed' = {}
    BY <2>1
  <2>3. HandedOnce'
    BY <2>1, <2>2 DEF HandedOnce, Whole
  <2>4. ReceiverInv'
    BY <2>1, <2>2, <2>3 DEF ReceiverInv, ReceiverTypeOK, LockIsAdmissible, StreamsDoNotMix,
                            ForeignIsSpoiled
  <2>5. SenderTypeOK' /\ NoSequenceReuse'
    BY <1>0, <2>1 DEF senderVars, SenderTypeOK, NoSequenceReuse, Used
  <2>6. QED
    BY <2>1, <2>2, <2>4, <2>5 DEF TypeOK, senderVars
<1>7. CASE UNCHANGED vars
  BY <1>7 DEF vars, senderVars, receiverVars, channel, TypeOK, ReceiverInv, ReceiverTypeOK,
              HandedOnce, Whole, LockIsAdmissible, StreamsDoNotMix, ForeignIsSpoiled,
              SenderTypeOK, NoSequenceReuse, Used
<1>8. QED
  BY <1>1, <1>3, <1>4, <1>5, <1>6, <1>7 DEF Next

\* The invariant is inductive.
THEOREM Invariant == SafeSpec => []IInv
BY InitIInv, NextIInv, PTL DEF SafeSpec

\* The receiver has a decoder of a stream or none, and every counter its range.
THEOREM TypeCorrect == SafeSpec => []TypeOK
<1>1. IInv => TypeOK
  BY DEF IInv
<1>2. QED
  BY <1>1, Invariant, PTL

\* session.rs: "reconstructs the container exactly once", when it can, and intact.
THEOREM ContainerIsHandedOnce == SafeSpec => []HandedOnce
<1>1. IInv => HandedOnce
  BY DEF IInv
<1>2. QED
  BY <1>1, Invariant, PTL

\* try_push locks to no stream that its limits or those of the decoder exclude.
THEOREM LocksAreAdmissible == SafeSpec => []LockIsAdmissible
<1>1. IInv => LockIsAdmissible
  BY DEF IInv
<1>2. QED
  BY <1>1, Invariant, PTL

\* try_push compares identities: frames of other senders never reach the decoder.
THEOREM StreamsStayApart == SafeSpec => []StreamsDoNotMix
<1>1. IInv => StreamsDoNotMix
  BY DEF IInv
<1>2. QED
  BY <1>1, Invariant, PTL

\* A lock ends by the application's reset, or by a mismatch of the stream tag that
\* takes a collision.
THEOREM LocksAreKept == SafeSpec => LockIsKept
<1> DEFINE Kept == identity # None /\ identity' # identity =>
                     /\ identity' = None
                     /\ resets' > resets \/ (collisions' > 0 /\ ~ delivered)
<1>1. ASSUME IInv, [Next]_vars PROVE Kept
  <2> SUFFICES ASSUME identity # None, identity' # identity PROVE Kept
    OBVIOUS
  <2>1. Parts /\ collisions \in Nat /\ resets \in Nat
    BY <1>1, PartsOfIInv DEF TypeOK, Parts
  <2>2. ASSUME NEW s \in StreamIds, NEW n \in Seqs, NEW spoils \in BOOLEAN,
               TryPush(s, n, spoils), s \in Senders \/ spoils,
               NEW hits \in Nat, spoils => hits = 1, collisions' = collisions + hits
        PROVE  Kept
    <3>1. CASE PushConflict(s) \/ PushOverLimit(s) \/ PushInvalid(s) \/ PushDelivered(s)
      BY <3>1 DEF PushConflict, PushOverLimit, PushInvalid, Refusal, PushDelivered
    <3>2. CASE PushPending(s, n, spoils) \/ PushComplete(s, n, spoils)
      BY <3>2 DEF PushPending, PushComplete, Locked
    <3>3. CASE PushMismatch(s, n, spoils)
      <4> DEFINE fed == Fed(s, n, spoils)
      <4>1. PICK c \in Assembled(Locked(s), fed) :
              /\ Admitted(s) /\ ~ delivered /\ ~ c.intact /\ identity' = None
        BY <3>3 DEF PushMismatch, Completes, TagFits
      <4>2. fed.spoiled # {}
        BY <4>1 DEF Assembled
      <4>3. fed \in Decoders /\ Cardinality(fed.spoiled) <= collisions + hits
        BY <2>1, <2>2, <4>1, FeedingIsSound DEF Parts
      <4>4. IsFiniteSet(fed.spoiled)
        BY <4>3, SpoiledIsFinite
      <4>5. Cardinality(fed.spoiled) \in Nat /\ Cardinality(fed.spoiled) # 0
        BY <4>2, <4>4, FS_CardinalityType, FS_EmptySet
      <4>6. collisions' > 0
        BY <2>1, <2>2, <4>3, <4>5
      <4>7. QED
        BY <4>1, <4>6
    <3>4. QED
      BY <2>2, <3>1, <3>2, <3>3 DEF TryPush
  <2>3. ASSUME NEW s \in Senders, Emit(s) PROVE Kept
    BY <2>3 DEF Emit, receiverVars
  <2>4. ASSUME NEW f \in Frames, Capture(f) PROVE Kept
    <3>1. f.stream \in Senders
      BY <2>1, <2>4 DEF Capture, OnAir, Parts, TypeOK, SenderTypeOK
    <3>2. f.stream \in StreamIds /\ f.seq \in Seqs
      BY DEF Frames
    <3>3. TryPush(f.stream, f.seq, FALSE)
      BY <2>4, Zenon DEF Capture
    <3>4. collisions' = collisions + 0
      BY <2>1, <2>4 DEF Capture
    <3>5. QED
      BY <2>2, <3>1, <3>2, <3>3, <3>4
  <2>5. CASE CaptureDamaged
    BY <2>5 DEF CaptureDamaged, PushCorrupt
  <2>6. ASSUME NEW s \in Damaged, NEW n \in Seqs, CaptureCollision(s, n) PROVE Kept
    <3>1. TryPush(s, n, TRUE) /\ collisions' = collisions + 1
      BY <2>6, Zenon DEF CaptureCollision
    <3>2. s \in StreamIds
      BY TransferAssumption
    <3>3. QED
      BY <2>2, <3>1, <3>2
  <2>7. CASE ResetReceiver
    BY <2>1, <2>7 DEF ResetReceiver, Reset
  <2>8. CASE UNCHANGED vars
    BY <2>8 DEF vars, receiverVars
  <2>9. QED
    BY <1>1, <2>3, <2>4, <2>5, <2>6, <2>7, <2>8 DEF Next
<1>2. QED
  BY <1>1, Invariant, PTL DEF SafeSpec, LockIsKept

\* try_next_frame uses every sequence number once and in order.
THEOREM SequenceIsFresh == SafeSpec => []NoSequenceReuse
<1>1. IInv => NoSequenceReuse
  BY DEF IInv
<1>2. QED
  BY <1>1, Invariant, PTL
=============================================================================
