# DeOptiTransfer in TLA+

Models, model-checking runs and machine-checked proofs about the optical
transfer protocol of this repository (`src/src/*.rs`; paths below are relative
to `src/`).  `PROJECT.json` maps every definition to the lines it stands for.

## 1. The system

A file is packed into a *container*, the container is split into `K` blocks, and
a sender shows a stream of frames, each the XOR of some blocks, on a display.  A
receiver films the display and feeds every frame it can read to a fountain
decoder, until the container is whole.  There is no back channel.

| Component | State | Operations | Interacts with |
| --- | --- | --- | --- |
| `LtEncoder` (`src/fountain.rs`) | the blocks | `encode_into(seq)` | asked by `Sender` |
| `LtDecoder` (`src/fountain.rs`) | `solved`, `frames`, `by_block`, `arena`, `seen`, budgets, counters | `add_frame`, `resolve`, `is_complete`, `assemble` | owned by `Receiver`, uses `U32Set` |
| frame selection (`fountain.rs`, `prng.rs`, `soliton.rs`, `dlog.rs`) | none (a seeded generator per call) | `frame_indices_into`, `select_blocks`, `DegreeCdf::sample` | shared by encoder and decoder |
| `U32Set` (`src/set.rs`) | open-addressing table | `insert`, `contains`, `grow` | `LtDecoder::seen` |
| `Sender` (`src/session.rs`) | `seq`, `exhausted` | `try_next_frame` | display |
| `Receiver` (`src/session.rs`) | `identity`, `decoder`, `delivered`, `limits` | `try_push`, `reset` | camera, application |
| frame format (`src/frame.rs`) | none | `pack_frame`, `parse_frame`, tags | both ends |
| capacity (`src/capacity.rs`) | none | sizes of frames and blocks | sender |
| container (`src/container.rs`) | none | `pack_file`, `unpack_file` and variants | before and after a transfer |
| `jrc.rs` | none (a fresh ephemeral secret per call) | `commit`, `verify_ext`, `judge_recover`, `to_bytes`, `from_bytes` | container (`pack_file_jrc`), `jrp.rs` |
| `jrp.rs` | none | `prove`, `verify_ext`, `judge_recover`, framing | `jrc.rs`, the application's proof system |
| `crypto.rs` | keys | AEAD, key derivation | container, `jrc.rs` |
| `simd.rs`, `bytes.rs` | `AVX2_STATE`, a cached CPU check shared by all threads | `xor_into`, word views | encoder, decoder |

What is hard about it:

* **Order.**  Frames arrive in any order, repeated and with gaps.  `resolve` is a
  worklist over shared mutable buffers; the result must not depend on the order.
* **Sharing.**  All equations live in one arena and are XORed into each other in
  place; two owners of a slot would corrupt the payload silently.
* **Budgets.**  A frame over budget is dropped and must leave no trace.
* **Admission and identity.**  The receiver locks to the first acceptable stream
  while frames of others come into view, and must not lock to one it rejects.
* **Undetected damage.**  A 32-bit tag can fit by chance.  The container's own tag
  is the last defence, and the receiver must recover from what it finds.
* **Boundaries.**  `seq = K - 1` and `K` in two separate pieces of code, `u32::MAX`,
  a hash table at its load limit, a short last block in padded slots, limits of
  nested formats that are checked apart, the end of a vector loop.
* **Two ends.**  Sender, encoder and decoder check the same lengths with separate
  code; both ends clean the same name and normalize the same type.
* **Parts of other messages.**  An envelope or transcript may arrive cut, damaged, or
  with parts of another one, and is only as good as what binds its parts.
* **Threads.**  Several of them fill the CPU check's cache with relaxed atomics.

What makes each part correct: the decoder solves exactly what its accepted
frames determine and never writes a solved block again; the sender never repeats
a sequence number; the receiver hands over one container per lock, the right one,
never mixes streams, withholds nothing it can reconstruct and recovers from a
mismatch; the set remembers exactly what was inserted and its probes end; the
representations of a block set agree with a set; a payload comes back from its
blocks; every sender that can be built is admitted; a judge recovers what was
committed for it and nobody else does; what verifies was proved and can be opened;
file names are safe and survive; every word is XORed once, by a kernel the CPU has.

## 2. Modules

| Module | Models |
| --- | --- |
| `LtCode` | the equations of the code over GF(2): which blocks a frame covers, for the encoder and for the decoder, and what the payload is |
| `Peeling` | **abstract**: a peeling decoder without buffers, queues or budgets |
| `LtDecoder` | `LtDecoder`, one action for each early return of `add_frame` and for each iteration of the loop of `resolve` |
| `DecoderCalls` | `LtDecoder` between two calls, as operators on a record: the frames it accepted and what they cost |
| `FirstPhaseCapture` | `LtDecoder` with a record of what was received, for the README's theorem |
| `BlockSelection` | `DegreeCdf` and `select_blocks`: which blocks a repair frame covers |
| `Streams` | the identities of streams, with the code and the equations of each |
| `Sender`, `Receiver` | `session.rs`, one action for each way out of `try_next_frame` and `try_push` |
| `Transfer` | senders, receiver, application and the optical channel composed |
| `U32Set` | `set.rs` |
| `Container` | with `Metadata`: `pack_file`, `pack_file_encrypted`, `unpack_file` and its variants in `container.rs`, with the calls into `crypto.rs`; between them the container may be altered |
| `AbstractBlockSet` | **abstract**: the set of blocks that a waiting frame of `LtDecoder` lacks |
| `BlockSet` | `BlockSet` of `fountain.rs`: the vector and the bitmap, with `remove`, `len` and `single` |
| `Capacity` | `capacity.rs`, and the checks on lengths of sender, encoder, receiver and decoder, as operators |
| `SourceBlocks` | the constructor of a sender, the loop that splits a payload, admission, and the loop of `assemble`, a step per iteration |
| `Metadata` | `safe_file_name` and `normalize_mime_type`, as operators |
| `Jrc` | `jrc.rs` as operators on symbolic bytes |
| `JudgedFile` | `commit`, `pack_file_jrc` and `unpack_file_jrc`, with what may happen to envelopes in between |
| `JudgedProof` | `jrp.rs`, its transcripts under way among the envelopes of `JudgedFile` |
| `Simd` | `simd.rs`: threads in `xor_into`, an action per load, store and iteration |
| `MC*` | values for the constants |
| `*Proofs` | theorems and proofs about the module they are named after; `DecoderSetsProofs` about `U32Set` and `BlockSet` |

**Data.**  A buffer is the *set of symbols* XORed into it and XOR is symmetric
difference.  This loses nothing: a buffer holds the bytes of block `b` for every
file iff its set is `{b}`.  An error that passed the frame tag is one more symbol
(`Noise`).  Arena offsets count slots of one block.  What a frame still lacks is a set in `LtDecoder`;
`BlockSet` is proved to implement that set.  The
selection of blocks for a repair frame is the constant `Repair`: the theorems
hold for every selection, so for the one the generator makes.

`BlockSelection` shows of that selection what both ends rely on: it depends on the
draws of the frame alone.  The generator is external there, so any number may be
drawn; `f64` values are multiples of a unit, of which the sampler only compares exact
multiples.

**Atomicity.**  `add_frame` and `try_push` take `&mut self`, so a call is never
interrupted.  `LtDecoder` nevertheless gives `resolve` a step per iteration,
to state properties of the states in between; every other action waits for
`Idle`.  In `Transfer`, where only whole calls are visible, the decoder is that of
`DecoderCalls`: the frames it accepted, what they determine and what they
cost against the budgets.  `LtDecoder` implements it call by call: `CallsAgree`, which
run `decoder_causal` checks and `CallsAreAbstract` proves.

**The channel** (`Transfer`) is not code of the repository.  The last `Window`
frames of a display may be captured, in any order and repeatedly; a frame that
leaves the air uncaptured is lost.  Damage is detected (`CaptureDamaged`) or, a
bounded number of times, is not (`CaptureCollision`): the header may then be that
of any stream in `Damaged`, and the payload is spoiled.  The container's tag is
taken not to collide as well.

**The container** (`Container`).  Its body is a sequence of cells: characters of the
name and the type, then cells that name the payload they are part of.  So the two
lengths in the header really decide what is read as name, type and payload.  AEAD and
BLAKE3 are ideal: a sealed payload opens with its key, nonce and associated data
only, a digest fits one content.  The digest is not keyed, and it may be changed as well:
to that of another file, or of `OtherBytes`, which stands for all bytes that are of none;
whether such a digest fits bytes nobody packed is open, and the model has both outcomes.  gzip gives the right bytes for what it
compressed; for an altered stream an error, other bytes or the right ones.
`unpack_impl` is a chain of conditions, each of which presupposes the one before, as
the `?` operators do.
`Alter`, which is not code of the repository, stands for whatever happens between
packing and unpacking: it changes a header field, a cell or the length.

**Names and types** (`Metadata`).  A character is a member of the classes the code
tells apart: separators, dropped ones (controls, bidi controls), replaced ones, blanks
that are spaces and blanks that are not, and the letters of a device name.  The properties
about strings alone speak of every string in `NameStrings` and `TypeStrings`, whether an
application gives it or a container made elsewhere holds it; `Container` states them of
the state in which nothing was called yet, and applies the same operators to what
it packs and unpacks.  Two facts that the properties leave out because the repository promises
nothing about them: a name that ends in a blank other than a space and then a dot is
changed again by the second cleaning, and U+0080 to U+009F are not controls to
`is_control`.

**Envelopes and transcripts** (`Jrc`, `JudgedFile`, `JudgedProof`).  A field of fixed
length is one cell and so is each byte of a ciphertext or of a proof.  X25519,
BLAKE3, XChaCha20-Poly1305 are ideal, and `getrandom` never draws the same
secret twice: a hash is what was hashed, a shared secret the pair of the public keys.
Between the ends (not code of the repository) a cell is damaged, lost, added or
taken from another envelope, or everything behind some place is.  The proof system
is the application's: it is taken to be sound, but it may fail, return bytes that do
not verify, or too many of them.  A failing `commit` is a step with an error;
a failing `prove` leaves nothing behind and is no step.

**Splitting** (`SourceBlocks`).  Byte `i` of a payload is the number `i + 1`, padding is 0.
`Receive` stands for the whole transfer: its effect on blocks is the subject of
`LtDecoder`, here it is the change from the integers of the sender to those of the
header and the checks on the other side.

**Threads** (`Simd`).  `AVX2_STATE` is one location and nothing is published through it,
so relaxed accesses behave like an interleaving.  `cpuid` does not change.  The buffers of
a thread are its own (`&mut`), and a vector instruction counts as XORing each of
its words.

## 3. Runs

| Run | Bounds | Shows |
| --- | --- | --- |
| `decoder_rsd` | K = 3, seven frames: each non-empty set of blocks once, each with or without an error; ample budgets | refinement of `Peeling`, order independence, separate slots, solved blocks hold what they should and are stable, `resolve` ends, and the inductive invariant |
| `decoder_causal` | K = 4, the first phase and four repair frames, one slot per block, two edges per block, one duplicate, two drops | an accepted first phase suffices, no equation is lost, drops leave no trace, memory is bounded, each call does what `DecoderCalls` says |
| `first_phase_received` | K = 2, the real budgets, seven repair frames | **violation**, see below |
| `transfer_two` | two senders of three frames (one causal, one systematic), one collision, one reset, no loss of order or repetition excluded | one intact container per lock, as soon as it is determined; no mixing, admissible locks, none that ends by itself, no sequence reuse; the inductive invariant |
| `transfer_losses` | one sender of seven frames, window 2, one loss, one collision | the container is eventually handed over |
| `container` | five contents (empty, small, incompressible, at and over the limit), names of up to four characters where three are allowed, one password, two nonces, two alterations; strings of up to four characters of nine classes and five of five (names), five of seven (types) | packed files open again with key or password; an altered plain one gives an error or the true bytes unless its digest was altered along with something else, a sealed one an error or the true bytes, name and type; what is packed can be sent; names are safe and, like types, survive being cleaned at both ends |
| `selection` | K = 4, all 286 distributions in steps of a tenth, four quantiles; degrees one and two drawn, three and four shuffled, two frames, one rejection each | the quantized sampler agrees with the binary search and with the definition; a frame covers different blocks, whatever was selected before it |
| `set_growth` | six-bit keys, eleven of them, tables that start with no slots or eight, one growth from eight | the set is exact, probes end, runs do not collide |
| `block_set` | six blocks, four to a word, dense up to three; every initial list | vector and bitmap implement the set; the last block left is the right one |
| `source_blocks` | payloads of 0 to 17 bytes, frames of seven sizes, words of two bytes, limits at 14 bytes and four blocks | the payload comes back, a sender that can be built is admitted, the smallest frame is the smallest |
| `judged` | two judges and a key of small order, messages empty, short, of the longest length and one too long, two statements, proofs of three lengths, one nonce, two envelopes or transcripts, two alterations | only the named judge recovers, only what was committed; what verifies was proved and can be opened; the limits of messages, aux, proofs, envelopes and streams agree |
| `simd` | every CPU, two threads with two calls each, buffers of 0, 3 and 13 words | the right kernel, each word once, every call returns |

Why these bounds are enough: with K = 3 a frame can free two others for the same
block, a stack of `resolve` can hold a block twice, a frame can be visited when it
is already inactive, and an equation can become redundant; a smaller K has none
of these.  Every selection of blocks appears in `decoder_rsd`.  In `decoder_causal` the
budgets are scaled down until both of them are hit; the first phase may then still be
accepted whole, in every order, between and after repair frames.  The systematic mode,
whose first phase is K equations of one block, is that of the second sender of
`transfer_two`, and like the others a case of the theorems.  The transfer needs two senders, a
stream over the limits and an inconsistent one, and enough frames to decode again
after a mismatch.  A container needs two alterations for one to make good for
the other: a shifted boundary between name and type, a length that fits again.  A
length is altered by one or to zero; its limits are scaled to a few cells, with the
stream limit at the smallest value `SizeAssumption` allows (the real one has 39 bytes to
spare).  Lengths of payloads reach from nothing to beyond the limit of a stream, on both
sides of every multiple of a block and of a word.  A set of six blocks fills one word
of a bitmap and half of another.  Names of five characters put something to be dropped
between something to be trimmed and a device name.  Two envelopes with two alterations
can exchange two parts; a proof that fills its limit does not fit beside the longest
output.  A buffer of 13 words has a vector of eight and one of four with a tail, one of
three no vector at all; two threads can both find the cache empty, and the second
calls find it filled.  `MaxDup`, `MaxDropped`, `MaxLosses`, `MaxAlterations`, `MaxFrames`, `MaxRejected`,
`MaxCollisions`, `MaxCommits`, `MaxCalls` and `MaxResets` bound counters, `MaxSeq` stands for `u32::MAX`.

The run `judged` takes the two judges as interchangeable, and the two ephemeral
secrets: the module compares them for equality only, no constant tells them apart, and
what is checked are invariants and one action property, so this is sound.

`CHECK_DEADLOCK FALSE` everywhere but in `block_set`, where `remove` is always possible: a decoder that is complete and has used up its
bounded counters, a sender that is exhausted and a table that has every key have
nothing left to do; a container that was unpacked or an envelope that was altered has
no further use; threads that made their calls stop.

**Fairness.**  `Simd`: weak fairness of each thread's steps inside `xor_into`, which no
other thread can disable (a thread that runs is scheduled); nothing obliges it to
call.  `LtDecoder`: weak fairness of `Resolve`, a loop that runs to its
end; nothing obliges anyone to send.  `Transfer`: a sender goes on showing frames
(`README.md`: "Under loss, continue requesting new sequence numbers until
completion") and a frame not yet captured that stays on the air is captured; it
may be lost by leaving the air, at most `MaxLosses` times.  `Delivery` holds for a
repair tail that tolerates these losses (`MCTransfer`).  It is checked with
phantom headers the receiver must reject, not with one it could lock to: the code
has no timeout, and only the application's `reset` ends such a lock.

### The violation

`README.md:145` says of the causal first phase that "all first-phase frames
reconstruct exactly in `K` distinct frames, regardless of arrival order", and
`src/fountain.rs:325` that the decoder "feeds on any distinct frames, in any order,
and peels the payload out once enough have arrived".  `add_frame` charges every
equation to the arena and never gives a slot back (`src/fountain.rs:523`).  If 4K
frames that do not resolve arrive first, every later frame is dropped, those of the
first phase included, and the decoder can never complete.  In TLC's trace K is 2:
frame 1 of the first phase and seven repair frames, all with the equation {0, 1}, are
accepted and fill the eight slots; frame 0, which would resolve them, is then
dropped.  The theorem holds
for *accepted* frames (`FirstPhaseTheorem`, proved for every K); the README's
section on the resource model does mention that frames over budget are dropped.
How far it holds for *received* ones is `FirstPhaseReceived`, proved of the module this
run checks: as long as the budgets have room for any frame, none was dropped, so the
first phase reconstructs in any order and among any repair frames (`FirstPhaseWithRoom`).

## 4. Proofs

TLAPS proves the following for every value of the constants that the named `ASSUME`s
of the modules allow, and from nothing else.  For the decoder that is every `K`,
mode, selection, error set, `MaxSeq` and budget:

| Theorem | Statement |
| --- | --- |
| `EncoderMatchesDecoder` | encoder and decoder agree on the blocks of every frame |
| `TypeCorrect`, `Invariant` | `[]TypeOK`, `[]IInv` |
| `SlotsAreOwned` | `[]SlotsNotShared`: the debug assertion of `xor_at` cannot fail |
| `DecodingIsSound` | `[]SolvedCorrect` |
| `CompletionIsTotal` | `[]CompleteMeansAll` |
| `NothingIsLost`, `OrderDoesNotMatter` | `[]NoEquationLost`, `[]OrderIndependent` |
| `Refinement` | `Spec => Abs!SafeSpec` |
| `FirstPhaseTheorem`, `FirstPhaseReceived` | `[]FirstPhaseSuffices`: complete, and exactly what the encoder was given; `[]FirstPhaseWithRoom` |
| `SolvedStays` | `SolvedIsStable` |
| `BudgetsAreRespected`, `MemoryIsBounded` | `[]BudgetsHold`, `[]MemoryBounded` |
| `ResolveGoesDown` | `Spec => ResolveDescends`: every iteration of `resolve` leaves less to do |
| `CallsAreAbstract` | `Spec => CallsAgree`: between calls, `LtDecoder` is the decoder `Receiver` computes with |

The argument.  None of the properties is inductive alone.  A slot keeps its
content only if nobody else owns it (`SlotsNotShared`), and what it holds is what
its owner claims (`SolvedCorrect`, `EquationsHeld`) only if the visit of a list
finds each waiting frame exactly once for each block (`Adjacent`).  That no
equation is lost in the middle of `resolve` needs the frames being visited and the
entries of the stack as holders (`Traced`), and that nothing is solved without
cause is `Derived`.  With `Counted`, `CurSolved` and the types they form `IInv`,
which run `decoder_rsd` also checks.  Between two calls the stack is empty, so
`Traced` says that the waiting frames are all that is open, each with two or more
blocks: the solved blocks are closed, and by `Derived` least.  So what a decoder solved
follows from the frames it accepted, and with it what the next one costs and whether it is
refused: this is `CallsAreAbstract`.

`MemoryBounded` compares `pending_edges` with what the lists of `by_block` hold.  A sum over
lists would need induction; the set `Entries` of pairs of a block and a position in its list
does not.  `Charged` says that it is finite and, with the list `resolve` has taken out to visit, no
larger than `pending_edges`: a frame that is stored appends one entry for each block it is
charged for, solving a block moves its list, and a visit drops one frame from it.

*Termination.*  That `resolve` and `xor_into` end needs fairness and stays with TLC
(`ResolveEnds`, `Returns`).  What a step proof can say of it is said for every `K` and length: a
number that each iteration makes smaller, and a bound for it.  For `resolve` it is `Work`, the
entries of the stack and twice those of `by_block` and of the list that is visited; a visit may put
an entry on the stack but leaves one less to visit.  With `Charged` it is at most twice
`pending_edges` and one.  For a thread it is `ToGo`, which no other thread's step changes: the
cached check of the CPU makes nobody wait.

| Module | Theorems | For every |
| --- | --- | --- |
| `DecoderSetsProofs` (`U32Set`) | `TableInvariant`, `EveryProbeEnds`, `SequenceNumbersAreRemembered`, `ConsecutiveKeysNeverCollide` | width of a key, odd multiplier, first size, keys and their order |
| `DecoderSetsProofs` (`BlockSet`) | `Invariant`, `LengthIsExact`, `SingleIsExact`, `RemovalIsExact`, `Refinement` (`Spec => Refines`) | number of blocks, word size and dense limit |
| `SourceBlocksProofs` | `MinimumIsExact`, `Admission`, `LoopsStayInBounds`, `PayloadComesBack`, `SmallestFrame` | header, word and block size, limit and payload |
| `SimdProofs` | `KernelsAreSupported`, `WordsAreXoredOnce`, `CacheStays`, `CallsGoDown` | number of threads, calls and words |
| `TransferProofs` | `Invariant`, `TypeCorrect`, `ContainerIsHandedOnce`, `LocksAreAdmissible`, `StreamsStayApart`, `LocksAreKept`, `SequenceIsFresh` | senders, streams and their codes, limits, budgets, `MaxSeq`, window, number of losses, collisions and resets |
| `JudgedProofProofs` (envelopes) | `RecoveryIsGenuine`, `JudgeIsExclusive`, `KeysAreFresh`, `NamedJudgeRecovers`, `FormatsAreConsistent` | messages and lengths, judges, nonces, number of envelopes and of alterations |
| `JudgedProofProofs` (transcripts) | `ProofInvariant`, `VerifiedOnlyIfProved`, `VerifiedIsRecovered`, `TranscriptsSurvive`, `EnvelopesStayGenuine` | statements, relation and proof lengths too, number of transcripts |
| `BlockSelectionProofs` | `Invariant`, `DegreesAreExact`, `BlocksAreDistinct`, `HistoryIsForgotten` | number of blocks, resolution, distribution, number of frames and of rejected draws |
| `ContainerProofs` | `Invariant`, `OnlyGenuineFilesAreAccepted`, `PackedContainersFit`, `WhatIsPackedOpens`, `EveryNameIsSafe`, `MetadataIsKept` | strings of any length over any classes of characters, files, lengths and limits, passwords and nonces, number of alterations |

*Sequence numbers.*  `TableInv`: the table has no slots yet and holds nothing, as `new` makes it
(`Unallocated`), or each key is in one slot, and every slot its probe passes before
that one is occupied (`Holds`), so a probe for it stops there and nowhere earlier; a probe for any
other key stops at a free slot, which the load below 7/10 leaves (`FreeSlot`) and to which
linear probing comes (`ProbeOnto`).  For runs of consecutive keys the size matters: two
keys that differ by less than the number of slots have different homes, because an odd factor
cancels modulo a power of two (`OddFactor`, `HomesDiffer`); this is where the oddness of
`0x9e3779b1` is used, and why the invariant says that keys whose homes all differ are at home.
Growth inserts slot by slot; by induction over the slot the new table holds the keys of the slots
before it (`GrownHolds`).  `grow` calls `insert`, which may call `grow`: `GrowthEnds` shows that
within `grow` it does not, as a table of twice the size stays below its load.

*Block sets.*  The invariant is that a vector has no entry twice and a bitmap no bit
beyond the last block; the counter is then the size of the union, because one bit
of one word goes with one block (`b = WordBits * (b \div WordBits) + b % WordBits`).

*Source blocks.*  Everything rests on two facts about rounding up, `DivCeil(a, c) <= n` iff
`a <= n * c` and `k - 1` whole blocks are less than the payload.  The invariant says of each
of the two loops which rows are filled and with what; rows of different blocks do not
overlap.  `Admission` needs that the narrowing of the header changes nothing, which
follows from the sender's checks.

*Threads.*  The invariant says that a filled cache holds the answer for this CPU, so it
does not matter who filled it, and that the words below a thread's position are XORed once.

*Transfers.*  `IInv` of `Transfer`, which run `transfer_two` checks first.  `HandedOnce`
says that `delivered` holds exactly when the accepted frames determine everything, so
that a frame that completes the stream is the last one the decoder sees; and that what
was handed over has the identity of the lock.  It is intact because `TagFits`, but that its
stream is one that somebody sends needs `ForeignIsSpoiled`: of a stream nobody sends every
stored payload came from a collision, so some equation is spoiled, and what is assembled
is no sender's container.  At first such a decoder has accepted nothing, and the frame that
is accepted as the first one is stored, because nothing is solved yet.  A lock ends by a mismatch only
with a spoiled equation (`StreamsDoNotMix` counts them against the collisions).  Sequence
numbers are fresh because the frames of a sender are exactly those its counter passed.
Of the closure the proof uses no more than that without frames it determines nothing.

*Judges.*  The invariant is about provenance: every cell under way comes from an envelope
that was made or from nobody, whatever was cut and mixed.  A ciphertext cell that a judge
opens carries key, nonce, commitment and message; so it names one envelope, because
ephemeral secrets are not drawn twice, and the key names the judge.  The other cells of what
was opened are then forced to be that envelope's: the commitment as associated data, the
public key and nonce through the derivation of the key.  The invariant `Held(S)` takes the
cells that may be under way as a parameter, so that it serves transcripts as well.

*Transcripts.*  Three kinds of cells are added, none of a ciphertext, so `Held` still
gives what is proved of envelopes.  What verifies starts with a proof cell of the public
input and length it is checked against; the cell was made for one transcript
(`ProofCellKnown`), whose key, statement, commitment and aux these are, and whose envelope
starts where the header says: byte by byte it is that transcript.  A length under way is one
that some header had or a change put there; any other cell in its place reads as too large.

*Recursive functions.*  `Power`, `Moved`, `Search`, `ShuffledBlocks` and `Kept` are recursive functions, of which
a definition only says that they are chosen.  The proofs first show that there is such a
function, by building it up to `n` for each `n`; and they argue by induction in the form that
first-order provers can use: a set of numbers that has 0 and with a number the next is `Nat`
(`SetInduction`), applied to the set of the numbers for which the claim holds.

*Selection.*  Of `Search` the proof shows that over any span it returns the first entry that
reaches the threshold, or the span's end.  The quantiles around a number are searches for smaller
and larger thresholds, and a larger threshold is reached no earlier: so the short span that
`Sample` searches has the entry that the plain search finds.  The invariant of a shuffle is that
the scratch vector is a permutation, of which `out` is the front, and the one that the draws of
this frame alone make; that of the rejection loop is that `out` lists the first draws of
each number in their order (`Drawn`, which has one solution).

*Names and types.*  What each step of `safe_file_name` returns, for every string: no step brings
back what an earlier one removed, and each leaves alone what it has nothing to do on.  So the result
is safe, and a safe name without blanks at its ends goes through unchanged, from which the second
cleaning follows.  `CharacterAssumption` is what that needs of the characters: "_" is harmless and
begins no device name.

*Containers.*  The invariant says that every cell of the payload that is still in the
container is one of the payload that was packed (`BodyCells`), and that an unaltered container is
`Packed`.  A payload that parses is then the one that was sent, so what opens was sealed with what
the header says now; the authenticated lengths make the two halves of name and type equal
(`Cancel`).  Without a seal, digest, trailer and length are left, case by case: the digest that
was packed fits one content only, and after a single change either it is the one in the header
or the body, the flags and the lengths that `unpack_impl` cuts by are as they were
(`AllButDigest`), so that the bytes are the packed ones and fit no other digest.  More is not
true: `README.md:228` says that the digest is neither a signature nor a MAC, and a payload
altered together with its digest is accepted (`src/container.rs:404`).  For
`WhatIsPackedOpens` the body is cut apart where it was joined (`Slices`), and every condition
of `unpack_impl` is computed for it; it is here that the limits have to nest, and the
`u16` lengths not to be cut.

Proved, and checked by no run as a property of its own: `BudgetsHold`, `CompleteMeansAll` (which
follows from a part of `IInv`), `ResolveDescends`, `FirstPhaseWithRoom`, `CallsDescend`, `TableInv`, `LenExact`, `RemovesTheBlock`, `InBounds`, `CacheIsStable`,
`RoundTrip` of `JudgedFile`; `FormatsAgree` is a part of `ProofRoundTrip`, `TypeOK`, `SlotsNotShared` and
`SolvedCorrect` of the decoder are parts of its `IInv`, `TypeOK` and `LockIsAdmissible` of a
transfer parts of that one, which runs check.  `ProofInv`, `Held` and the `IInv` of
`ContainerProofs` and of `BlockSelectionProofs` are not evaluated by TLC: they quantify over all
lengths and sequences.

Only model-checked: liveness (`ResolveEnds`, `Delivery`, `Returns`, the fairness part of the
refinement), which this prover does not do.  Every invariant and every action property that a
passing run checks is a theorem.

## 5. Not modelled, and the plan

Next: the container inside a transfer; `Container` and `Transfer` share only the size of
what is sent.

Not modelled, and why:

* the floating-point CDF and logarithm (`soliton.rs`, `dlog.rs`) and the mixing of
  SplitMix32 (`prng.rs`): pure numerical functions of which the models use no more
  than that both ends compute the same.  For the same reason nothing is said about the
  rejection loop of `select_blocks` ending;
* gzip, BLAKE3, Argon2, X25519 and the AEAD themselves: other crates, ideal here;
* the zeroing of keys, `random_nonce` and `keygen`: no state that a property could see;
* the byte layout of a frame, error texts, `lib.rs`: wording and re-exports;
* `is_precompressed_type`: a table of media types, a free choice in `Container`;
* a bound for `LtDecoder::seen`, a lower bound for how early `pending_edges` fills, and a
  way out of a lock to a display that went dark: the code has none.
