--------------------------- MODULE BlockSelection ---------------------------
(***************************************************************************)
(* Which blocks a repair frame covers: DegreeCdf of soliton.rs and         *)
(* frame_indices_into and select_blocks of fountain.rs, with the scratch   *)
(* vector that encoder and decoder keep from one frame to the next.        *)
(*                                                                         *)
(* The generator is external: every number it may return is considered.    *)
(* A probability is a multiple of 1 / Unit.  The numbers of the code are   *)
(* f64, but of all its arithmetic the sampler only compares, and scales by *)
(* a power of two, both of which are exact.                                *)
(***************************************************************************)
EXTENDS Integers, Sequences, SequencesExt

CONSTANTS
  None,
  K,          \* the number of blocks
  Unit,       \* 1.0
  Quant,      \* QUANT
  DenseShare, \* 8: more blocks than K divided by this are shuffled
  Cdfs,       \* the cumulative distributions to consider
  MaxFrames,  \* bound on the frames selected
  MaxRejected \* bound on the draws rejected for one frame

\* What soliton_cdf promises: sums of positive terms, then 1.0 at the end.
ASSUME CdfAssumption ==
  \A c \in Cdfs : /\ c \in [0 .. (K - 1) -> 0 .. Unit]
                  /\ \A d \in 1 .. (K - 1) : c[d - 1] <= c[d]
                  /\ c[K - 1] = Unit

ASSUME ConstantAssumption ==
  /\ {K, Unit, Quant, DenseShare} \subseteq Nat \ {0}
  /\ {MaxFrames, MaxRejected} \subseteq Nat

VARIABLES
  cdf,
  u,        \* the number that sets the degree of the frame, or None between frames
  draws,    \* what next_bounded returned for this frame
  out,
  scratch,
  frames    \* how many frames were selected

vars == <<cdf, u, draws, out, scratch, frames>>

Blocks == 0 .. (K - 1)

-----------------------------------------------------------------------------
(* The degree.                                                             *)

\* The loops of lower_bound and of sample: x is a multiple of 1 / (Unit * Quant).
Search(c, x, from, to) ==
  LET search[s \in (0 .. K) \X (0 .. K)] ==
        LET lo == s[1]
            hi == s[2]
            mid == (lo + hi) \div 2
        IN IF lo >= hi THEN lo
           ELSE IF c[mid] * Quant >= x THEN search[<<lo, mid>>]
           ELSE search[<<mid + 1, hi>>]
  IN search[<<from, to>>]

LowerBound(c, x) == Search(c, x, 0, K - 1)

\* quant[i], made by DegreeCdf::new
Bug_Bracket(c, i) == LowerBound(c, (i - 1) * Unit)    \* off by one
Bracket(c, i) == LowerBound(c, i * Unit)

Sample(c, v) ==
  IF v = 0 THEN 1
  ELSE LET i == (v * Quant) \div Unit
       IN Search(c, v * Quant, Bracket(c, i), Bracket(c, i + 1)) + 1

\* degree_binary, which frame_indices uses
DegreeBinary(c, v) == IF v = 0 THEN 1 ELSE LowerBound(c, v * Quant) + 1

-----------------------------------------------------------------------------
(* The blocks.                                                             *)

Init ==
  /\ cdf \in Cdfs
  /\ u = None
  /\ draws = <<>>
  /\ out = <<>>
  /\ scratch = [i \in Blocks |-> 0]    \* resize
  /\ frames = 0

Degree == Sample(cdf, u)

Shuffles(d) == d > K \div DenseShare

Bug_Ordered(d) == scratch              \* takes the scratch as the last frame left it
Ordered(d) == IF Shuffles(d) THEN [i \in Blocks |-> i] ELSE scratch

\* frame_indices_into, up to the loops of select_blocks
Begin(v) ==
  /\ u = None
  /\ frames < MaxFrames
  /\ u' = v
  /\ draws' = <<>>
  /\ out' = <<>>
  /\ scratch' = Ordered(Sample(cdf, v))
  /\ UNCHANGED <<cdf, frames>>

Choosing == u # None /\ Len(out) < Degree

Bug_Swapped(i, j) == [scratch EXCEPT ![i] = scratch[j]]   \* loses an entry
Swapped(i, j) == [scratch EXCEPT ![i] = scratch[j], ![j] = scratch[i]]

Shuffle ==
  /\ Choosing /\ Shuffles(Degree)
  /\ \E r \in 0 .. (K - Len(out) - 1) :
       /\ draws' = Append(draws, r)
       /\ scratch' = Swapped(Len(out), Len(out) + r)
  /\ out' = Append(out, scratch'[Len(out)])
  /\ UNCHANGED <<cdf, u, frames>>

Repeated(r) == r \in ToSet(out)

Draw ==
  /\ Choosing /\ ~ Shuffles(Degree)
  /\ \E r \in Blocks :
       /\ draws' = Append(draws, r)
       /\ \/ /\ Repeated(r)
             /\ Len(draws) - Len(out) < MaxRejected
             /\ UNCHANGED out
          \/ /\ ~ Repeated(r)
             /\ out' = Append(out, r)
  /\ UNCHANGED <<cdf, u, scratch, frames>>

Selected == u # None /\ Len(out) = Degree

\* The frame is encoded or decoded, and out is used no more.
Finish ==
  /\ Selected
  /\ frames' = frames + 1
  /\ u' = None
  /\ UNCHANGED <<cdf, draws, out, scratch>>

Next == (\E v \in 0 .. (Unit - 1) : Begin(v)) \/ Shuffle \/ Draw \/ Finish

Spec == Init /\ [][Next]_vars

-----------------------------------------------------------------------------
(* What a frame covers, with nothing kept from frames before it.           *)

\* The r-th of the remaining blocks, and then the first remaining in its place.
ShuffledBlocks(s) ==
  LET step[n \in 0 .. Len(s)] ==
        IF n = 0 THEN [chosen |-> <<>>, rest |-> [i \in 1 .. K |-> i - 1]]
        ELSE LET rest == step[n - 1].rest
                 r == s[n] + 1
             IN [chosen |-> Append(step[n - 1].chosen, rest[r]),
                 rest |-> [i \in 1 .. (Len(rest) - 1) |->
                             IF i + 1 = r THEN rest[1] ELSE rest[i + 1]]]
  IN step[Len(s)].chosen

\* The draws without repetitions, in the order in which they came first.
DrawnBlocks(s) ==
  LET first == {n \in DOMAIN s : \A m \in 1 .. (n - 1) : s[m] # s[n]}
  IN [i \in 1 .. Cardinality(first) |->
        s[CHOOSE n \in first : Cardinality({m \in first : m <= n}) = i]]

FrameIndices(d, s) == IF Shuffles(d) THEN ShuffledBlocks(s) ELSE DrawnBlocks(s)

\* The reference: the least degree whose cumulative probability reaches u.
LeastDegree ==
  CHOOSE d \in 1 .. K :
    /\ d = 1 \/ cdf[d - 2] < u
    /\ u = 0 \/ cdf[d - 1] >= u

-----------------------------------------------------------------------------
(* Properties.                                                             *)

\* The shortcut through the quantiles gives the degree of the plain binary
\* search, and both the one the distribution defines, for every distribution,
\* plateaus and quantile boundaries included: the two ends of a transfer may
\* use either.
DegreeExact ==
  u # None => Sample(cdf, u) = LeastDegree /\ DegreeBinary(cdf, u) = LeastDegree

\* A frame covers as many different blocks as its degree says, never one twice:
\* a block XORed twice would cancel out.
BlocksDistinct ==
  u # None => /\ Len(out) <= Degree
              /\ Cardinality(ToSet(out)) = Len(out)
              /\ ToSet(out) \subseteq Blocks

\* What a frame covers depends on its own draws alone, whatever frames were
\* selected before: the encoder, which made them all, and a decoder, which saw
\* a few of them, reuse scratch and still agree, as does frame_indices.
HistoryForgotten == Selected => out = FrameIndices(Degree, draws)
=============================================================================
