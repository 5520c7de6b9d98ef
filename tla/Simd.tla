-------------------------------- MODULE Simd --------------------------------
(***************************************************************************)
(* xor_into of src/src/simd.rs: threads that choose a kernel by a cached    *)
(* check of the CPU and run it over buffers of their own.                   *)
(*                                                                         *)
(* AVX2_STATE is read and written with relaxed atomics.  It is one location *)
(* and nothing else depends on it, so coherence makes every execution an    *)
(* interleaving of its loads and stores.  detect_avx2, between a load that  *)
(* finds nothing and the store, takes place with the store.                 *)
(***************************************************************************)
EXTENDS Naturals

CONSTANTS
  Threads,
  MaxLen,
  Lengths,      \* lengths of the buffers, in words
  MaxCalls      \* bound on the calls of a thread

ASSUME SimdAssumption ==
  MaxLen \in Nat /\ Lengths \subseteq 0 .. MaxLen /\ MaxCalls \in Nat

VARIABLES
  cpu,          \* what the program was compiled for, and what cpuid says
  AVX2_STATE,   \* 0 unknown, 1 absent, 2 present
  pc,           \* where each thread is in xor_into
  kernel,       \* the kernel it runs
  n, i,         \* the length of its buffers, and its position in them
  times,        \* how often it has XORed each word
  calls

\* Words of the buffers, and those a vector could reach beyond them.
Words == 0 .. MaxLen + 7

local == <<pc, kernel, n, i, times, calls>>
vars == <<cpu, AVX2_STATE, local>>

CPUs == [arch : {"x86_64", "aarch64", "other"},
         osxsave : BOOLEAN, avx : BOOLEAN, ymm : BOOLEAN, avx2 : BOOLEAN]

Bug_Detect == cpu.avx2        \* does not ask whether the system saves the registers

\* detect_avx2
Detect == cpu.osxsave /\ cpu.avx /\ cpu.ymm /\ cpu.avx2

Init ==
  /\ cpu \in CPUs
  /\ AVX2_STATE = 0
  /\ pc = [t \in Threads |-> "idle"]
  /\ kernel = [t \in Threads |-> "none"]
  /\ n = [t \in Threads |-> 0]
  /\ i = [t \in Threads |-> 0]
  /\ times = [t \in Threads |-> [w \in Words |-> 0]]
  /\ calls = [t \in Threads |-> 0]

Enter(t, k) ==
  /\ pc' = [pc EXCEPT ![t] = "xor"]
  /\ kernel' = [kernel EXCEPT ![t] = k]

\* The kernel of a target without a runtime check.
Fixed == IF cpu.arch = "aarch64" THEN "neon" ELSE "scalar"

\* xor_into is called; both slices are of one length, or it panics.
Call(t, len) ==
  /\ pc[t] = "idle"
  /\ calls[t] < MaxCalls
  /\ calls' = [calls EXCEPT ![t] = @ + 1]
  /\ n' = [n EXCEPT ![t] = len]
  /\ i' = [i EXCEPT ![t] = 0]
  /\ times' = [times EXCEPT ![t] = [w \in Words |-> 0]]
  /\ IF cpu.arch = "x86_64"
     THEN pc' = [pc EXCEPT ![t] = "load"] /\ kernel' = kernel
     ELSE Enter(t, Fixed)
  /\ UNCHANGED <<cpu, AVX2_STATE>>

Chosen(present) == IF present THEN "avx2" ELSE "sse2"

Bug_Load(t) ==                \* waits for another thread to detect
  /\ pc[t] = "load"
  /\ AVX2_STATE # 0
  /\ Enter(t, Chosen(AVX2_STATE = 2))
  /\ UNCHANGED <<cpu, AVX2_STATE, n, i, times, calls>>

\* avx2_available, the load.
Load(t) ==
  /\ pc[t] = "load"
  /\ IF AVX2_STATE = 0
     THEN pc' = [pc EXCEPT ![t] = "detect"] /\ kernel' = kernel
     ELSE Enter(t, Chosen(AVX2_STATE = 2))
  /\ UNCHANGED <<cpu, AVX2_STATE, n, i, times, calls>>

\* avx2_available, the detection and the store.
Store(t) ==
  /\ pc[t] = "detect"
  /\ AVX2_STATE' = IF Detect THEN 2 ELSE 1
  /\ Enter(t, Chosen(Detect))
  /\ UNCHANGED <<cpu, n, i, times, calls>>

\* The words a kernel takes at once; the scalar one has no vectors.
Width(k) == IF k = "avx2" THEN 8 ELSE IF k = "scalar" THEN 1 ELSE 4

Xor(t, w) ==
  /\ times' = [times EXCEPT ![t] =
       [j \in Words |-> IF j \in i[t] .. i[t] + w - 1 THEN @[j] + 1 ELSE @[j]]]
  /\ i' = [i EXCEPT ![t] = @ + w]
  /\ UNCHANGED <<cpu, AVX2_STATE, pc, kernel, n, calls>>

\* One iteration of the vector loop of a kernel, of the loop over its tail.
Vector(t) ==
  /\ pc[t] = "xor"
  /\ i[t] + Width(kernel[t]) <= n[t]
  /\ Xor(t, Width(kernel[t]))

Tail(t) ==
  /\ pc[t] = "xor"
  /\ i[t] + Width(kernel[t]) > n[t] /\ i[t] < n[t]
  /\ Xor(t, 1)

Bug_Return(t) ==              \* leaves when the vector loop is done
  /\ pc[t] = "xor"
  /\ i[t] + Width(kernel[t]) > n[t]
  /\ pc' = [pc EXCEPT ![t] = "idle"]
  /\ UNCHANGED <<cpu, AVX2_STATE, kernel, n, i, times, calls>>

Return(t) ==
  /\ pc[t] = "xor"
  /\ i[t] >= n[t]
  /\ pc' = [pc EXCEPT ![t] = "idle"]
  /\ UNCHANGED <<cpu, AVX2_STATE, kernel, n, i, times, calls>>

Run(t) == Load(t) \/ Store(t) \/ Vector(t) \/ Tail(t) \/ Return(t)

Next == \E t \in Threads : Run(t) \/ \E len \in Lengths : Call(t, len)

\* A thread that is in xor_into is scheduled; nobody has to call it.
Spec == Init /\ [][Next]_vars /\ \A t \in Threads : WF_vars(Run(t))

-----------------------------------------------------------------------------
(* Properties.                                                             *)

\* The cache holds one of its three values, and no kernel runs past its buffers.
TypeOK ==
  /\ cpu \in CPUs
  /\ AVX2_STATE \in 0 .. 2
  /\ pc \in [Threads -> {"idle", "load", "detect", "xor"}]
  /\ kernel \in [Threads -> {"none", "avx2", "sse2", "neon", "scalar"}]
  /\ n \in [Threads -> 0 .. MaxLen]
  /\ i \in [Threads -> 0 .. MaxLen]
  /\ times \in [Threads -> [Words -> Nat]]
  /\ calls \in [Threads -> 0 .. MaxCalls]

\* What the CPU, and the system that saves its registers, can run.
Supported(k) ==
  \/ k = "avx2" /\ cpu.arch = "x86_64" /\ cpu.osxsave /\ cpu.avx /\ cpu.ymm /\ cpu.avx2
  \/ k = "sse2" /\ cpu.arch = "x86_64" /\ ~ (cpu.osxsave /\ cpu.avx /\ cpu.ymm /\ cpu.avx2)
  \/ k = "neon" /\ cpu.arch = "aarch64"
  \/ k = "scalar" /\ cpu.arch = "other"

\* No thread runs a kernel its CPU or its system does not support, whoever
\* filled the cache it read and however the fillers interleaved; and none
\* falls back to SSE2 where AVX2 is there.
KernelFits == \A t \in Threads : pc[t] = "xor" => Supported(kernel[t])

\* The words before the position of a kernel were XORed once, no other word of
\* the buffer or beyond it was touched, and a call returns with the whole
\* buffer done: for every length the vector loop and its tail leave no gap
\* and no overlap (a word XORed twice is a word not XORed).
EachWordOnce ==
  \A t \in Threads :
    /\ i[t] <= n[t]
    /\ \A w \in Words : times[t][w] = IF w < i[t] THEN 1 ELSE 0
    /\ pc[t] = "idle" => i[t] = n[t]

\* Once some thread has cached an answer it stays: threads that detect at the
\* same time store the same value, none takes it back.
CacheIsStable == [][AVX2_STATE # 0 => AVX2_STATE' = AVX2_STATE]_vars

\* The steps a thread has at most to go until its call returns.
ToGo(t) ==
  CASE pc[t] = "idle" -> 0
    [] pc[t] = "load" -> n[t] + 3
    [] pc[t] = "detect" -> n[t] + 2
    [] pc[t] = "xor" -> n[t] - i[t] + 1

\* Every step of a thread brings its own call nearer to the end, and no call of
\* another thread further away: detect_avx2 may be entered by all of them, but
\* none waits for what another one stores.
CallsDescend ==
  /\ [](\A t \in Threads : ToGo(t) \in 0 .. n[t] + 3)
  /\ [][\A t \in Threads : Run(t) =>
          /\ ToGo(t)' < ToGo(t)
          /\ \A u \in Threads \ {t} : ToGo(u)' = ToGo(u)]_vars

\* Every call of xor_into returns.
Returns == \A t \in Threads : pc[t] # "idle" ~> pc[t] = "idle"
=============================================================================
