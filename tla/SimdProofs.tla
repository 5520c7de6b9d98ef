----------------------------- MODULE SimdProofs -----------------------------
(* What holds of xor_into for any number of threads and any lengths.       *)
EXTENDS Simd, TLAPS

\* An answer in the cache is the one this CPU would give again, and a position
\* in a vector loop is a whole number of vectors away from no gap.
Cached == AVX2_STATE # 0 => AVX2_STATE = IF Detect THEN 2 ELSE 1

X86Only == \A t \in Threads : pc[t] \in {"load", "detect"} => cpu.arch = "x86_64"

IInv == TypeOK /\ Cached /\ X86Only /\ KernelFits /\ EachWordOnce

\* No thread is in xor_into and nothing is cached at first.
LEMMA InitInv ==
  ASSUME Init
  PROVE  IInv
<1>1. TypeOK
  <2>1. times \in [Threads -> [Words -> Nat]]
    BY DEF Init
  <2>2. /\ n \in [Threads -> 0 .. MaxLen] /\ i \in [Threads -> 0 .. MaxLen]
        /\ calls \in [Threads -> 0 .. MaxCalls]
    BY SimdAssumption DEF Init
  <2> QED
    BY <2>1, <2>2 DEF Init, TypeOK
<1>2. EachWordOnce
  <2>1. ASSUME NEW t \in Threads
        PROVE  n[t] = 0 /\ i[t] = 0 /\ times[t] = [w \in Words |-> 0]
    BY DEF Init
  <2>2. \A w \in Words : ~ (w < 0)
    BY DEF Words
  <2>3. ASSUME NEW t \in Threads
        PROVE  /\ i[t] <= n[t]
               /\ \A w \in Words : times[t][w] = IF w < i[t] THEN 1 ELSE 0
               /\ pc[t] = "idle" => i[t] = n[t]
    BY <2>1, <2>2
  <2> QED
    BY <2>3 DEF EachWordOnce
<1> QED
  BY <1>1, <1>2 DEF Init, IInv, Cached, X86Only, KernelFits

\* A call starts with its buffers untouched.
LEMMA CallInv ==
  ASSUME IInv, NEW t \in Threads, NEW len \in Lengths, Call(t, len)
  PROVE  IInv'
<1> USE SimdAssumption
<1>1. TypeOK'
  <2>1. times' \in [Threads -> [Words -> Nat]]
    BY DEF IInv, TypeOK, Call
  <2>2. /\ n' \in [Threads -> 0 .. MaxLen] /\ i' \in [Threads -> 0 .. MaxLen]
        /\ calls' \in [Threads -> 0 .. MaxCalls]
    BY DEF IInv, TypeOK, Call
  <2>3. /\ pc' \in [Threads -> {"idle", "load", "detect", "xor"}]
        /\ kernel' \in [Threads -> {"none", "avx2", "sse2", "neon", "scalar"}]
    BY DEF IInv, TypeOK, Call, Enter, Fixed
  <2> QED
    BY <2>1, <2>2, <2>3 DEF IInv, TypeOK, Call
<1>2. Cached'
  BY DEF IInv, Cached, Call, Detect
<1>3. X86Only'
  BY DEF IInv, TypeOK, X86Only, Call, Enter
<1>4. KernelFits'
  BY DEF IInv, TypeOK, CPUs, KernelFits, Supported, Call, Enter, Fixed
<1>5. EachWordOnce'
  <2>1. ASSUME NEW x \in Threads
        PROVE  /\ i'[x] <= n'[x]
               /\ \A w \in Words : times'[x][w] = IF w < i'[x] THEN 1 ELSE 0
               /\ pc'[x] = "idle" => i'[x] = n'[x]
    <3>1. CASE x = t
      <4>1. i'[x] = 0 /\ n'[x] = len /\ times'[x] = [w \in Words |-> 0]
        BY <3>1 DEF IInv, TypeOK, Call
      <4>2. pc'[x] # "idle"
        BY <3>1 DEF IInv, TypeOK, Call, Enter
      <4> QED
        BY <4>1, <4>2 DEF Words
    <3>2. CASE x # t
      BY <3>2 DEF IInv, TypeOK, EachWordOnce, Call, Enter
    <3> QED
      BY <3>1, <3>2
  <2> QED
    BY <2>1 DEF EachWordOnce
<1> QED
  BY <1>1, <1>2, <1>3, <1>4, <1>5 DEF IInv

\* A thread that finds an answer in the cache finds the right one.
LEMMA LoadInv ==
  ASSUME IInv, NEW t \in Threads, Load(t)
  PROVE  IInv'
<1>1. TypeOK'
  BY DEF IInv, TypeOK, Load, Enter, Chosen
<1>2. Cached'
  BY DEF IInv, Cached, Load, Detect
<1>3. X86Only'
  BY DEF IInv, TypeOK, X86Only, Load, Enter
<1>4. KernelFits'
  BY DEF IInv, TypeOK, Cached, Detect, X86Only, KernelFits, Supported, Load, Enter, Chosen
<1>5. EachWordOnce'
  BY DEF IInv, TypeOK, EachWordOnce, Load, Enter
<1> QED
  BY <1>1, <1>2, <1>3, <1>4, <1>5 DEF IInv

\* A thread that detects stores the answer that others may have stored.
LEMMA StoreInv ==
  ASSUME IInv, NEW t \in Threads, Store(t)
  PROVE  IInv'
<1>1. TypeOK'
  BY DEF IInv, TypeOK, Store, Enter, Chosen
<1>2. Cached'
  BY DEF IInv, Cached, Store, Detect
<1>3. X86Only'
  BY DEF IInv, TypeOK, X86Only, Store, Enter
<1>4. KernelFits'
  BY DEF IInv, TypeOK, Detect, X86Only, KernelFits, Supported, Store, Enter, Chosen
<1>5. EachWordOnce'
  BY DEF IInv, TypeOK, EachWordOnce, Store, Enter
<1> QED
  BY <1>1, <1>2, <1>3, <1>4, <1>5 DEF IInv

\* A kernel that takes the next w words of its buffer.
LEMMA XorInv ==
  ASSUME IInv, NEW t \in Threads, NEW w \in Nat \ {0},
         pc[t] = "xor", i[t] + w <= n[t], Xor(t, w)
  PROVE  IInv'
<1> USE SimdAssumption
<1>1. i' = [i EXCEPT ![t] = @ + w] /\ i[t] \in Nat /\ n[t] \in 0 .. MaxLen
  BY DEF IInv, TypeOK, Xor
<1>2. times' = [times EXCEPT ![t] =
        [j \in Words |-> IF j \in i[t] .. i[t] + w - 1
                         THEN times[t][j] + 1 ELSE times[t][j]]]
  BY DEF Xor
<1>3. \A x \in Threads, j \in Words : times[x][j] \in Nat
  BY DEF IInv, TypeOK
<1>4. TypeOK'
  <2>1. i' \in [Threads -> 0 .. MaxLen]
    BY <1>1 DEF IInv, TypeOK
  <2>2. times' \in [Threads -> [Words -> Nat]]
    BY <1>2, <1>3 DEF IInv, TypeOK
  <2> QED
    BY <2>1, <2>2 DEF IInv, TypeOK, Xor
<1>5. Cached' /\ X86Only' /\ KernelFits'
  BY DEF IInv, Cached, Detect, X86Only, KernelFits, Supported, Xor
<1>6. ASSUME NEW x \in Threads
      PROVE  /\ i'[x] <= n'[x]
             /\ \A j \in Words : times'[x][j] = IF j < i'[x] THEN 1 ELSE 0
             /\ pc'[x] = "idle" => i'[x] = n'[x]
  <2>1. CASE x = t
    <3>1. i'[x] = i[t] + w /\ n'[x] = n[t] /\ pc'[x] = "xor"
      BY <1>1, <2>1 DEF IInv, TypeOK, Xor
    <3>2. ASSUME NEW j \in Words
          PROVE  times'[x][j] = IF j < i'[x] THEN 1 ELSE 0
      <4>1. times[t][j] = IF j < i[t] THEN 1 ELSE 0
        BY DEF IInv, EachWordOnce
      <4>2. times'[x][j] = IF j \in i[t] .. i[t] + w - 1
                           THEN times[t][j] + 1 ELSE times[t][j]
        BY <1>2, <2>1 DEF IInv, TypeOK
      <4>3. j \in Nat
        BY DEF Words
      <4> QED
        BY <4>1, <4>2, <4>3, <3>1, <1>1
    <3> QED
      BY <3>1, <3>2
  <2>2. CASE x # t
    BY <1>1, <1>2, <2>2 DEF IInv, TypeOK, EachWordOnce, Xor
  <2> QED
    BY <2>1, <2>2
<1> QED
  BY <1>4, <1>5, <1>6 DEF IInv, EachWordOnce

\* Both loops of a kernel go on from the word they have reached.
LEMMA KernelSteps ==
  ASSUME IInv, NEW t \in Threads, Vector(t) \/ Tail(t)
  PROVE  IInv'
<1>1. i[t] \in Nat /\ n[t] \in Nat
  BY SimdAssumption DEF IInv, TypeOK
<1>2. CASE Vector(t)
  <2>1. Width(kernel[t]) \in Nat \ {0}
    BY DEF Width
  <2> QED
    BY <1>2, <2>1, XorInv DEF Vector
<1>3. CASE Tail(t)
  <2>1. i[t] + 1 <= n[t]
    BY <1>1, <1>3 DEF Tail
  <2> QED
    BY <1>3, <2>1, XorInv DEF Tail
<1> QED
  BY <1>2, <1>3

\* A call that returns has reached the end of its buffers.
LEMMA ReturnInv ==
  ASSUME IInv, NEW t \in Threads, Return(t)
  PROVE  IInv'
<1>1. TypeOK'
  BY DEF IInv, TypeOK, Return
<1>2. Cached' /\ X86Only' /\ KernelFits'
  BY DEF IInv, TypeOK, Cached, Detect, X86Only, KernelFits, Supported, Return
<1>3. i[t] = n[t]
  <2>1. i[t] \in 0 .. MaxLen /\ n[t] \in 0 .. MaxLen
    BY DEF IInv, TypeOK
  <2>2. i[t] <= n[t] /\ i[t] >= n[t]
    BY DEF IInv, EachWordOnce, Return
  <2> QED
    BY <2>1, <2>2, SimdAssumption
<1>4. EachWordOnce'
  BY <1>3 DEF IInv, TypeOK, EachWordOnce, Return
<1> QED
  BY <1>1, <1>2, <1>4 DEF IInv

\* The invariant of xor_into.
THEOREM Invariant == Spec => []IInv
<1>1. ASSUME IInv, [Next]_vars
      PROVE  IInv'
  <2>1. CASE UNCHANGED vars
    BY <1>1, <2>1 DEF vars, local, IInv, TypeOK, Cached, Detect, X86Only,
                      KernelFits, Supported, EachWordOnce
  <2>2. CASE Next
    BY <1>1, <2>2, CallInv, LoadInv, StoreInv, KernelSteps, ReturnInv DEF Next, Run
  <2> QED
    BY <1>1, <2>1, <2>2
<1> QED
  BY <1>1, InitInv, PTL DEF Spec

\* No thread ever runs a kernel its CPU or system does not support.
THEOREM KernelsAreSupported == Spec => []KernelFits
<1>1. IInv => KernelFits
  BY DEF IInv
<1> QED
  BY <1>1, Invariant, PTL

\* Every kernel XORs every word of its buffer once and none beyond it.
THEOREM WordsAreXoredOnce == Spec => []EachWordOnce
<1>1. IInv => EachWordOnce
  BY DEF IInv
<1> QED
  BY <1>1, Invariant, PTL

\* Threads that fill the cache at the same time agree.
THEOREM CacheStays == Spec => CacheIsStable
<1>1. IInv /\ [Next]_vars => [AVX2_STATE # 0 => AVX2_STATE' = AVX2_STATE]_vars
  BY DEF IInv, Cached, Next, Run, Call, Load, Store, Vector, Tail, Xor, Return, vars
<1> QED
  BY <1>1, Invariant, PTL DEF Spec, CacheIsStable

\* A position is in the buffer.
LEMMA ToGoTypes ==
  ASSUME IInv, NEW t \in Threads
  PROVE  /\ n[t] \in Nat /\ i[t] \in Nat /\ i[t] <= n[t]
         /\ pc[t] \in {"idle", "load", "detect", "xor"}
BY SimdAssumption DEF IInv, TypeOK, EachWordOnce

\* A step of a thread takes its own call on and leaves the others alone.
LEMMA RunDescends ==
  ASSUME IInv, NEW t \in Threads, Run(t)
  PROVE  /\ ToGo(t)' < ToGo(t)
         /\ \A u \in Threads \ {t} : ToGo(u)' = ToGo(u)
<1>1. /\ n[t] \in Nat /\ i[t] \in Nat /\ i[t] <= n[t]
      /\ pc \in [Threads -> {"idle", "load", "detect", "xor"}]
      /\ i \in [Threads -> 0 .. MaxLen]
  BY ToGoTypes DEF IInv, TypeOK
<1>2. CASE Load(t)
  <2>1. /\ pc[t] = "load" /\ n' = n /\ i' = i
        /\ pc' = [pc EXCEPT ![t] = "detect"] \/ pc' = [pc EXCEPT ![t] = "xor"]
    BY <1>2 DEF Load, Enter
  <2>2. pc'[t] \in {"detect", "xor"} /\ \A u \in Threads \ {t} : pc'[u] = pc[u]
    BY <2>1, <1>1
  <2> QED
    BY <2>1, <2>2, <1>1 DEF ToGo
<1>3. CASE Store(t)
  <2>1. pc[t] = "detect" /\ n' = n /\ i' = i /\ pc' = [pc EXCEPT ![t] = "xor"]
    BY <1>3 DEF Store, Enter
  <2>2. pc'[t] = "xor" /\ \A u \in Threads \ {t} : pc'[u] = pc[u]
    BY <2>1, <1>1
  <2> QED
    BY <2>1, <2>2, <1>1 DEF ToGo
<1>4. CASE Return(t)
  <2>1. pc[t] = "xor" /\ n' = n /\ i' = i /\ pc' = [pc EXCEPT ![t] = "idle"]
    BY <1>4 DEF Return
  <2>2. pc'[t] = "idle" /\ \A u \in Threads \ {t} : pc'[u] = pc[u]
    BY <2>1, <1>1
  <2> QED
    BY <2>1, <2>2, <1>1 DEF ToGo
<1>5. ASSUME NEW w \in Nat \ {0}, pc[t] = "xor", Xor(t, w)
      PROVE  /\ ToGo(t)' < ToGo(t)
             /\ \A u \in Threads \ {t} : ToGo(u)' = ToGo(u)
  <2>1. n' = n /\ pc' = pc /\ i' = [i EXCEPT ![t] = i[t] + w]
    BY <1>5 DEF Xor
  <2>2. i'[t] = i[t] + w /\ \A u \in Threads \ {t} : i'[u] = i[u]
    BY <2>1, <1>1
  <2> QED
    BY <2>1, <2>2, <1>1, <1>5 DEF ToGo
<1>6. CASE Vector(t)
  <2>1. Width(kernel[t]) \in Nat \ {0}
    BY DEF Width
  <2> QED
    BY <2>1, <1>5, <1>6 DEF Vector
<1>7. CASE Tail(t)
  BY <1>5, <1>7 DEF Tail
<1> QED
  BY <1>2, <1>3, <1>4, <1>6, <1>7 DEF Run

\* Every step of a thread takes its call nearer to its end.
THEOREM CallsGoDown == Spec => CallsDescend
<1>1. IInv /\ [Next]_vars =>
        [\A t \in Threads : Run(t) =>
           /\ ToGo(t)' < ToGo(t)
           /\ \A u \in Threads \ {t} : ToGo(u)' = ToGo(u)]_vars
  BY RunDescends
<1>2. IInv => \A t \in Threads : ToGo(t) \in 0 .. n[t] + 3
  <2> SUFFICES ASSUME IInv, NEW t \in Threads
               PROVE  ToGo(t) \in 0 .. n[t] + 3
    OBVIOUS
  <2>1. /\ n[t] \in Nat /\ i[t] \in Nat /\ i[t] <= n[t]
        /\ pc[t] \in {"idle", "load", "detect", "xor"}
    BY ToGoTypes
  <2>2. ToGo(t) \in {0, n[t] + 3, n[t] + 2, n[t] - i[t] + 1}
    BY <2>1 DEF ToGo
  <2> QED
    BY <2>1, <2>2
<1> QED
  BY <1>1, <1>2, Invariant, PTL DEF Spec, CallsDescend
=============================================================================
