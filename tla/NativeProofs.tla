----------------------------- MODULE NativeProofs -----------------------------
(***************************************************************************)
(* Proofs about modules NativeAnalysis, NativeCode and Assembly: machine   *)
(* code does what the interpreter does (NativeCorrect), for every          *)
(* function, every argument and every number of registers.                 *)
(*                                                                         *)
(* The proof is a simulation.  A machine is where a frame is (Sim) when    *)
(* the register cache, over the frame the machine has in memory, agrees    *)
(* with the frame the interpreter has, for every slot that is live, and    *)
(* both have shown the same.  What a piece of emitted code does (Does) is  *)
(* said of every machine that comes to it so, in any code that has the     *)
(* piece:                                                                  *)
(*                                                                         *)
(*   LiveCorrect      the slots found to be live are live                  *)
(*   DispatchCorrect, JumpCorrect, FusedCorrect, ReturnCorrect             *)
(*                    each instruction does what the interpreter does,     *)
(*                    and the cache at the label of a jump is the one the  *)
(*                    label expects                                        *)
(*   StepCorrect      so the machine is where the interpreter is after one *)
(*                    instruction more                                     *)
(*   AssemblyCorrect  so NativeAgrees is an invariant of module Assembly   *)
(*                                                                         *)
(* In between is what the turns of the emitter leave alone as it goes on:  *)
(* the operations emitted, where each pc begins, and the cache that was    *)
(* noted for a label.                                                      *)
(***************************************************************************)
EXTENDS Assembly, BytecodeProofs

-------------------------------------------------------------------------------
(* Definitions by recursion unfold.                                         *)

\* The machines a run of native code goes through.
IsNativeRun(run, n, m, k) ==
  /\ run = [h \in 0 .. k |-> run[h]]
  /\ \A h \in 0 .. k : run[h] = IF h = 0 THEN m ELSE Advanced(n, run[h - 1])

LEMMA NativeRunExists ==
  ASSUME NEW n, NEW m, NEW fuel \in Nat
  PROVE  \E run : IsNativeRun(run, n, m, fuel)
<1> DEFINE T == {k \in Nat : \E run : IsNativeRun(run, n, m, k)}
<1>1. 0 \in T
  <2> DEFINE run == [h \in 0 .. 0 |-> m]
  <2>1. IsNativeRun(run, n, m, 0)
    BY DEF IsNativeRun
  <2> QED
    BY <2>1
<1>2. ASSUME NEW k \in Nat, k \in T PROVE k + 1 \in T
  <2>1. PICK old : IsNativeRun(old, n, m, k)
    BY <1>2
  <2> DEFINE more == Advanced(n, old[k])
             run == [h \in 0 .. k + 1 |-> IF h = k + 1 THEN more ELSE old[h]]
  <2> HIDE DEF more
  <2>2. ASSUME NEW h \in 0 .. k + 1
        PROVE  run[h] = IF h = 0 THEN m ELSE Advanced(n, run[h - 1])
    <3>1. CASE h = k + 1
      <4>1. h # 0 /\ h - 1 = k /\ k \in 0 .. k + 1 /\ k # k + 1
        BY <3>1
      <4>2. run[h] = more /\ run[h - 1] = old[k]
        BY <3>1, <4>1
      <4> QED
        BY <3>1, <4>1, <4>2 DEF more
    <3>2. CASE h = 0
      <4>1. 0 \in 0 .. k /\ h # k + 1
        BY <3>2
      <4>2. old[0] = m
        BY <2>1, <4>1 DEF IsNativeRun
      <4> QED
        BY <3>2, <4>1, <4>2
    <3>3. CASE h # k + 1 /\ h # 0
      <4>1. h \in 0 .. k /\ h - 1 \in 0 .. k + 1 /\ h - 1 # k + 1
        BY <3>3
      <4>2. run[h] = old[h] /\ run[h - 1] = old[h - 1]
        BY <3>3, <4>1
      <4>3. old[h] = Advanced(n, old[h - 1])
        BY <2>1, <3>3, <4>1, Zenon DEF IsNativeRun
      <4> QED
        BY <3>3, <4>2, <4>3
    <3> QED
      BY <3>1, <3>2, <3>3
  <2>3. run = [h \in 0 .. k + 1 |-> run[h]]
    OBVIOUS
  <2> HIDE DEF run
  <2>4. IsNativeRun(run, n, m, k + 1)
    BY <2>2, <2>3 DEF IsNativeRun
  <2> QED
    BY <2>4
<1>3. \A k \in Nat : k \in T
  <2> HIDE DEF T
  <2> QED
    BY <1>1, <1>2, AllNaturals
<1> QED
  BY <1>3

LEMMA RunForIs ==
  ASSUME NEW n, NEW m, NEW fuel \in Nat
  PROVE  \E run : IsNativeRun(run, n, m, fuel) /\ RunFor(n, m, fuel) = run[fuel]
<1> DEFINE IsIt(run) == run = [h \in 0 .. fuel |-> IF h = 0 THEN m ELSE Advanced(n, run[h - 1])]
           R == CHOOSE run : IsIt(run)
<1>1. \E run : IsIt(run)
  <2>1. PICK run : IsNativeRun(run, n, m, fuel)
    BY NativeRunExists
  <2>2. IsIt(run)
    BY <2>1 DEF IsNativeRun
  <2> HIDE DEF IsIt
  <2> QED
    BY <2>2
<1>2. IsIt(R)
  <2> HIDE DEF IsIt
  <2> QED
    BY <1>1
<1>3. RunFor(n, m, fuel) = R[fuel]
  BY DEF RunFor
<1>4. IsNativeRun(R, n, m, fuel)
  <2> HIDE DEF R
  <2> QED
    BY <1>2 DEF IsNativeRun
<1> QED
  BY <1>3, <1>4

\* Ten operations at a time.
IsTenRun(run, n, m, k) ==
  /\ run = [h \in 0 .. k |-> run[h]]
  /\ \A h \in 0 .. k : run[h] = IF h = 0 THEN m ELSE TenMore(n, run[h - 1])

LEMMA TenRunExists ==
  ASSUME NEW n, NEW m, NEW fuel \in Nat
  PROVE  \E run : IsTenRun(run, n, m, fuel)
<1> DEFINE T == {k \in Nat : \E run : IsTenRun(run, n, m, k)}
<1>1. 0 \in T
  <2> DEFINE run == [h \in 0 .. 0 |-> m]
  <2>1. IsTenRun(run, n, m, 0)
    BY DEF IsTenRun
  <2> QED
    BY <2>1
<1>2. ASSUME NEW k \in Nat, k \in T PROVE k + 1 \in T
  <2>1. PICK old : IsTenRun(old, n, m, k)
    BY <1>2
  <2> DEFINE more == TenMore(n, old[k])
             run == [h \in 0 .. k + 1 |-> IF h = k + 1 THEN more ELSE old[h]]
  <2> HIDE DEF more
  <2>2. ASSUME NEW h \in 0 .. k + 1
        PROVE  run[h] = IF h = 0 THEN m ELSE TenMore(n, run[h - 1])
    <3>1. CASE h = k + 1
      <4>1. h # 0 /\ h - 1 = k /\ k \in 0 .. k + 1 /\ k # k + 1
        BY <3>1
      <4>2. run[h] = more /\ run[h - 1] = old[k]
        BY <3>1, <4>1
      <4> QED
        BY <3>1, <4>1, <4>2 DEF more
    <3>2. CASE h = 0
      <4>1. 0 \in 0 .. k /\ h # k + 1
        BY <3>2
      <4>2. old[0] = m
        BY <2>1, <4>1 DEF IsTenRun
      <4> QED
        BY <3>2, <4>1, <4>2
    <3>3. CASE h # k + 1 /\ h # 0
      <4>1. h \in 0 .. k /\ h - 1 \in 0 .. k + 1 /\ h - 1 # k + 1
        BY <3>3
      <4>2. run[h] = old[h] /\ run[h - 1] = old[h - 1]
        BY <3>3, <4>1
      <4>3. old[h] = TenMore(n, old[h - 1])
        BY <2>1, <3>3, <4>1, Zenon DEF IsTenRun
      <4> QED
        BY <3>3, <4>2, <4>3
    <3> QED
      BY <3>1, <3>2, <3>3
  <2>3. run = [h \in 0 .. k + 1 |-> run[h]]
    OBVIOUS
  <2> HIDE DEF run
  <2>4. IsTenRun(run, n, m, k + 1)
    BY <2>2, <2>3 DEF IsTenRun
  <2> QED
    BY <2>4
<1>3. \A k \in Nat : k \in T
  <2> HIDE DEF T
  <2> QED
    BY <1>1, <1>2, AllNaturals
<1> QED
  BY <1>3

LEMMA NativeRunIs ==
  ASSUME NEW n, NEW args, NEW fuel \in Nat
  PROVE  \E run : IsTenRun(run, n, Boot(args), fuel) /\ NativeRun(n, args, fuel) = run[fuel]
<1> DEFINE IsIt(run) == run = [h \in 0 .. fuel |-> IF h = 0 THEN Boot(args) ELSE TenMore(n, run[h - 1])]
           R == CHOOSE run : IsIt(run)
<1>1. \E run : IsIt(run)
  <2>1. PICK run : IsTenRun(run, n, Boot(args), fuel)
    BY TenRunExists
  <2>2. IsIt(run)
    BY <2>1 DEF IsTenRun
  <2> HIDE DEF IsIt
  <2> QED
    BY <2>2
<1>2. IsIt(R)
  <2> HIDE DEF IsIt
  <2> QED
    BY <1>1
<1>3. NativeRun(n, args, fuel) = R[fuel]
  BY DEF NativeRun
<1>4. IsTenRun(R, n, Boot(args), fuel)
  <2> HIDE DEF R
  <2> QED
    BY <1>2 DEF IsTenRun
<1> QED
  BY <1>3, <1>4

\* The emitters of the turns of the loop.
IsEmission(run, cx, k) ==
  /\ run = [h \in 0 .. k |-> run[h]]
  /\ \A h \in 0 .. k : run[h] = IF h = 0 THEN Entry(cx) ELSE Turn(cx, run[h - 1])

LEMMA EmissionExists ==
  ASSUME NEW cx, NEW fuel \in Nat
  PROVE  \E run : IsEmission(run, cx, fuel)
<1> DEFINE T == {k \in Nat : \E run : IsEmission(run, cx, k)}
<1>1. 0 \in T
  <2> DEFINE run == [h \in 0 .. 0 |-> Entry(cx)]
  <2>1. IsEmission(run, cx, 0)
    BY DEF IsEmission
  <2> QED
    BY <2>1
<1>2. ASSUME NEW k \in Nat, k \in T PROVE k + 1 \in T
  <2>1. PICK old : IsEmission(old, cx, k)
    BY <1>2
  <2> DEFINE more == Turn(cx, old[k])
             run == [h \in 0 .. k + 1 |-> IF h = k + 1 THEN more ELSE old[h]]
  <2> HIDE DEF more
  <2>2. ASSUME NEW h \in 0 .. k + 1
        PROVE  run[h] = IF h = 0 THEN Entry(cx) ELSE Turn(cx, run[h - 1])
    <3>1. CASE h = k + 1
      <4>1. h # 0 /\ h - 1 = k /\ k \in 0 .. k + 1 /\ k # k + 1
        BY <3>1
      <4>2. run[h] = more /\ run[h - 1] = old[k]
        BY <3>1, <4>1
      <4> QED
        BY <3>1, <4>1, <4>2 DEF more
    <3>2. CASE h = 0
      <4>1. 0 \in 0 .. k /\ h # k + 1
        BY <3>2
      <4>2. old[0] = Entry(cx)
        BY <2>1, <4>1 DEF IsEmission
      <4> QED
        BY <3>2, <4>1, <4>2
    <3>3. CASE h # k + 1 /\ h # 0
      <4>1. h \in 0 .. k /\ h - 1 \in 0 .. k + 1 /\ h - 1 # k + 1
        BY <3>3
      <4>2. run[h] = old[h] /\ run[h - 1] = old[h - 1]
        BY <3>3, <4>1
      <4>3. old[h] = Turn(cx, old[h - 1])
        BY <2>1, <3>3, <4>1, Zenon DEF IsEmission
      <4> QED
        BY <3>3, <4>2, <4>3
    <3> QED
      BY <3>1, <3>2, <3>3
  <2>3. run = [h \in 0 .. k + 1 |-> run[h]]
    OBVIOUS
  <2> HIDE DEF run
  <2>4. IsEmission(run, cx, k + 1)
    BY <2>2, <2>3 DEF IsEmission
  <2> QED
    BY <2>4
<1>3. \A k \in Nat : k \in T
  <2> HIDE DEF T
  <2> QED
    BY <1>1, <1>2, AllNaturals
<1> QED
  BY <1>3

LEMMA EmittedCodeIs ==
  ASSUME NEW cx, End(cx.code) \in Nat
  PROVE  \E run : IsEmission(run, cx, End(cx.code)) /\ EmittedCode(cx) = run[End(cx.code)]
<1> DEFINE IsIt(run) == run = [h \in 0 .. End(cx.code) |-> IF h = 0 THEN Entry(cx) ELSE Turn(cx, run[h - 1])]
           R == CHOOSE run : IsIt(run)
<1>1. \E run : IsIt(run)
  <2>1. PICK run : IsEmission(run, cx, End(cx.code))
    BY EmissionExists
  <2>2. IsIt(run)
    BY <2>1 DEF IsEmission
  <2> HIDE DEF IsIt
  <2> QED
    BY <2>2
<1>2. IsIt(R)
  <2> HIDE DEF IsIt
  <2> QED
    BY <1>1
<1>3. EmittedCode(cx) = R[End(cx.code)]
  BY DEF EmittedCode
<1>4. IsEmission(R, cx, End(cx.code))
  <2> HIDE DEF R
  <2> QED
    BY <1>2 DEF IsEmission
<1> QED
  BY <1>3, <1>4

\* The emitters of StoreAll.
IsStoring(run, e, xs, k) ==
  /\ run = [h \in 0 .. k |-> run[h]]
  /\ \A h \in 0 .. k : run[h] = IF h = 0 THEN e ELSE StoreIf(run[h - 1], xs, (h - 1))

LEMMA StoringExists ==
  ASSUME NEW e, NEW xs, NEW fuel \in Nat
  PROVE  \E run : IsStoring(run, e, xs, fuel)
<1> DEFINE T == {k \in Nat : \E run : IsStoring(run, e, xs, k)}
<1>1. 0 \in T
  <2> DEFINE run == [h \in 0 .. 0 |-> e]
  <2>1. IsStoring(run, e, xs, 0)
    BY DEF IsStoring
  <2> QED
    BY <2>1
<1>2. ASSUME NEW k \in Nat, k \in T PROVE k + 1 \in T
  <2>1. PICK old : IsStoring(old, e, xs, k)
    BY <1>2
  <2> DEFINE more == StoreIf(old[k], xs, k)
             run == [h \in 0 .. k + 1 |-> IF h = k + 1 THEN more ELSE old[h]]
  <2> HIDE DEF more
  <2>2. ASSUME NEW h \in 0 .. k + 1
        PROVE  run[h] = IF h = 0 THEN e ELSE StoreIf(run[h - 1], xs, (h - 1))
    <3>1. CASE h = k + 1
      <4>1. h # 0 /\ h - 1 = k /\ k \in 0 .. k + 1 /\ k # k + 1
        BY <3>1
      <4>2. run[h] = more /\ run[h - 1] = old[k]
        BY <3>1, <4>1
      <4> QED
        BY <3>1, <4>1, <4>2 DEF more
    <3>2. CASE h = 0
      <4>1. 0 \in 0 .. k /\ h # k + 1
        BY <3>2
      <4>2. old[0] = e
        BY <2>1, <4>1 DEF IsStoring
      <4> QED
        BY <3>2, <4>1, <4>2
    <3>3. CASE h # k + 1 /\ h # 0
      <4>1. h \in 0 .. k /\ h - 1 \in 0 .. k + 1 /\ h - 1 # k + 1
        BY <3>3
      <4>2. run[h] = old[h] /\ run[h - 1] = old[h - 1]
        BY <3>3, <4>1
      <4>3. old[h] = StoreIf(old[h - 1], xs, (h - 1))
        BY <2>1, <3>3, <4>1, Zenon DEF IsStoring
      <4> QED
        BY <3>3, <4>2, <4>3
    <3> QED
      BY <3>1, <3>2, <3>3
  <2>3. run = [h \in 0 .. k + 1 |-> run[h]]
    OBVIOUS
  <2> HIDE DEF run
  <2>4. IsStoring(run, e, xs, k + 1)
    BY <2>2, <2>3 DEF IsStoring
  <2> QED
    BY <2>4
<1>3. \A k \in Nat : k \in T
  <2> HIDE DEF T
  <2> QED
    BY <1>1, <1>2, AllNaturals
<1> QED
  BY <1>3

LEMMA StoreAllIs ==
  ASSUME NEW e, NEW xs, CacheRegs \in Nat
  PROVE  \E run : IsStoring(run, e, xs, CacheRegs) /\ StoreAll(e, xs) = run[CacheRegs]
<1> DEFINE IsIt(run) == run = [h \in 0 .. CacheRegs |-> IF h = 0 THEN e ELSE StoreIf(run[h - 1], xs, h - 1)]
           R == CHOOSE run : IsIt(run)
<1>1. \E run : IsIt(run)
  <2>1. PICK run : IsStoring(run, e, xs, CacheRegs)
    BY StoringExists
  <2>2. IsIt(run)
    BY <2>1 DEF IsStoring
  <2> HIDE DEF IsIt
  <2> QED
    BY <2>2
<1>2. IsIt(R)
  <2> HIDE DEF IsIt
  <2> QED
    BY <1>1
<1>3. StoreAll(e, xs) = R[CacheRegs]
  BY DEF StoreAll
<1>4. IsStoring(R, e, xs, CacheRegs)
  <2> HIDE DEF R
  <2> QED
    BY <1>2 DEF IsStoring
<1> QED
  BY <1>3, <1>4

\* What is found to be live, so many instructions ahead.
IsLiving(run, c, k) ==
  /\ run = [h \in 0 .. k |-> run[h]]
  /\ \A h \in 0 .. k : run[h] = IF h = 0 THEN [pc \in 1 .. End(c) |-> {}] ELSE LiveSooner(c, run[h - 1])

LEMMA LivingExists ==
  ASSUME NEW c, NEW fuel \in Nat
  PROVE  \E run : IsLiving(run, c, fuel)
<1> DEFINE T == {k \in Nat : \E run : IsLiving(run, c, k)}
<1>1. 0 \in T
  <2> DEFINE run == [h \in 0 .. 0 |-> [pc \in 1 .. End(c) |-> {}]]
  <2>1. IsLiving(run, c, 0)
    BY DEF IsLiving
  <2> QED
    BY <2>1
<1>2. ASSUME NEW k \in Nat, k \in T PROVE k + 1 \in T
  <2>1. PICK old : IsLiving(old, c, k)
    BY <1>2
  <2> DEFINE more == LiveSooner(c, old[k])
             run == [h \in 0 .. k + 1 |-> IF h = k + 1 THEN more ELSE old[h]]
  <2> HIDE DEF more
  <2>2. ASSUME NEW h \in 0 .. k + 1
        PROVE  run[h] = IF h = 0 THEN [pc \in 1 .. End(c) |-> {}] ELSE LiveSooner(c, run[h - 1])
    <3>1. CASE h = k + 1
      <4>1. h # 0 /\ h - 1 = k /\ k \in 0 .. k + 1 /\ k # k + 1
        BY <3>1
      <4>2. run[h] = more /\ run[h - 1] = old[k]
        BY <3>1, <4>1
      <4> QED
        BY <3>1, <4>1, <4>2 DEF more
    <3>2. CASE h = 0
      <4>1. 0 \in 0 .. k /\ h # k + 1
        BY <3>2
      <4>2. old[0] = [pc \in 1 .. End(c) |-> {}]
        BY <2>1, <4>1 DEF IsLiving
      <4> QED
        BY <3>2, <4>1, <4>2
    <3>3. CASE h # k + 1 /\ h # 0
      <4>1. h \in 0 .. k /\ h - 1 \in 0 .. k + 1 /\ h - 1 # k + 1
        BY <3>3
      <4>2. run[h] = old[h] /\ run[h - 1] = old[h - 1]
        BY <3>3, <4>1
      <4>3. old[h] = LiveSooner(c, old[h - 1])
        BY <2>1, <3>3, <4>1, Zenon DEF IsLiving
      <4> QED
        BY <3>3, <4>2, <4>3
    <3> QED
      BY <3>1, <3>2, <3>3
  <2>3. run = [h \in 0 .. k + 1 |-> run[h]]
    OBVIOUS
  <2> HIDE DEF run
  <2>4. IsLiving(run, c, k + 1)
    BY <2>2, <2>3 DEF IsLiving
  <2> QED
    BY <2>4
<1>3. \A k \in Nat : k \in T
  <2> HIDE DEF T
  <2> QED
    BY <1>1, <1>2, AllNaturals
<1> QED
  BY <1>3

LEMMA LiveIs ==
  ASSUME NEW c, End(c) \in Nat
  PROVE  \E run : IsLiving(run, c, End(c)) /\ Live(c) = run[End(c)]
<1> DEFINE IsIt(run) == run = [h \in 0 .. End(c) |-> IF h = 0 THEN [pc \in 1 .. End(c) |-> {}] ELSE LiveSooner(c, run[h - 1])]
           R == CHOOSE run : IsIt(run)
<1>1. \E run : IsIt(run)
  <2>1. PICK run : IsLiving(run, c, End(c))
    BY LivingExists
  <2>2. IsIt(run)
    BY <2>1 DEF IsLiving
  <2> HIDE DEF IsIt
  <2> QED
    BY <2>2
<1>2. IsIt(R)
  <2> HIDE DEF IsIt
  <2> QED
    BY <1>1
<1>3. Live(c) = R[End(c)]
  BY DEF Live
<1>4. IsLiving(R, c, End(c))
  <2> HIDE DEF R
  <2> QED
    BY <1>2 DEF IsLiving
<1> QED
  BY <1>3, <1>4

LEMMA NativeRunAt ==
  ASSUME NEW run, NEW n, NEW m, NEW k \in Nat, IsNativeRun(run, n, m, k)
  PROVE  /\ run[0] = m
         /\ \A h \in Nat : h < k => run[h + 1] = Advanced(n, run[h])
<1>1. run[0] = m
  <2>1. 0 \in 0 .. k
    OBVIOUS
  <2> QED
    BY <2>1 DEF IsNativeRun
<1>2. ASSUME NEW h \in Nat, h < k PROVE run[h + 1] = Advanced(n, run[h])
  <2>1. h + 1 \in 0 .. k /\ h + 1 # 0 /\ (h + 1) - 1 = h
    BY <1>2
  <2>2. run[h + 1] = IF h + 1 = 0 THEN m ELSE Advanced(n, run[(h + 1) - 1])
    BY <2>1, Zenon DEF IsNativeRun
  <2> QED
    BY <2>1, <2>2
<1> QED
  BY <1>1, <1>2

\* No step, and one more.
LEMMA RunForSteps ==
  ASSUME NEW n, NEW m, NEW k \in Nat
  PROVE  /\ RunFor(n, m, 0) = m
         /\ RunFor(n, m, k + 1) = Advanced(n, RunFor(n, m, k))
<1>1. RunFor(n, m, 0) = m
  <2>1. PICK run : IsNativeRun(run, n, m, 0) /\ RunFor(n, m, 0) = run[0]
    BY RunForIs
  <2> QED
    BY <2>1, NativeRunAt
<1>2. PICK long : IsNativeRun(long, n, m, k + 1) /\ RunFor(n, m, k + 1) = long[k + 1]
  BY RunForIs
<1>3. PICK short : IsNativeRun(short, n, m, k) /\ RunFor(n, m, k) = short[k]
  BY RunForIs
<1>4. /\ long[0] = m /\ short[0] = m
      /\ \A h \in Nat : h < k + 1 => long[h + 1] = Advanced(n, long[h])
      /\ \A h \in Nat : h < k => short[h + 1] = Advanced(n, short[h])
  <2>1. k + 1 \in Nat
    OBVIOUS
  <2> QED
    BY <1>2, <1>3, <2>1, NativeRunAt
<1> DEFINE T == {j \in Nat : j <= k => long[j] = short[j]}
<1>5. 0 \in T
  BY <1>4
<1>6. ASSUME NEW j \in Nat, j \in T PROVE j + 1 \in T
  BY <1>4, <1>6
<1>7. \A j \in Nat : j \in T
  <2> HIDE DEF T
  <2> QED
    BY <1>5, <1>6, AllNaturals
<1>8. long[k] = short[k]
  BY <1>7
<1>9. long[k + 1] = Advanced(n, long[k])
  BY <1>4
<1> QED
  BY <1>1, <1>2, <1>3, <1>8, <1>9

\* Two runs in a row are a run.
LEMMA RunForSum ==
  ASSUME NEW n, NEW m, NEW j \in Nat
  PROVE  \A k \in Nat : RunFor(n, m, j + k) = RunFor(n, RunFor(n, m, j), k)
<1> DEFINE T == {k \in Nat : RunFor(n, m, j + k) = RunFor(n, RunFor(n, m, j), k)}
<1>1. 0 \in T
  BY RunForSteps
<1>2. ASSUME NEW k \in Nat, k \in T PROVE k + 1 \in T
  <2>1. j + (k + 1) = (j + k) + 1 /\ j + k \in Nat
    OBVIOUS
  <2>2. RunFor(n, m, (j + k) + 1) = Advanced(n, RunFor(n, m, j + k))
    BY <2>1, RunForSteps
  <2>3. RunFor(n, RunFor(n, m, j), k + 1) = Advanced(n, RunFor(n, RunFor(n, m, j), k))
    BY RunForSteps
  <2> QED
    BY <1>2, <2>1, <2>2, <2>3
<1>3. \A k \in Nat : k \in T
  <2> HIDE DEF T
  <2> QED
    BY <1>1, <1>2, AllNaturals
<1> QED
  BY <1>3

\* A run of n takes m to m2.
Gets(n, m, m2) == \E k \in Nat : RunFor(n, m, k) = m2

LEMMA GetsNowhere ==
  ASSUME NEW n, NEW m
  PROVE  Gets(n, m, m)
BY RunForSteps DEF Gets

LEMMA GetsOn ==
  ASSUME NEW n, NEW m, NEW m2, NEW m3, Gets(n, m, m2), Gets(n, m2, m3)
  PROVE  Gets(n, m, m3)
<1>1. PICK j \in Nat : RunFor(n, m, j) = m2
  BY DEF Gets
<1>2. PICK k \in Nat : RunFor(n, m2, k) = m3
  BY DEF Gets
<1>3. RunFor(n, m, j + k) = m3
  BY <1>1, <1>2, RunForSum
<1>4. j + k \in Nat
  OBVIOUS
<1> QED
  BY <1>3, <1>4 DEF Gets

\* A machine that has not returned.
Running(m) == m.end = ""

LEMMA GetsStep ==
  ASSUME NEW n, NEW m, Running(m)
  PROVE  Gets(n, m, Exec(n, m))
<1>1. RunFor(n, m, 0 + 1) = Advanced(n, RunFor(n, m, 0)) /\ RunFor(n, m, 0) = m
  BY RunForSteps
<1>2. Advanced(n, m) = Exec(n, m)
  BY Zenon DEF Advanced, Running
<1>3. RunFor(n, m, 1) = Exec(n, m)
  BY <1>1, <1>2
<1> QED
  BY <1>3 DEF Gets

-------------------------------------------------------------------------------
(* What each operation does to a machine.                                   *)

Places == Regs \cup {Scratch}
IsMachine(m) ==
  /\ m = [at |-> m.at, regs |-> m.regs, frame |-> m.frame, args |-> m.args, out |-> m.out,
          end |-> m.end, value |-> m.value, guessed |-> m.guessed]
  /\ m.regs = [x \in Places |-> m.regs[x]]
  /\ m.frame = [s \in Slots |-> m.frame[s]]

\* m, some place else with these registers and slots, and these arguments.
With(m, at, regs, frame, args, out, guessed) ==
  [at |-> at, regs |-> regs, frame |-> frame, args |-> args, out |-> out,
   end |-> m.end, value |-> m.value, guessed |-> guessed]

LEMMA WithFacts ==
  ASSUME NEW m, NEW at, NEW regs, NEW frame, NEW args, NEW out, NEW guessed,
         regs = [x \in Places |-> regs[x]], frame = [s \in Slots |-> frame[s]]
  PROVE  LET w == With(m, at, regs, frame, args, out, guessed)
         IN  /\ IsMachine(w) /\ w.at = at /\ w.regs = regs /\ w.frame = frame
             /\ w.args = args /\ w.out = out /\ w.guessed = guessed
             /\ w.end = m.end /\ w.value = m.value
BY DEF With, IsMachine

Junked == [x \in Places |-> Junk]

\* The operation m is at.
OpOf(n, m) == n.ops[m.at]

\* The values of these registers.
ValuesOf(m, xs) == [k \in DOMAIN xs |-> m.regs[xs[k]]]
After1(m, checked) == IF checked THEN Junked ELSE m.regs

LEMMA NextFacts ==
  ASSUME NEW m, IsMachine(m), NEW checked
  PROVE  LET next == [m EXCEPT !.at = @ + 1]
         IN  (IF checked THEN Clobbered(next) ELSE next) =
                With(m, m.at + 1, After1(m, checked), m.frame, m.args, m.out, m.guessed)
<1> DEFINE next == [m EXCEPT !.at = @ + 1]
<1>1. next = With(m, m.at + 1, m.regs, m.frame, m.args, m.out, m.guessed)
  BY DEF IsMachine, With
<1>2. Clobbered(next) = With(m, m.at + 1, Junked, m.frame, m.args, m.out, m.guessed)
  <2>1. Clobbered(next) = [next EXCEPT !.regs = [y0 \in DOMAIN next.regs |-> Junk]]
    BY DEF Clobbered
  <2>2. next.regs = m.regs /\ DOMAIN m.regs = Places
    BY <1>1 DEF With, IsMachine
  <2> HIDE DEF next
  <2> QED
    BY <1>1, <2>1, <2>2 DEF With, Junked
<1> HIDE DEF next
<1> QED
  BY <1>1, <1>2, Zenon DEF After1, next

LEMMA ExecStore ==
  ASSUME NEW n, NEW m, IsMachine(m), NEW y, NEW s, OpOf(n, m) = <<"store", y, s>>
  PROVE  Exec(n, m) = With(m, m.at + 1, m.regs, [m.frame EXCEPT ![s] = m.regs[y]], m.args, m.out, m.guessed)
<1> DEFINE o == n.ops[m.at]
           next == [m EXCEPT !.at = @ + 1]
<1>1. o[1] = "store" /\ o[2] = y /\ o[3] = s
  BY DEF OpOf
<1>2. TRUE
  BY <1>1
<1>3. Exec(n, m) = [next EXCEPT !.frame[o[3]] = m.regs[o[2]]]
  BY <1>1, <1>2, Zenon DEF Exec
<1>4. next = With(m, m.at + 1, m.regs, m.frame, m.args, m.out, m.guessed)
  BY NextFacts, Zenon DEF After1
<1> HIDE DEF next, o
<1> QED
  BY <1>1, <1>3, <1>4 DEF With

LEMMA ExecLoad ==
  ASSUME NEW n, NEW m, IsMachine(m), NEW x, NEW s, OpOf(n, m) = <<"load", x, s>>
  PROVE  Exec(n, m) = With(m, m.at + 1, [m.regs EXCEPT ![x] = m.frame[s]], m.frame, m.args, m.out, m.guessed)
<1> DEFINE o == n.ops[m.at]
           next == [m EXCEPT !.at = @ + 1]
<1>1. o[1] = "load" /\ o[2] = x /\ o[3] = s
  BY DEF OpOf
<1>2. /\ o[1] # "store"
  BY <1>1
<1>3. Exec(n, m) = [next EXCEPT !.regs[o[2]] = m.frame[o[3]]]
  BY <1>1, <1>2, Zenon DEF Exec
<1>4. next = With(m, m.at + 1, m.regs, m.frame, m.args, m.out, m.guessed)
  BY NextFacts, Zenon DEF After1
<1> HIDE DEF next, o
<1> QED
  BY <1>1, <1>3, <1>4 DEF With

LEMMA ExecCopy ==
  ASSUME NEW n, NEW m, IsMachine(m), NEW x, NEW y, OpOf(n, m) = <<"copy", x, y>>
  PROVE  Exec(n, m) = With(m, m.at + 1, [m.regs EXCEPT ![x] = m.regs[y]], m.frame, m.args, m.out, m.guessed)
<1> DEFINE o == n.ops[m.at]
           next == [m EXCEPT !.at = @ + 1]
<1>1. o[1] = "copy" /\ o[2] = x /\ o[3] = y
  BY DEF OpOf
<1>2. /\ o[1] # "store" /\ o[1] # "load"
  BY <1>1
<1>3. Exec(n, m) = [next EXCEPT !.regs[o[2]] = m.regs[o[3]]]
  BY <1>1, <1>2, Zenon DEF Exec
<1>4. next = With(m, m.at + 1, m.regs, m.frame, m.args, m.out, m.guessed)
  BY NextFacts, Zenon DEF After1
<1> HIDE DEF next, o
<1> QED
  BY <1>1, <1>3, <1>4 DEF With

LEMMA ExecZero ==
  ASSUME NEW n, NEW m, IsMachine(m), OpOf(n, m) = <<"zero">>
  PROVE  Exec(n, m) = With(m, m.at + 1, [m.regs EXCEPT ![0] = Num(0)], m.frame, m.args, m.out, m.guessed)
<1> DEFINE o == n.ops[m.at]
           next == [m EXCEPT !.at = @ + 1]
<1>1. o[1] = "zero"
  BY DEF OpOf
<1>2. /\ o[1] # "store" /\ o[1] # "load" /\ o[1] # "copy"
  BY <1>1
<1>3. Exec(n, m) = [next EXCEPT !.regs[0] = Num(0)]
  BY <1>1, <1>2, Zenon DEF Exec
<1>4. next = With(m, m.at + 1, m.regs, m.frame, m.args, m.out, m.guessed)
  BY NextFacts, Zenon DEF After1
<1> HIDE DEF next, o
<1> QED
  BY <1>1, <1>3, <1>4 DEF With

LEMMA ExecJump ==
  ASSUME NEW n, NEW m, IsMachine(m), NEW t, OpOf(n, m) = <<"jump", t>>
  PROVE  Exec(n, m) = With(m, n.label[t], m.regs, m.frame, m.args, m.out, m.guessed)
<1> DEFINE o == n.ops[m.at]
           next == [m EXCEPT !.at = @ + 1]
<1>1. o[1] = "jump" /\ o[2] = t
  BY DEF OpOf
<1>2. /\ o[1] # "store" /\ o[1] # "load" /\ o[1] # "copy" /\ o[1] # "zero" /\ o[1] # "set"
      /\ o[1] # "test"
  BY <1>1
<1>3. Exec(n, m) = [m EXCEPT !.at = n.label[o[2]]]
  BY <1>1, <1>2, Zenon DEF Exec
<1> QED
  BY <1>1, <1>3 DEF With, IsMachine

LEMMA ExecPush ==
  ASSUME NEW n, NEW m, IsMachine(m), NEW s, OpOf(n, m) = <<"push", s>>
  PROVE  Exec(n, m) = With(m, m.at + 1, Junked, m.frame, Append(m.args, m.frame[s]), m.out, m.guessed)
<1> DEFINE o == n.ops[m.at]
           next == [m EXCEPT !.at = @ + 1]
           y == Clobbered(next)
           a == Append(m.args, m.frame[s])
<1>1. o[1] = "push" /\ o[2] = s
  BY DEF OpOf
<1>2. /\ o[1] # "store" /\ o[1] # "load" /\ o[1] # "copy" /\ o[1] # "zero" /\ o[1] # "set"
      /\ o[1] # "test" /\ o[1] # "jump" /\ o[1] # "call"
  BY <1>1
<1>3. Exec(n, m) = [y EXCEPT !.args = Append(@, m.frame[o[2]])]
  BY <1>1, <1>2, Zenon DEF Exec
<1>4. y = With(m, m.at + 1, Junked, m.frame, m.args, m.out, m.guessed)
  BY NextFacts, Zenon DEF After1
<1> HIDE DEF next, o, y
<1>5. y.args = m.args
  BY <1>4 DEF With
<1>6. Exec(n, m) = [y EXCEPT !.args = a]
  BY <1>1, <1>3, <1>5, Zenon
<1> HIDE DEF a
<1>7. Exec(n, m) = With(m, m.at + 1, Junked, m.frame, a, m.out, m.guessed)
  BY <1>4, <1>6 DEF With
<1> QED
  BY <1>7 DEF a

LEMMA ExecBuiltin ==
  ASSUME NEW n, NEW m, IsMachine(m), NEW s, OpOf(n, m) = <<"builtin", s>>
  PROVE  Exec(n, m) = With(m, m.at + 1, Junked, [m.frame EXCEPT ![s] = None], <<>>,
                           Append(m.out, <<"out", m.args>>), m.guessed)
<1> DEFINE o == n.ops[m.at]
           next == [m EXCEPT !.at = @ + 1]
           y == Clobbered(next)
           a == Append(m.out, <<"out", m.args>>)
           b == <<>>
           z == [y EXCEPT !.frame[s] = None]
           f == [m.frame EXCEPT ![s] = None]
<1>1. o[1] = "builtin" /\ o[2] = s
  BY DEF OpOf
<1>2. /\ o[1] # "store" /\ o[1] # "load" /\ o[1] # "copy" /\ o[1] # "zero" /\ o[1] # "set"
      /\ o[1] # "test" /\ o[1] # "jump" /\ o[1] # "call" /\ o[1] # "push"
  BY <1>1
<1>3. Exec(n, m) = [y EXCEPT !.frame[o[2]] = None, !.args = <<>>, !.out = Append(@, <<"out", m.args>>)]
  BY <1>1, <1>2, Zenon DEF Exec
<1>4. y = With(m, m.at + 1, Junked, m.frame, m.args, m.out, m.guessed)
  BY NextFacts, Zenon DEF After1
<1> HIDE DEF next, o, y
<1>5. y.out = m.out
  BY <1>4 DEF With
<1>6. Exec(n, m) = [y EXCEPT !.frame[s] = None, !.args = b, !.out = a]
  BY <1>1, <1>3, <1>5, Zenon
<1>7. z = With(m, m.at + 1, Junked, f, m.args, m.out, m.guessed)
  BY <1>4 DEF With
<1> HIDE DEF a, b
<1>8. Exec(n, m) = [z EXCEPT !.args = b, !.out = a]
  BY <1>4, <1>6 DEF With
<1> HIDE DEF z, f
<1>9. Exec(n, m) = With(m, m.at + 1, Junked, f, b, a, m.guessed)
  BY <1>7, <1>8 DEF With
<1> QED
  BY <1>9 DEF a, b, f

\* It has guessed, or does now.
NowGuessed(m, i, vs, checked) == m.guessed \/ Guesses(i, vs, checked)

\* m, once it has set x.
SetTo(m, x, i, vs, checked) ==
  With(m, m.at + 1, [After1(m, checked) EXCEPT ![x] = Outcome(i, vs, checked)],
       m.frame, m.args, m.out, NowGuessed(m, i, vs, checked))

LEMMA ExecSet ==
  ASSUME NEW n, NEW m, IsMachine(m), NEW x \in Places, NEW i, NEW xs, NEW checked,
         OpOf(n, m) = <<"set", x, i, xs, checked>>
  PROVE  Exec(n, m) = SetTo(m, x, i, ValuesOf(m, xs), checked)
<1> DEFINE o == n.ops[m.at]
           next == [m EXCEPT !.at = @ + 1]
           vs == ValuesOf(m, xs)
           y == IF checked THEN Clobbered(next) ELSE next
           v == Outcome(i, vs, checked)
           g == NowGuessed(m, i, vs, checked)
<1>1. o[1] = "set" /\ o[2] = x /\ o[3] = i /\ o[4] = xs /\ o[5] = checked
  BY DEF OpOf
<1>2. o[1] # "store" /\ o[1] # "load" /\ o[1] # "copy" /\ o[1] # "zero"
  BY <1>1
<1>3. Exec(n, m) = [y EXCEPT !.regs[x] = v, !.guessed = @ \/ Guesses(i, vs, checked)]
  BY <1>1, <1>2, Zenon DEF Exec, ValuesOf
<1>4. y = With(m, m.at + 1, After1(m, checked), m.frame, m.args, m.out, m.guessed)
  BY NextFacts
<1>5. y.guessed = m.guessed
  <2> HIDE DEF y
  <2> QED
    BY <1>4 DEF With
<1>6. Exec(n, m) = [y EXCEPT !.regs[x] = v, !.guessed = g]
  BY <1>3, <1>5, Zenon DEF NowGuessed
<1> DEFINE z == [y EXCEPT !.regs[x] = v]
           f == [After1(m, checked) EXCEPT ![x] = v]
<1> HIDE DEF v, g, y, o, next
<1>7. z = With(m, m.at + 1, f, m.frame, m.args, m.out, m.guessed)
  BY <1>4 DEF With
<1>8. Exec(n, m) = [z EXCEPT !.guessed = g]
  BY <1>4, <1>6 DEF With
<1> HIDE DEF z, f
<1>9. Exec(n, m) = With(m, m.at + 1, f, m.frame, m.args, m.out, g)
  BY <1>7, <1>8 DEF With
<1> QED
  BY <1>9, Zenon DEF f, v, g, vs, SetTo

\* Whether a test jumps.
TestSays(i, vs, checked) ==
  IF i[1] \in CmpOps THEN Truthy(Outcome(i, vs, checked)) ELSE Outcome(i, vs, checked)

\* m, once it has tested.
TestTo(n, m, yes, i, vs, checked, t) ==
  With(m, IF TestSays(i, vs, checked) = yes THEN n.label[t] ELSE m.at + 1,
       After1(m, checked), m.frame, m.args, m.out, NowGuessed(m, i, vs, checked))

LEMMA ExecTest ==
  ASSUME NEW n, NEW m, IsMachine(m), NEW yes, NEW i, NEW xs, NEW checked, NEW t,
         OpOf(n, m) = <<"test", yes, i, xs, checked, t>>
  PROVE  Exec(n, m) = TestTo(n, m, yes, i, ValuesOf(m, xs), checked, t)
<1> DEFINE o == n.ops[m.at]
           next == [m EXCEPT !.at = @ + 1]
           vs == ValuesOf(m, xs)
           y == IF checked THEN Clobbered(next) ELSE next
           taken == TestSays(i, vs, checked)
           a == IF taken = yes THEN n.label[t] ELSE m.at + 1
           g == NowGuessed(m, i, vs, checked)
<1>1. o[1] = "test" /\ o[2] = yes /\ o[3] = i /\ o[4] = xs /\ o[5] = checked /\ o[6] = t
  BY DEF OpOf
<1>2. o[1] # "store" /\ o[1] # "load" /\ o[1] # "copy" /\ o[1] # "zero" /\ o[1] # "set"
  BY <1>1
<1>3. Exec(n, m) = [y EXCEPT !.at = IF taken = yes THEN n.label[t] ELSE @,
                             !.guessed = @ \/ Guesses(i, vs, checked)]
  <2> DEFINE us == ValuesOf(m, o[4])
  <2>1. Exec(n, m) = [(IF o[5] THEN Clobbered(next) ELSE next) EXCEPT
                        !.at = IF TestSays(o[3], us, o[5]) = o[2] THEN n.label[o[6]] ELSE @,
                        !.guessed = @ \/ Guesses(o[3], us, o[5])]
    BY <1>1, <1>2, Zenon DEF Exec, ValuesOf, TestSays
  <2> QED
    BY <1>1, <2>1, Zenon
<1>4. y = With(m, m.at + 1, After1(m, checked), m.frame, m.args, m.out, m.guessed)
  BY NextFacts
<1>5. y.guessed = m.guessed /\ y.at = m.at + 1
  <2> HIDE DEF y
  <2> QED
    BY <1>4 DEF With
<1>6. Exec(n, m) = [y EXCEPT !.at = a, !.guessed = g]
  BY <1>3, <1>5, Zenon DEF NowGuessed
<1> HIDE DEF a, g, y, o, next
<1>9. Exec(n, m) = With(m, a, After1(m, checked), m.frame, m.args, m.out, g)
  BY <1>4, <1>6 DEF With
<1> QED
  BY <1>9, Zenon DEF a, g, taken, vs, TestTo

LEMMA ExecCall ==
  ASSUME NEW n, NEW m, IsMachine(m), NEW k, OpOf(n, m) = <<"call", k>>
  PROVE  LET args == [j \in 1 .. k |-> m.regs[j - 1]]
         IN  Exec(n, m) = With(m, m.at + 1, [Junked EXCEPT ![0] = CallResult(args)], m.frame,
                               m.args, Append(m.out, <<"call", args>>), m.guessed)
<1> DEFINE o == n.ops[m.at]
           next == [m EXCEPT !.at = @ + 1]
           args == [j \in 1 .. k |-> m.regs[j - 1]]
           y == Clobbered(next)
           v == CallResult(args)
           u == Append(m.out, <<"call", args>>)
<1>1. o[1] = "call" /\ o[2] = k
  BY DEF OpOf
<1>2. /\ o[1] # "store" /\ o[1] # "load" /\ o[1] # "copy" /\ o[1] # "zero" /\ o[1] # "set"
      /\ o[1] # "test" /\ o[1] # "jump"
  BY <1>1
<1>3. Exec(n, m) = [y EXCEPT !.regs[0] = v, !.out = Append(@, <<"call", args>>)]
  BY <1>1, <1>2, Zenon DEF Exec
<1>4. y = With(m, m.at + 1, Junked, m.frame, m.args, m.out, m.guessed)
  <2>1. After1(m, TRUE) = Junked
    BY DEF After1
  <2> QED
    BY <2>1, NextFacts
<1>5. y.out = m.out
  <2> HIDE DEF y
  <2> QED
    BY <1>4 DEF With
<1>6. Exec(n, m) = [y EXCEPT !.regs[0] = v, !.out = u]
  BY <1>3, <1>5, Zenon DEF NowGuessed
<1> DEFINE z == [y EXCEPT !.regs[0] = v]
           f == [Junked EXCEPT ![0] = v]
<1> HIDE DEF v, u, y, o, next
<1>7. z = With(m, m.at + 1, f, m.frame, m.args, m.out, m.guessed)
  BY <1>4 DEF With
<1>8. Exec(n, m) = [z EXCEPT !.out = u]
  BY <1>4, <1>6 DEF With
<1> HIDE DEF z, f
<1>9. Exec(n, m) = With(m, m.at + 1, f, m.frame, m.args, u, m.guessed)
  BY <1>7, <1>8 DEF With
<1> QED
  BY <1>9 DEF f, v, u

LEMMA ExecReturn ==
  ASSUME NEW n, NEW m, IsMachine(m), NEW op, OpOf(n, m) = <<"return", op>>
  PROVE  /\ Exec(n, m).end = "returned" /\ Exec(n, m).value = Boxed(n.kind, m.regs[0])
         /\ Exec(n, m).out = m.out
         /\ Exec(n, m).guessed = (m.guessed \/ Misjudged(n.kind, op, m.regs[0]))
<1> DEFINE o == n.ops[m.at]
           v == Boxed(n.kind, m.regs[0])
           g == m.guessed \/ Misjudged(n.kind, op, m.regs[0])
<1>1. o[1] = "return" /\ o[2] = op
  BY DEF OpOf
<1>2. /\ o[1] # "store" /\ o[1] # "load" /\ o[1] # "copy" /\ o[1] # "zero" /\ o[1] # "set"
      /\ o[1] # "test" /\ o[1] # "jump" /\ o[1] # "call" /\ o[1] # "push" /\ o[1] # "builtin"
  BY <1>1
<1>3. Exec(n, m) = [m EXCEPT !.end = "returned", !.value = v, !.guessed = g]
  BY <1>1, <1>2, Zenon DEF Exec
<1> HIDE DEF v, g, o
<1>4. Exec(n, m).end = "returned" /\ Exec(n, m).value = v /\ Exec(n, m).out = m.out /\ Exec(n, m).guessed = g
  BY <1>3 DEF IsMachine
<1> QED
  BY <1>4 DEF v, g

-------------------------------------------------------------------------------
(* Emitters, and how they grow.                                             *)

IsSeq(s) == \E T : s \in Seq(T)
Begins(s, t) == Len(s) <= Len(t) /\ \A k \in 1 .. Len(s) : t[k] = s[k]

LEMMA AppendFacts ==
  ASSUME NEW s, IsSeq(s), NEW x
  PROVE  /\ IsSeq(Append(s, x)) /\ Len(s) \in Nat /\ Len(Append(s, x)) = Len(s) + 1
         /\ Append(s, x)[Len(s) + 1] = x /\ Begins(s, Append(s, x))
<1>1. PICK T : s \in Seq(T)
  BY DEF IsSeq
<1>2. s \in Seq(T \cup {x}) /\ x \in T \cup {x}
  BY <1>1
<1>3. Append(s, x) \in Seq(T \cup {x})
  BY <1>2
<1>4. /\ Len(s) \in Nat /\ Len(Append(s, x)) = Len(s) + 1 /\ Append(s, x)[Len(s) + 1] = x
      /\ \A k \in 1 .. Len(s) : Append(s, x)[k] = s[k]
  BY <1>2
<1> QED
  BY <1>3, <1>4 DEF IsSeq, Begins

LEMMA BeginsItself ==
  ASSUME NEW s, IsSeq(s)
  PROVE  Begins(s, s) /\ Len(s) \in Nat
<1>1. Len(s) \in Nat
  BY DEF IsSeq
<1> QED
  BY <1>1 DEF Begins

LEMMA BeginsOn ==
  ASSUME NEW s, NEW t, NEW u, IsSeq(s), IsSeq(t), Len(u) \in Nat, Begins(s, t), Begins(t, u)
  PROVE  Begins(s, u)
<1>1. Len(s) \in Nat /\ Len(t) \in Nat
  BY DEF IsSeq
<1> QED
  BY <1>1 DEF Begins

IsEmitter(e) ==
  /\ e = [reg |-> e.reg, dirty |-> e.dirty, ops |-> e.ops, label |-> e.label, snap |-> e.snap,
          pc |-> e.pc, flaws |-> e.flaws]
  /\ e.reg \in [Regs -> Slots \cup {Empty}] /\ e.dirty \subseteq Regs /\ IsSeq(e.ops)

\* e with another cache, and more operations or flaws.
Made(e, reg, dirty, ops, flaws) ==
  [reg |-> reg, dirty |-> dirty, ops |-> ops, label |-> e.label, snap |-> e.snap,
   pc |-> e.pc, flaws |-> flaws]

LEMMA MadeFacts ==
  ASSUME NEW e, NEW reg, NEW dirty, NEW ops, NEW flaws,
         reg \in [Regs -> Slots \cup {Empty}], dirty \subseteq Regs, IsSeq(ops)
  PROVE  LET w == Made(e, reg, dirty, ops, flaws)
         IN  /\ IsEmitter(w) /\ w.reg = reg /\ w.dirty = dirty /\ w.ops = ops /\ w.flaws = flaws
             /\ w.label = e.label /\ w.snap = e.snap /\ w.pc = e.pc
BY DEF Made, IsEmitter

\* e2 has what e has, and may have more.
Later(e, e2) == /\ IsEmitter(e2) /\ e2.pc = e.pc /\ e2.label = e.label
                /\ e.flaws \subseteq e2.flaws /\ Begins(e.ops, e2.ops)
Adds(e, e2) == Later(e, e2) /\ e2.snap = e.snap

LEMMA LaterItself ==
  ASSUME NEW e, IsEmitter(e)
  PROVE  Adds(e, e) /\ Later(e, e)
BY BeginsItself DEF IsEmitter, Adds, Later

LEMMA LaterOn ==
  ASSUME NEW e, NEW e2, NEW e3, IsEmitter(e), Later(e, e2), Later(e2, e3)
  PROVE  Later(e, e3)
<1>1. IsSeq(e.ops) /\ IsSeq(e2.ops) /\ IsSeq(e3.ops)
  BY DEF IsEmitter, Later
<1>2. Len(e3.ops) \in Nat
  BY <1>1, BeginsItself
<1>3. Begins(e.ops, e3.ops)
  BY <1>1, <1>2, BeginsOn DEF Later
<1> QED
  BY <1>3 DEF Later

LEMMA AddsOn ==
  ASSUME NEW e, NEW e2, NEW e3, IsEmitter(e), Adds(e, e2), Adds(e2, e3)
  PROVE  Adds(e, e3)
BY LaterOn DEF Adds

LEMMA MadeAdds ==
  ASSUME NEW e, IsEmitter(e), NEW reg, NEW dirty, NEW ops, NEW flaws,
         reg \in [Regs -> Slots \cup {Empty}], dirty \subseteq Regs, IsSeq(ops),
         Begins(e.ops, ops), e.flaws \subseteq flaws
  PROVE  Adds(e, Made(e, reg, dirty, ops, flaws))
<1> DEFINE w == Made(e, reg, dirty, ops, flaws)
<1>1. /\ IsEmitter(w) /\ w.reg = reg /\ w.dirty = dirty /\ w.ops = ops /\ w.flaws = flaws
      /\ w.label = e.label /\ w.snap = e.snap /\ w.pc = e.pc
  BY MadeFacts
<1> HIDE DEF w
<1>2. Adds(e, w)
  BY <1>1 DEF Adds, Later
<1> QED
  BY <1>2 DEF w

-------------------------------------------------------------------------------
(* What the steps of the emitters are.                                      *)

LEMMA ThenIs ==
  ASSUME NEW e, IsEmitter(e), NEW op
  PROVE  /\ Then(e, op) = Made(e, e.reg, e.dirty, Append(e.ops, op), e.flaws)
         /\ Adds(e, Then(e, op))
<1> DEFINE ops == Append(e.ops, op)
<1>1. Then(e, op) = [e EXCEPT !.ops = ops]
  BY Zenon DEF Then
<1>2. IsSeq(ops) /\ Begins(e.ops, ops)
  BY AppendFacts DEF IsEmitter
<1> HIDE DEF ops
<1>3. Then(e, op) = Made(e, e.reg, e.dirty, ops, e.flaws)
  BY <1>1 DEF Made, IsEmitter
<1>4. Adds(e, Made(e, e.reg, e.dirty, ops, e.flaws))
  BY <1>2, MadeAdds DEF IsEmitter
<1> QED
  BY <1>3, <1>4 DEF ops

LEMMA FlawedIs ==
  ASSUME NEW e, IsEmitter(e), NEW name, NEW if \in BOOLEAN
  PROVE  /\ Flawed(e, name, if) = Made(e, e.reg, e.dirty, e.ops, IF if THEN e.flaws \cup {name} ELSE e.flaws)
         /\ Adds(e, Flawed(e, name, if))
         /\ if => Flawed(e, name, if).flaws # {}
         /\ Flawed(e, name, if).reg = e.reg /\ Flawed(e, name, if).dirty = e.dirty
         /\ Flawed(e, name, if).ops = e.ops
<1> DEFINE flaws == IF if THEN e.flaws \cup {name} ELSE e.flaws
<1>1. Flawed(e, name, if) = Made(e, e.reg, e.dirty, e.ops, flaws)
  <2>1. CASE if
    BY <2>1 DEF Flawed, Made, IsEmitter
  <2>2. CASE ~if
    BY <2>2 DEF Flawed, Made, IsEmitter
  <2> QED
    BY <2>1, <2>2
<1>2. e.flaws \subseteq flaws /\ (if => flaws # {})
  OBVIOUS
<1>3. Adds(e, Made(e, e.reg, e.dirty, e.ops, flaws))
  <2> HIDE DEF flaws
  <2> QED
    BY <1>2, BeginsItself, MadeAdds DEF IsEmitter
<1>4. /\ Made(e, e.reg, e.dirty, e.ops, flaws).flaws = flaws
      /\ Made(e, e.reg, e.dirty, e.ops, flaws).reg = e.reg
      /\ Made(e, e.reg, e.dirty, e.ops, flaws).dirty = e.dirty
      /\ Made(e, e.reg, e.dirty, e.ops, flaws).ops = e.ops
  BY DEF Made
<1> HIDE DEF flaws
<1> QED
  BY <1>1, <1>2, <1>3, <1>4 DEF flaws

\* The operations once x is stored.
StoredOps(e, x) == IF x \in e.dirty THEN Append(e.ops, <<"store", x, e.reg[x]>>) ELSE e.ops

LEMMA StoredOpsFacts ==
  ASSUME NEW e, IsEmitter(e), NEW x
  PROVE  IsSeq(StoredOps(e, x)) /\ Begins(e.ops, StoredOps(e, x))
BY AppendFacts, BeginsItself DEF StoredOps, IsEmitter

LEMMA StoreIs ==
  ASSUME NEW e, IsEmitter(e), NEW x \in Regs
  PROVE  /\ Store(e, x) = Made(e, e.reg, e.dirty \ {x}, StoredOps(e, x), e.flaws)
         /\ Adds(e, Store(e, x))
<1>1. Store(e, x) = Made(e, e.reg, e.dirty \ {x}, StoredOps(e, x), e.flaws)
  <2>1. CASE x \in e.dirty
    <3> DEFINE op == <<"store", x, e.reg[x]>>
               ops == Append(e.ops, op)
    <3>1. Then(e, op) = Made(e, e.reg, e.dirty, ops, e.flaws)
      BY ThenIs
    <3>2. Store(e, x) = [Then(e, op) EXCEPT !.dirty = @ \ {x}]
      BY <2>1 DEF Store
    <3>3. StoredOps(e, x) = ops
      BY <2>1 DEF StoredOps
    <3> HIDE DEF op, ops
    <3> QED
      BY <3>1, <3>2, <3>3 DEF Made
  <2>2. CASE x \notin e.dirty
    <3>1. Store(e, x) = e /\ StoredOps(e, x) = e.ops /\ e.dirty \ {x} = e.dirty
      BY <2>2 DEF Store, StoredOps
    <3> QED
      BY <3>1 DEF Made, IsEmitter
  <2> QED
    BY <2>1, <2>2
<1>2. Adds(e, Made(e, e.reg, e.dirty \ {x}, StoredOps(e, x), e.flaws))
  BY StoredOpsFacts, MadeAdds DEF IsEmitter
<1> QED
  BY <1>1, <1>2

LEMMA EvictIs ==
  ASSUME NEW e, IsEmitter(e), NEW x \in Regs
  PROVE  /\ Evict(e, x) = Made(e, [e.reg EXCEPT ![x] = Empty], e.dirty \ {x}, StoredOps(e, x), e.flaws)
         /\ Adds(e, Evict(e, x))
<1> DEFINE ops == StoredOps(e, x)
           dirty == e.dirty \ {x}
           reg == [e.reg EXCEPT ![x] = Empty]
<1>1. Store(e, x) = Made(e, e.reg, dirty, ops, e.flaws)
  BY StoreIs
<1>2. Evict(e, x) = [Store(e, x) EXCEPT !.reg[x] = Empty]
  BY DEF Evict
<1>3. reg \in [Regs -> Slots \cup {Empty}] /\ dirty \subseteq Regs
  BY DEF IsEmitter
<1> HIDE DEF ops, dirty
<1>4. Evict(e, x) = Made(e, reg, dirty, ops, e.flaws)
  BY <1>1, <1>2 DEF Made
<1> HIDE DEF reg
<1>5. Adds(e, Made(e, reg, dirty, ops, e.flaws))
  <2>1. IsSeq(ops) /\ Begins(e.ops, ops)
    BY StoredOpsFacts DEF ops
  <2> QED
    BY <1>3, <2>1, MadeAdds
<1> QED
  BY <1>4, <1>5 DEF ops, dirty, reg

Nothing == [x \in Regs |-> Empty]

LEMMA ClearedIs ==
  ASSUME NEW e, IsEmitter(e)
  PROVE  /\ Cleared(e) = Made(e, Nothing, {}, e.ops, e.flaws)
         /\ Adds(e, Cleared(e))
<1>1. Nothing \in [Regs -> Slots \cup {Empty}]
  BY DEF Nothing
<1>2. Cleared(e) = [e EXCEPT !.reg = Nothing, !.dirty = {}]
  BY DEF Cleared, Nothing
<1>3. Cleared(e) = Made(e, Nothing, {}, e.ops, e.flaws)
  BY <1>2 DEF Made, IsEmitter
<1>4. Adds(e, Made(e, Nothing, {}, e.ops, e.flaws))
  <2>1. IsSeq(e.ops) /\ Begins(e.ops, e.ops)
    BY BeginsItself DEF IsEmitter
  <2> QED
    BY <1>1, <2>1, MadeAdds
<1> QED
  BY <1>3, <1>4

\* The registers once x, and x alone, holds s.
PutRegs(e, x, s) == [y \in Regs |-> IF y = x THEN s ELSE IF e.reg[y] = s THEN Empty ELSE e.reg[y]]

\* x may give up its slot.
MayLose(cx, e, x, s) == \E y \in {x} \cap e.dirty : e.reg[y] # s /\ e.reg[y] \in cx.live[e.pc + 1]

LEMMA PutIs ==
  ASSUME NEW cx, NEW e, IsEmitter(e), NEW x \in Regs, NEW s \in Slots
  PROVE  /\ Adds(e, Put(cx, e, x, s))
         /\ Put(cx, e, x, s).reg = PutRegs(e, x, s)
         /\ Put(cx, e, x, s).dirty = (e.dirty \ Holding(e, s)) \cup {x}
         /\ Put(cx, e, x, s).ops = e.ops
         /\ Put(cx, e, x, s).flaws = {} =>
              ~(x \in e.dirty /\ e.reg[x] # s /\ e.reg[x] \in cx.live[e.pc + 1])
<1> DEFINE a == Abandon(cx, e, {x}, s)
           reg == PutRegs(e, x, s)
           dirty == (e.dirty \ Holding(e, s)) \cup {x}
           p == Put(cx, e, x, s)
<1>1. /\ a = Made(e, e.reg, e.dirty, e.ops, a.flaws)
      /\ e.flaws \subseteq a.flaws /\ (MayLose(cx, e, x, s) => a.flaws # {})
  <2> DEFINE lost == MayLose(cx, e, x, s)
             fl == IF lost THEN e.flaws \cup {"lostValue"} ELSE e.flaws
  <2>1. a = Flawed(e, "lostValue", lost)
    BY DEF Abandon, MayLose
  <2>0. lost \in BOOLEAN
    BY DEF MayLose
  <2> HIDE DEF lost
  <2>2. a = Made(e, e.reg, e.dirty, e.ops, fl)
    BY <2>0, <2>1, FlawedIs
  <2>3. e.flaws \subseteq fl /\ (MayLose(cx, e, x, s) => fl # {})
    BY DEF lost
  <2> HIDE DEF fl, a
  <2>4. a.flaws = fl
    BY <2>2 DEF Made
  <2> QED
    BY <2>2, <2>3, <2>4
<1>2. reg \in [Regs -> Slots \cup {Empty}] /\ dirty \subseteq Regs
  BY DEF IsEmitter, PutRegs, Holding
<1>3. p = [a EXCEPT !.reg = reg, !.dirty = dirty]
  <2>1. a.reg = e.reg /\ a.dirty = e.dirty
    <3> HIDE DEF a
    <3> QED
      BY <1>1 DEF Made
  <2>2. p = [a EXCEPT !.reg = [y \in Regs |-> IF y = x THEN s ELSE IF a.reg[y] = s THEN Empty ELSE a.reg[y]],
                      !.dirty = (a.dirty \ Holding(e, s)) \cup {x}]
    BY DEF Put
  <2> QED
    BY <2>1, <2>2, Zenon DEF PutRegs
<1> DEFINE fl == a.flaws
<1> HIDE DEF a, reg, dirty, p, fl
<1>4. p = Made(e, reg, dirty, e.ops, fl)
  <2>1. a = Made(e, e.reg, e.dirty, e.ops, fl)
    BY <1>1 DEF fl
  <2> QED
    BY <1>3, <2>1 DEF Made
<1>5. Adds(e, p)
  <2>1. IsSeq(e.ops) /\ Begins(e.ops, e.ops)
    BY BeginsItself DEF IsEmitter
  <2>2. e.flaws \subseteq fl
    BY <1>1 DEF fl
  <2> QED
    BY <1>2, <1>4, <2>1, <2>2, MadeAdds
<1>6. p.reg = reg /\ p.dirty = dirty /\ p.ops = e.ops /\ p.flaws = fl
  BY <1>4 DEF Made
<1>7. p.flaws = {} => ~(x \in e.dirty /\ e.reg[x] # s /\ e.reg[x] \in cx.live[e.pc + 1])
  BY <1>1, <1>6 DEF MayLose, fl
<1> QED
  BY <1>5, <1>6, <1>7 DEF reg, dirty, p, fl

LEMMA PutKeeps ==
  ASSUME NEW cx, NEW e, IsEmitter(e), NEW x \in Regs, NEW s \in Slots, Put(cx, e, x, s).flaws = {},
         x \in e.dirty, e.reg[x] # s
  PROVE  e.reg[x] \notin cx.live[e.pc + 1]
BY PutIs

LEMMA PutAdds ==
  ASSUME NEW cx, NEW e, IsEmitter(e), NEW x \in Regs, NEW s \in Slots
  PROVE  Adds(e, Put(cx, e, x, s)) /\ Put(cx, e, x, s).ops = e.ops
<1>1. Adds(e, Put(cx, e, x, s))
  BY PutIs, Zenon
<1>2. Put(cx, e, x, s).ops = e.ops
  BY PutIs
<1> QED
  BY <1>1, <1>2

-------------------------------------------------------------------------------
(* A cache over a frame, and the values of a function.                      *)

\* For the slots of S the registers and the frame together have the values V.
Agrees(reg, dirty, regs, frame, V, S) ==
  /\ \A x \in Regs : reg[x] \in S => regs[x] = V[reg[x]]
  /\ \A s \in S : (\A x \in dirty : reg[x] # s) => frame[s] = V[s]

LEMMA EmptyIsNoSlot ==
  Empty \notin Slots /\ Regs \subseteq Places /\ Scratch \in Places /\ Scratch \notin Regs /\ 0 \in Regs /\ 1 \in Regs
BY FrameAssumption, CacheAssumption DEF Empty, Slots, Regs, Places, Scratch

IsCache(reg, dirty) == reg \in [Regs -> Slots \cup {Empty}] /\ dirty \subseteq Regs

LEMMA AgreesStored ==
  ASSUME NEW reg, NEW dirty, NEW regs, NEW frame, NEW V, NEW S \in SUBSET Slots,
         IsCache(reg, dirty), frame = [s \in Slots |-> frame[s]],
         Agrees(reg, dirty, regs, frame, V, S), NEW x \in Regs
  PROVE  Agrees(reg, dirty \ {x}, regs, [frame EXCEPT ![reg[x]] = regs[x]], V, S)
<1> DEFINE new == [frame EXCEPT ![reg[x]] = regs[x]]
<1>1. ASSUME NEW s \in S, \A y \in dirty \ {x} : reg[y] # s
      PROVE  new[s] = V[s]
  <2>1. CASE reg[x] = s
    BY <2>1 DEF Agrees
  <2>2. CASE reg[x] # s
    <3>1. \A y \in dirty : reg[y] # s
      BY <1>1, <2>2
    <3> QED
      BY <2>2, <3>1 DEF Agrees
  <2> QED
    BY <2>1, <2>2
<1> HIDE DEF new
<1> QED
  BY <1>1 DEF Agrees, new

LEMMA AgreesEvicted ==
  ASSUME NEW reg, NEW dirty, NEW regs, NEW frame, NEW V, NEW S \in SUBSET Slots,
         IsCache(reg, dirty), Agrees(reg, dirty, regs, frame, V, S), NEW x \in Regs \ dirty
  PROVE  Agrees([reg EXCEPT ![x] = Empty], dirty, regs, frame, V, S)
<1> DEFINE new == [reg EXCEPT ![x] = Empty]
<1>1. new[x] = Empty /\ \A y \in Regs : y # x => new[y] = reg[y]
  BY DEF IsCache
<1> HIDE DEF new
<1>2. Agrees(new, dirty, regs, frame, V, S)
  BY <1>1, EmptyIsNoSlot DEF Agrees, IsCache
<1> QED
  BY <1>2 DEF new

LEMMA AgreesLoaded ==
  ASSUME NEW reg, NEW dirty, NEW regs, NEW frame, NEW V, NEW S \in SUBSET Slots,
         IsCache(reg, dirty), regs = [y \in Places |-> regs[y]],
         Agrees(reg, dirty, regs, frame, V, S), NEW x \in Regs \ dirty, NEW s \in S,
         \A y \in dirty : reg[y] # s
  PROVE  Agrees([reg EXCEPT ![x] = s], dirty, [regs EXCEPT ![x] = frame[s]], frame, V, S)
<1> DEFINE new == [reg EXCEPT ![x] = s]
           vals == [regs EXCEPT ![x] = frame[s]]
<1>1. new[x] = s /\ \A y \in Regs : y # x => new[y] = reg[y]
  BY DEF IsCache
<1>2. vals[x] = frame[s] /\ \A y \in Regs : y # x => vals[y] = regs[y]
  BY EmptyIsNoSlot
<1> HIDE DEF new, vals
<1>3. frame[s] = V[s]
  BY DEF Agrees
<1>4. Agrees(new, dirty, vals, frame, V, S)
  BY <1>1, <1>2, <1>3 DEF Agrees, IsCache
<1> QED
  BY <1>4 DEF new, vals

\* So it does for all registers but x.
AgreesBut(x, reg, dirty, regs, frame, V, S) ==
  /\ \A y \in Regs : y # x /\ reg[y] \in S => regs[y] = V[reg[y]]
  /\ \A s \in S : (\A y \in dirty : reg[y] # s) => frame[s] = V[s]

\* V2 has, for the slots of S2 but d, the values of V for those of S.
AlsoHas(V, S, V2, S2, d) == \A s \in S2 : s # d => s \in S /\ V2[s] = V[s]

\* Once x holds slot d: the slots of S2 but d keep their values, and d has that
\* of x, unless x held another of them that no other place has.
LEMMA AgreesPut ==
  ASSUME NEW e, NEW regs, NEW frame, NEW V, NEW V2, NEW S, NEW S2 \in SUBSET Slots,
         IsCache(e.reg, e.dirty), NEW x \in Regs, NEW d \in Slots,
         AgreesBut(x, e.reg, e.dirty, regs, frame, V, S), regs[x] = V2[d],
         AlsoHas(V, S, V2, S2, d),
         ~(x \in e.dirty /\ e.reg[x] # d /\ e.reg[x] \in S2)
  PROVE  Agrees(PutRegs(e, x, d), (e.dirty \ Holding(e, d)) \cup {x}, regs, frame, V2, S2)
<1> DEFINE new == PutRegs(e, x, d)
           dirty == (e.dirty \ Holding(e, d)) \cup {x}
<1>1. /\ new[x] = d
      /\ \A y \in Regs : y # x => new[y] = (IF e.reg[y] = d THEN Empty ELSE e.reg[y])
  BY DEF PutRegs
<1>2. \A y : y \in dirty <=> y = x \/ (y \in e.dirty /\ e.reg[y] # d)
  BY DEF Holding, IsCache
<1> HIDE DEF new, dirty
<1>3. ASSUME NEW y \in Regs, new[y] \in S2 PROVE regs[y] = V2[new[y]]
  BY <1>1, <1>3, EmptyIsNoSlot DEF AgreesBut, AlsoHas
<1>4. ASSUME NEW s \in S2, \A y \in dirty : new[y] # s PROVE frame[s] = V2[s]
  <2>1. s # d
    BY <1>1, <1>2, <1>4
  <2>2. ASSUME NEW y \in e.dirty PROVE e.reg[y] # s
    <3>1. CASE y = x
      BY <2>1, <3>1
    <3>2. CASE y # x
      BY <1>1, <1>2, <1>4, <2>1, <3>2 DEF IsCache
    <3> QED
      BY <3>1, <3>2
  <2> QED
    BY <2>1, <2>2 DEF AgreesBut, AlsoHas
<1> QED
  BY <1>3, <1>4 DEF Agrees, new, dirty

\* An empty cache agrees whatever the registers, if the frame does.
LEMMA AgreesNothing ==
  ASSUME NEW reg, NEW regs, NEW regs2, NEW frame, NEW V, NEW S \in SUBSET Slots,
         Agrees(reg, {}, regs, frame, V, S)
  PROVE  Agrees(Nothing, {}, regs2, frame, V, S)
BY EmptyIsNoSlot DEF Agrees, Nothing

\* The values of fewer slots.
LEMMA AgreesLess ==
  ASSUME NEW reg, NEW dirty, NEW regs, NEW frame, NEW V, NEW V2, NEW S, NEW S2,
         Agrees(reg, dirty, regs, frame, V, S), S2 \subseteq S, \A s \in S2 : V2[s] = V[s]
  PROVE  Agrees(reg, dirty, regs, frame, V2, S2)
BY DEF Agrees

-------------------------------------------------------------------------------
(* Machine code that does what a function does.                             *)

\* Machine m, at the end of what e has emitted, is where a frame f is, as far
\* as the slots of S go.
Sim(e, m, f, S) ==
  /\ IsMachine(m) /\ Running(m) /\ m.at = Len(e.ops) + 1
  /\ m.args = f.args /\ m.out = f.out
  /\ Agrees(e.reg, e.dirty, m.regs, m.frame, f.regs, S)

HasOps(n, ops) == Begins(ops, n.ops)
Guessed(m) == m.guessed = TRUE

\* What e2 has emitted behind e takes f to f2.
Does(n, e, e2, f, S, f2, S2) ==
  HasOps(n, e2.ops) /\ e2.flaws = {} =>
    \A m : Sim(e, m, f, S) =>
      \E m2 : Gets(n, m, m2) /\ (Guessed(m2) \/ Sim(e2, m2, f2, S2))

LEMMA HasOpsBefore ==
  ASSUME NEW n, IsSeq(n.ops), NEW e, IsEmitter(e), NEW e2, Later(e, e2), HasOps(n, e2.ops)
  PROVE  HasOps(n, e.ops)
<1>1. IsSeq(e.ops) /\ IsSeq(e2.ops) /\ Begins(e.ops, e2.ops) /\ Len(n.ops) \in Nat
  BY BeginsItself DEF Later, IsEmitter
<1> QED
  BY <1>1, BeginsOn DEF HasOps

LEMMA DoesOn ==
  ASSUME NEW n, IsSeq(n.ops), NEW e, NEW e2, NEW e3, NEW f, NEW f2, NEW f3, NEW S, NEW S2, NEW S3,
         IsEmitter(e2), Later(e2, e3), Does(n, e, e2, f, S, f2, S2), Does(n, e2, e3, f2, S2, f3, S3)
  PROVE  Does(n, e, e3, f, S, f3, S3)
<1> SUFFICES ASSUME HasOps(n, e3.ops), e3.flaws = {}, NEW m, Sim(e, m, f, S)
             PROVE  \E m2 : Gets(n, m, m2) /\ (Guessed(m2) \/ Sim(e3, m2, f3, S3))
  BY DEF Does
<1>1. HasOps(n, e2.ops)
  BY HasOpsBefore
<1>2. e2.flaws = {}
  BY DEF Later
<1>3. PICK m1 : Gets(n, m, m1) /\ (Guessed(m1) \/ Sim(e2, m1, f2, S2))
  BY <1>1, <1>2 DEF Does
<1>4. CASE Guessed(m1)
  BY <1>3, <1>4
<1>5. CASE Sim(e2, m1, f2, S2)
  <2>1. PICK m2 : Gets(n, m1, m2) /\ (Guessed(m2) \/ Sim(e3, m2, f3, S3))
    BY <1>5 DEF Does
  <2>2. Gets(n, m, m2)
    BY <1>3, <2>1, GetsOn
  <2> QED
    BY <2>1, <2>2
<1> QED
  BY <1>3, <1>4, <1>5

LEMMA DoesNothing ==
  ASSUME NEW n, NEW e, NEW f, NEW S
  PROVE  Does(n, e, e, f, S, f, S)
BY GetsNowhere DEF Does

\* The operation at the end of what has been emitted.
LEMMA OpHere ==
  ASSUME NEW n, IsSeq(n.ops), NEW ops, IsSeq(ops), NEW op, HasOps(n, Append(ops, op))
  PROVE  n.ops[Len(ops) + 1] = op /\ Len(Append(ops, op)) = Len(ops) + 1
<1>1. /\ IsSeq(Append(ops, op)) /\ Len(ops) \in Nat /\ Len(Append(ops, op)) = Len(ops) + 1
      /\ Append(ops, op)[Len(ops) + 1] = op
  BY AppendFacts
<1> QED
  BY <1>1 DEF HasOps, Begins

\* A machine that has done one operation.
LEMMA SimWith ==
  ASSUME NEW m, Running(m), NEW e2, NEW f2, NEW S2, NEW at, NEW regs, NEW frame, NEW g, NEW m2,
         m2 = With(m, at, regs, frame, f2.args, f2.out, g), at = Len(e2.ops) + 1,
         regs = [x \in Places |-> regs[x]], frame = [s \in Slots |-> frame[s]],
         Agrees(e2.reg, e2.dirty, regs, frame, f2.regs, S2)
  PROVE  Sim(e2, m2, f2, S2)
<1>1. /\ IsMachine(m2) /\ m2.at = at /\ m2.regs = regs /\ m2.frame = frame
      /\ m2.args = f2.args /\ m2.out = f2.out /\ m2.end = m.end
  BY WithFacts
<1>2. Running(m2)
  BY <1>1, Zenon DEF Running
<1> QED
  BY <1>1, <1>2 DEF Sim

\* A register is stored, and all keep what they have.
LEMMA StoreStep ==
  ASSUME NEW n, IsSeq(n.ops), NEW e, IsEmitter(e), NEW x \in Regs, NEW f, NEW S \in SUBSET Slots,
         HasOps(n, Store(e, x).ops), NEW m, Sim(e, m, f, S)
  PROVE  \E m2 : Gets(n, m, m2) /\ Sim(Store(e, x), m2, f, S) /\ m2.regs = m.regs
<1> DEFINE e2 == Store(e, x)
<1>1. /\ e2.reg = e.reg /\ e2.dirty = e.dirty \ {x} /\ e2.ops = StoredOps(e, x)
  BY StoreIs DEF Made
<1> HIDE DEF e2
<1>2. IsCache(e.reg, e.dirty)
  BY DEF IsEmitter, IsCache
<1>3. CASE x \notin e.dirty
  <2>1. e2.dirty = e.dirty /\ e2.ops = e.ops
    BY <1>1, <1>3 DEF StoredOps
  <2>2. Sim(e2, m, f, S)
    BY <1>1, <2>1 DEF Sim
  <2> QED
    BY <2>2, GetsNowhere DEF e2
<1>4. CASE x \in e.dirty
  <2> DEFINE op == <<"store", x, e.reg[x]>>
             frame == [m.frame EXCEPT ![e.reg[x]] = m.regs[x]]
             m2 == Exec(n, m)
  <2>0. HasOps(n, e2.ops)
    BY DEF e2
  <2>1. e2.ops = Append(e.ops, op)
    BY <1>1, <1>4 DEF StoredOps
  <2>2. OpOf(n, m) = op /\ m.at + 1 = Len(e2.ops) + 1
    <3>1. m.at = Len(e.ops) + 1
      BY DEF Sim
    <3> HIDE DEF op
    <3> QED
      BY <2>0, <2>1, <3>1, OpHere DEF OpOf, IsEmitter
  <2>3. m2 = With(m, m.at + 1, m.regs, frame, m.args, m.out, m.guessed)
    BY <2>2, ExecStore DEF Sim
  <2>4. Agrees(e2.reg, e2.dirty, m.regs, frame, f.regs, S)
    <3>1. m.frame = [s \in Slots |-> m.frame[s]]
      BY DEF Sim, IsMachine
    <3>2. Agrees(e.reg, e.dirty, m.regs, m.frame, f.regs, S)
      BY DEF Sim
    <3> QED
      BY <1>1, <1>2, <3>1, <3>2, AgreesStored
  <2>5. /\ m.regs = [y \in Places |-> m.regs[y]] /\ frame = [s \in Slots |-> frame[s]]
        /\ m.args = f.args /\ m.out = f.out /\ Running(m)
    BY DEF Sim, IsMachine
  <2>6. Gets(n, m, m2)
    BY <2>5, GetsStep
  <2> HIDE DEF frame, m2
  <2>7. Sim(e2, m2, f, S)
    BY <2>2, <2>3, <2>4, <2>5, SimWith
  <2>8. m2.regs = m.regs
    BY <2>3 DEF With
  <2> QED
    BY <2>6, <2>7, <2>8 DEF e2
<1> QED
  BY <1>3, <1>4

LEMMA StoreDoes ==
  ASSUME NEW n, IsSeq(n.ops), NEW e, IsEmitter(e), NEW x \in Regs, NEW f, NEW S \in SUBSET Slots
  PROVE  Does(n, e, Store(e, x), f, S, f, S)
BY StoreStep DEF Does

LEMMA EvictDoes ==
  ASSUME NEW n, IsSeq(n.ops), NEW e, IsEmitter(e), NEW x \in Regs, NEW f, NEW S \in SUBSET Slots
  PROVE  Does(n, e, Evict(e, x), f, S, f, S)
<1> DEFINE e1 == Store(e, x)
           e2 == Evict(e, x)
<1>1. /\ e1.reg = e.reg /\ e1.dirty = e.dirty \ {x} /\ e1.ops = StoredOps(e, x) /\ e1.flaws = e.flaws
  BY StoreIs DEF Made
<1>2. /\ e2.reg = [e.reg EXCEPT ![x] = Empty] /\ e2.dirty = e.dirty \ {x} /\ e2.ops = StoredOps(e, x)
      /\ e2.flaws = e.flaws
  BY EvictIs DEF Made
<1>3. Does(n, e, e1, f, S, f, S)
  BY StoreDoes
<1> HIDE DEF e1, e2
<1>4. ASSUME NEW m, Sim(e1, m, f, S) PROVE Sim(e2, m, f, S)
  <2>1. IsCache(e1.reg, e1.dirty) /\ x \in Regs \ e1.dirty
    BY <1>1 DEF IsEmitter, IsCache
  <2>2. Agrees(e2.reg, e2.dirty, m.regs, m.frame, f.regs, S)
    BY <1>1, <1>2, <1>4, <2>1, AgreesEvicted DEF Sim
  <2> QED
    BY <1>1, <1>2, <1>4, <2>2 DEF Sim
<1>5. Does(n, e, e2, f, S, f, S)
  BY <1>1, <1>2, <1>3, <1>4 DEF Does
<1> QED
  BY <1>5 DEF e2

-------------------------------------------------------------------------------
(* Writing back and loading.                                                *)

Under(xs, k) == {x \in xs : x < k}

LEMMA UnderFacts ==
  ASSUME NEW xs \in SUBSET Regs, NEW k \in Nat
  PROVE  /\ Under(xs, 0) = {} /\ Under(xs, CacheRegs) = xs
         /\ k \in xs => Under(xs, k + 1) = Under(xs, k) \cup {k}
         /\ k \notin xs => Under(xs, k + 1) = Under(xs, k)
<1>1. \A x \in xs : x \in Nat /\ x < CacheRegs
  BY CacheAssumption DEF Regs
<1>2. \A j, x : x \in Under(xs, j) <=> x \in xs /\ x < j
  BY DEF Under
<1>3. \A x \in xs : (x < k + 1 <=> x < k \/ x = k) /\ ~(x < 0)
  BY <1>1
<1> QED
  BY <1>1, <1>2, <1>3

\* What e2 is, and does, once the registers of xs are stored.
Stores(n, e, e2, xs, f, S) ==
  /\ Adds(e, e2) /\ e2.reg = e.reg /\ e2.dirty = e.dirty \ xs /\ e2.flaws = e.flaws
  /\ Does(n, e, e2, f, S, f, S)

LEMMA StoreAllStores ==
  ASSUME NEW n, IsSeq(n.ops), NEW e, IsEmitter(e), NEW xs \in SUBSET Regs, NEW f,
         NEW S \in SUBSET Slots
  PROVE  Stores(n, e, StoreAll(e, xs), xs, f, S)
<1>1. CacheRegs \in Nat
  BY CacheAssumption
<1>2. PICK run : IsStoring(run, e, xs, CacheRegs) /\ StoreAll(e, xs) = run[CacheRegs]
  BY <1>1, StoreAllIs
<1> DEFINE T == {k \in Nat : k <= CacheRegs => Stores(n, e, run[k], Under(xs, k), f, S)}
<1>3. 0 \in T
  <2>1. 0 \in 0 .. CacheRegs
    BY <1>1
  <2>2. run[0] = e
    BY <1>2, <2>1 DEF IsStoring
  <2>3. Under(xs, 0) = {}
    BY UnderFacts
  <2>4. Adds(e, e) /\ Does(n, e, e, f, S, f, S)
    BY LaterItself, DoesNothing
  <2> QED
    BY <2>2, <2>3, <2>4 DEF Stores
<1>4. ASSUME NEW k \in Nat, k \in T PROVE k + 1 \in T
  <2> SUFFICES ASSUME k + 1 <= CacheRegs
               PROVE  Stores(n, e, run[k + 1], Under(xs, k + 1), f, S)
    OBVIOUS
  <2> DEFINE e1 == run[k]
             e2 == run[k + 1]
  <2>1. Stores(n, e, e1, Under(xs, k), f, S)
    BY <1>1, <1>4
  <2>2. e2 = StoreIf(e1, xs, k)
    <3>1. k + 1 \in 0 .. CacheRegs /\ k + 1 # 0 /\ (k + 1) - 1 = k
      BY <1>1
    <3> QED
      BY <1>2, <3>1 DEF IsStoring
  <2>3. IsEmitter(e1)
    BY <2>1 DEF Stores, Adds, Later
  <2>4. k \in Regs
    BY <1>1 DEF Regs
  <2> HIDE DEF e1, e2
  <2>5. CASE k \in xs
    <3>1. e2 = Store(e1, k)
      BY <2>2, <2>5 DEF StoreIf
    <3>2. Under(xs, k + 1) = Under(xs, k) \cup {k}
      BY <2>5, UnderFacts
    <3>3. /\ Adds(e1, e2) /\ e2.reg = e1.reg /\ e2.dirty = e1.dirty \ {k} /\ e2.flaws = e1.flaws
      BY <2>3, <2>4, <3>1, StoreIs DEF Made
    <3>4. Does(n, e1, e2, f, S, f, S)
      BY <2>3, <2>4, <3>1, StoreDoes
    <3>5. Does(n, e, e2, f, S, f, S)
      BY <2>1, <2>3, <3>3, <3>4, DoesOn DEF Stores, Adds
    <3>6. Adds(e, e2)
      BY <2>1, <3>3, AddsOn DEF Stores
    <3>7. e2.dirty = e.dirty \ Under(xs, k + 1)
      BY <2>1, <3>2, <3>3 DEF Stores
    <3> QED
      BY <2>1, <3>3, <3>5, <3>6, <3>7 DEF Stores, e2
  <2>6. CASE k \notin xs
    <3>1. e2 = e1
      BY <2>2, <2>6 DEF StoreIf
    <3>2. Under(xs, k + 1) = Under(xs, k)
      BY <2>6, UnderFacts
    <3> QED
      BY <2>1, <3>1, <3>2 DEF e2
  <2> QED
    BY <2>5, <2>6
<1>5. \A k \in Nat : k \in T
  <2> HIDE DEF T
  <2> QED
    BY <1>3, <1>4, AllNaturals
<1>6. Stores(n, e, run[CacheRegs], Under(xs, CacheRegs), f, S)
  BY <1>1, <1>5
<1>7. Under(xs, CacheRegs) = xs
  BY UnderFacts
<1> QED
  BY <1>2, <1>6, <1>7

LEMMA ClearedDoes ==
  ASSUME NEW n, NEW e, IsEmitter(e), e.dirty = {}, NEW f, NEW S \in SUBSET Slots
  PROVE  Does(n, e, Cleared(e), f, S, f, S)
<1> DEFINE e2 == Cleared(e)
<1>1. e2.reg = Nothing /\ e2.dirty = {} /\ e2.ops = e.ops
  BY ClearedIs DEF Made
<1> HIDE DEF e2
<1>2. ASSUME NEW m, Sim(e, m, f, S) PROVE Sim(e2, m, f, S)
  <2>1. Agrees(e2.reg, e2.dirty, m.regs, m.frame, f.regs, S)
    BY <1>1, <1>2, AgreesNothing DEF Sim
  <2> QED
    BY <1>1, <1>2, <2>1 DEF Sim
<1>3. Does(n, e, e2, f, S, f, S)
  BY <1>2, GetsNowhere DEF Does
<1> QED
  BY <1>3 DEF e2

\* The cache is empty, and everything in memory.
Flushes(n, e, e2, f, S) ==
  /\ Adds(e, e2) /\ e2.reg = Nothing /\ e2.dirty = {} /\ e2.flaws = e.flaws
  /\ Does(n, e, e2, f, S, f, S)

LEMMA FlushFlushes ==
  ASSUME NEW n, IsSeq(n.ops), NEW e, IsEmitter(e), NEW f, NEW S \in SUBSET Slots
  PROVE  Flushes(n, e, Flush(e), f, S)
<1> DEFINE e1 == StoreAll(e, Regs)
           e2 == Flush(e)
<1>1. Stores(n, e, e1, Regs, f, S)
  BY StoreAllStores
<1>2. IsEmitter(e1) /\ e1.dirty = {}
  BY <1>1 DEF Stores, Adds, Later, IsEmitter
<1>3. e2 = Cleared(e1)
  BY DEF Flush
<1> HIDE DEF e1, e2
<1>4. /\ Adds(e1, e2) /\ e2.reg = Nothing /\ e2.dirty = {} /\ e2.flaws = e1.flaws
  BY <1>2, <1>3, ClearedIs DEF Made
<1>5. Does(n, e1, e2, f, S, f, S)
  BY <1>2, <1>3, ClearedDoes
<1>6. Does(n, e, e2, f, S, f, S)
  BY <1>1, <1>2, <1>4, <1>5, DoesOn DEF Stores, Adds
<1>7. Adds(e, e2)
  BY <1>1, <1>4, AddsOn DEF Stores
<1> QED
  BY <1>1, <1>4, <1>6, <1>7 DEF Flushes, Stores, e2

\* There is a victim.
LEMMA VictimIs ==
  ASSUME NEW e, IsEmitter(e), NEW excl, Regs \ excl # {}
  PROVE  Victim(e, excl) \in Regs \ excl
<1> DEFINE R == Regs \ excl
           Rank(x) == e.reg[x] + 1
           T == {Rank(x) : x \in R}
<1>1. \A x \in R : e.reg[x] \in Int /\ Rank(x) \in Nat
  BY FrameAssumption DEF IsEmitter, Slots, Empty
<1>2. PICK r \in T : \A k \in T : r <= k
  <2>1. T \subseteq Nat /\ T # {}
    BY <1>1
  <2> HIDE DEF T
  <2> QED
    BY <2>1, Least
<1> DEFINE U == {x \in R : Rank(x) = r}
<1>3. PICK x \in U : \A y \in U : x <= y
  <2>1. U \subseteq Nat
    BY CacheAssumption DEF Regs
  <2>2. U # {}
    BY <1>2
  <2> HIDE DEF U
  <2> QED
    BY <2>1, <2>2, Least
<1>4. x \in R /\ \A y \in R : e.reg[x] < e.reg[y] \/ (e.reg[x] = e.reg[y] /\ x <= y)
  <2>1. x \in R /\ Rank(x) = r
    BY <1>3
  <2> SUFFICES ASSUME NEW y \in R
               PROVE  e.reg[x] < e.reg[y] \/ (e.reg[x] = e.reg[y] /\ x <= y)
    BY <2>1
  <2>2. r <= Rank(y)
    BY <1>2
  <2>3. CASE Rank(y) = r
    BY <1>1, <1>3, <2>1, <2>3
  <2>4. CASE Rank(y) # r
    BY <1>1, <2>1, <2>2, <2>4
  <2> QED
    BY <2>3, <2>4
<1>5. \E z \in Regs \ excl : \A y \in Regs \ excl :
          e.reg[z] < e.reg[y] \/ (e.reg[z] = e.reg[y] /\ z <= y)
  BY <1>4
<1> QED
  BY <1>5, Zenon DEF Victim

\* Some register is left when two are taken.
LEMMA ThirdRegister ==
  ASSUME NEW x, NEW y
  PROVE  Regs \ {x, y} # {} /\ Regs \ {x} # {} /\ Regs \ {} # {}
<1>1. 0 \in Regs /\ 1 \in Regs /\ 2 \in Regs
  BY CacheAssumption DEF Regs
<1> QED
  BY <1>1

LEMMA LoadIntoIs ==
  ASSUME NEW e, IsEmitter(e), NEW x \in Regs, NEW s \in Slots
  PROVE  /\ Adds(e, LoadInto(e, x, s))
         /\ LoadInto(e, x, s).reg = [e.reg EXCEPT ![x] = s]
         /\ LoadInto(e, x, s).dirty = e.dirty \ {x}
         /\ LoadInto(e, x, s).ops = Append(Evict(e, x).ops, <<"load", x, s>>)
         /\ LoadInto(e, x, s).flaws = e.flaws
<1> DEFINE op == <<"load", x, s>>
           e1 == Evict(e, x)
           e2 == Then(e1, op)
           e3 == LoadInto(e, x, s)
           reg == [e.reg EXCEPT ![x] = s]
           ops == Append(e1.ops, op)
<1>1. Adds(e, e1) /\ e1.reg = [e.reg EXCEPT ![x] = Empty] /\ e1.dirty = e.dirty \ {x} /\ e1.flaws = e.flaws
  BY EvictIs DEF Made
<1>2. IsEmitter(e1)
  BY <1>1 DEF Adds, Later
<1> HIDE DEF e1, op
<1>3. Adds(e1, e2) /\ e2 = Made(e1, e1.reg, e1.dirty, ops, e1.flaws)
  BY <1>2, ThenIs
<1>4. IsEmitter(e2)
  BY <1>3 DEF Adds, Later
<1>5. e3 = [e2 EXCEPT !.reg[x] = s]
  BY DEF LoadInto, e1, op
<1> HIDE DEF e2, e3, ops
<1>6. [e1.reg EXCEPT ![x] = s] = reg /\ reg \in [Regs -> Slots \cup {Empty}]
  BY <1>1 DEF IsEmitter
<1>7. e3 = Made(e1, [e1.reg EXCEPT ![x] = s], e1.dirty, ops, e1.flaws)
  BY <1>3, <1>5 DEF Made
<1> HIDE DEF reg
<1>8. e3 = Made(e1, reg, e1.dirty, ops, e1.flaws)
  BY <1>6, <1>7
<1>9. Adds(e1, Made(e1, reg, e1.dirty, ops, e1.flaws))
  <2>1. IsSeq(ops) /\ Begins(e1.ops, ops) /\ e1.dirty \subseteq Regs
    BY <1>2, AppendFacts DEF IsEmitter, ops
  <2> QED
    BY <1>2, <1>6, <2>1, MadeAdds
<1>10. Adds(e, e3)
  BY <1>1, <1>8, <1>9, AddsOn
<1>11. e3.reg = reg /\ e3.dirty = e1.dirty /\ e3.ops = ops /\ e3.flaws = e1.flaws
  BY <1>8 DEF Made
<1> QED
  BY <1>1, <1>10, <1>11 DEF e3, reg, ops, op, e1

LEMMA LoadIntoDoes ==
  ASSUME NEW n, IsSeq(n.ops), NEW e, IsEmitter(e), NEW x \in Regs, NEW f, NEW S \in SUBSET Slots,
         NEW s \in S, ~Cached(e, s)
  PROVE  Does(n, e, LoadInto(e, x, s), f, S, f, S)
<1> DEFINE op == <<"load", x, s>>
           e1 == Evict(e, x)
           e2 == LoadInto(e, x, s)
<1>1. /\ e1.reg = [e.reg EXCEPT ![x] = Empty] /\ e1.dirty = e.dirty \ {x}
      /\ Adds(e, e1) /\ e1.flaws = e.flaws
  BY EvictIs DEF Made
<1>2. s \in Slots
  OBVIOUS
<1>3. /\ e2.reg = [e.reg EXCEPT ![x] = s] /\ e2.dirty = e.dirty \ {x}
      /\ e2.ops = Append(e1.ops, op) /\ e2.flaws = e.flaws /\ Adds(e, e2)
  BY <1>2, LoadIntoIs
<1>4. Does(n, e, e1, f, S, f, S)
  BY EvictDoes
<1>5. IsEmitter(e1)
  BY <1>1 DEF Adds, Later
<1> HIDE DEF e1, e2
<1>6. Does(n, e1, e2, f, S, f, S)
  <2> SUFFICES ASSUME HasOps(n, e2.ops), NEW m, Sim(e1, m, f, S)
               PROVE  \E m2 : Gets(n, m, m2) /\ Sim(e2, m2, f, S)
    BY DEF Does
  <2> DEFINE regs == [m.regs EXCEPT ![x] = m.frame[s]]
             m2 == Exec(n, m)
  <2>1. OpOf(n, m) = op /\ m.at + 1 = Len(e2.ops) + 1
    <3>1. m.at = Len(e1.ops) + 1 /\ e2.ops = Append(e1.ops, op)
      BY <1>3 DEF Sim
    <3> HIDE DEF op
    <3> QED
      BY <1>5, <3>1, OpHere DEF OpOf, IsEmitter
  <2>2. m2 = With(m, m.at + 1, regs, m.frame, m.args, m.out, m.guessed)
    BY <2>1, ExecLoad DEF Sim
  <2>3. Agrees(e2.reg, e2.dirty, regs, m.frame, f.regs, S)
    <3>1. m.regs = [y \in Places |-> m.regs[y]]
      BY DEF Sim, IsMachine
    <3>2. Agrees(e1.reg, e1.dirty, m.regs, m.frame, f.regs, S)
      BY DEF Sim
    <3>3. e2.reg = [e1.reg EXCEPT ![x] = s] /\ e2.dirty = e1.dirty /\ x \in Regs \ e1.dirty
      BY <1>1, <1>3 DEF IsEmitter
    <3>4. IsCache(e1.reg, e1.dirty)
      BY <1>5 DEF IsEmitter, IsCache
    <3>5. \A y \in e1.dirty : e1.reg[y] # s
      BY <1>1, EmptyIsNoSlot DEF Cached, Holding, IsEmitter
    <3> QED
      BY <3>1, <3>2, <3>3, <3>4, <3>5, AgreesLoaded
  <2>4. /\ m.frame = [r \in Slots |-> m.frame[r]] /\ regs = [y \in Places |-> regs[y]]
        /\ m.args = f.args /\ m.out = f.out /\ Running(m)
    BY DEF Sim, IsMachine
  <2>5. Gets(n, m, m2)
    BY <2>4, GetsStep
  <2> HIDE DEF regs, m2
  <2>6. Sim(e2, m2, f, S)
    BY <2>1, <2>2, <2>3, <2>4, SimWith
  <2> QED
    BY <2>5, <2>6
<1>7. Later(e1, e2)
  <2>1. IsEmitter(e2) /\ e2.pc = e.pc /\ e2.label = e.label
    BY <1>3 DEF Adds, Later
  <2>2. Begins(e1.ops, e2.ops)
    BY <1>3, <1>5, AppendFacts DEF IsEmitter
  <2> QED
    BY <1>1, <1>3, <2>1, <2>2 DEF Adds, Later
<1>8. Does(n, e, e2, f, S, f, S)
  BY <1>4, <1>5, <1>6, <1>7, DoesOn
<1> QED
  BY <1>8 DEF e2

\* Slot s is in a register, and what the registers of excl hold they hold still.
Loads(n, e, e2, s, excl, f, S) ==
  /\ Adds(e, e2) /\ e2.flaws = e.flaws
  /\ Home(e2, s) \in Regs /\ e2.reg[Home(e2, s)] = s
  /\ \A x \in Regs \cap excl : e2.reg[x] = e.reg[x]
  /\ Does(n, e, e2, f, S, f, S)

LEMMA HomeIs ==
  ASSUME NEW e, NEW s, NEW x \in Regs, e.reg[x] = s
  PROVE  Home(e, s) \in Regs /\ e.reg[Home(e, s)] = s /\ Cached(e, s)
<1>1. \E y \in Regs : e.reg[y] = s
  OBVIOUS
<1>2. Home(e, s) \in Regs /\ e.reg[Home(e, s)] = s
  BY <1>1, Zenon DEF Home
<1> QED
  BY <1>2 DEF Cached, Holding

LEMMA LoadLoads ==
  ASSUME NEW n, IsSeq(n.ops), NEW e, IsEmitter(e), NEW f, NEW S \in SUBSET Slots,
         NEW s \in S, NEW excl, Regs \ excl # {}
  PROVE  Loads(n, e, Load(e, s, excl), s, excl, f, S)
<1>1. CASE Cached(e, s)
  <2>1. Load(e, s, excl) = e
    BY <1>1 DEF Load
  <2>2. PICK x \in Regs : e.reg[x] = s
    BY <1>1 DEF Cached, Holding
  <2>3. Home(e, s) \in Regs /\ e.reg[Home(e, s)] = s
    BY <2>2, HomeIs
  <2> QED
    BY <2>1, <2>3, LaterItself, DoesNothing DEF Loads
<1>2. CASE ~Cached(e, s)
  <2> DEFINE x == IF s % CacheRegs \in excl THEN Victim(e, excl) ELSE s % CacheRegs
             e2 == LoadInto(e, x, s)
  <2>1. s \in Slots /\ s \in Nat
    BY FrameAssumption DEF Slots
  <2>2. x \in Regs /\ x \notin excl
    <3>1. s % CacheRegs \in Regs
      BY <2>1, CacheAssumption DEF Regs
    <3> QED
      BY <3>1, VictimIs
  <2>3. Load(e, s, excl) = e2
    BY <1>2 DEF Load
  <2> HIDE DEF x
  <2>4. Adds(e, e2) /\ e2.reg = [e.reg EXCEPT ![x] = s] /\ e2.flaws = e.flaws
    BY <2>1, <2>2, LoadIntoIs
  <2>5. Does(n, e, e2, f, S, f, S)
    BY <1>2, <2>2, LoadIntoDoes
  <2> HIDE DEF e2
  <2>6. e2.reg[x] = s /\ \A y \in Regs : y # x => e2.reg[y] = e.reg[y]
    BY <2>2, <2>4 DEF IsEmitter
  <2>7. Home(e2, s) \in Regs /\ e2.reg[Home(e2, s)] = s
    BY <2>2, <2>6, HomeIs
  <2>8. \A y \in Regs \cap excl : e2.reg[y] = e.reg[y]
    BY <2>2, <2>6
  <2> QED
    BY <2>3, <2>4, <2>5, <2>7, <2>8 DEF Loads
<1> QED
  BY <1>1, <1>2

-------------------------------------------------------------------------------
(* From one emitter to the next.                                            *)

Emits(n, e, e2, f, S, f2, S2) == Adds(e, e2) /\ Does(n, e, e2, f, S, f2, S2)

LEMMA EmitsOn ==
  ASSUME NEW n, IsSeq(n.ops), NEW e, IsEmitter(e), NEW e2, NEW e3, NEW f, NEW f2, NEW f3,
         NEW S, NEW S2, NEW S3, Emits(n, e, e2, f, S, f2, S2), Emits(n, e2, e3, f2, S2, f3, S3)
  PROVE  Emits(n, e, e3, f, S, f3, S3)
<1>1. IsEmitter(e2) /\ Later(e2, e3)
  BY DEF Emits, Adds, Later
<1>2. Does(n, e, e3, f, S, f3, S3)
  BY <1>1, DoesOn DEF Emits
<1>3. Adds(e, e3)
  BY AddsOn DEF Emits
<1> QED
  BY <1>2, <1>3 DEF Emits

\* f2 is f with another value of slot d.
Wrote(f, f2, d, v) == f2.regs = [f.regs EXCEPT ![d] = v] /\ f2.args = f.args /\ f2.out = f.out

\* A value in register x becomes that of slot d.
LEMMA PutSim ==
  ASSUME NEW cx, NEW e, IsEmitter(e), NEW m, IsMachine(m), Running(m), m.at = Len(e.ops) + 1,
         NEW x \in Regs, NEW d \in Slots, NEW f, NEW f2, NEW v, f.regs = [s \in Slots |-> f.regs[s]],
         Wrote(f, f2, d, v), m.args = f2.args, m.out = f2.out, m.regs[x] = v,
         NEW S \in SUBSET Slots, cx.live[e.pc + 1] \subseteq Slots,
         cx.live[e.pc + 1] \subseteq S \cup {d},
         AgreesBut(x, e.reg, e.dirty, m.regs, m.frame, f.regs, S),
         Put(cx, e, x, d).flaws = {}
  PROVE  Sim(Put(cx, e, x, d), m, f2, cx.live[e.pc + 1])
<1> DEFINE S2 == cx.live[e.pc + 1]
           e2 == Put(cx, e, x, d)
<1>1. /\ e2.reg = PutRegs(e, x, d) /\ e2.dirty = (e.dirty \ Holding(e, d)) \cup {x}
      /\ e2.ops = e.ops
  BY PutIs
<1>2. ~(x \in e.dirty /\ e.reg[x] # d /\ e.reg[x] \in S2)
  BY PutKeeps
<1>3. IsCache(e.reg, e.dirty)
  BY DEF IsEmitter, IsCache
<1>4. f2.regs[d] = v /\ \A s \in Slots : s # d => f2.regs[s] = f.regs[s]
  BY DEF Wrote
<1>5. S2 \in SUBSET Slots /\ AlsoHas(f.regs, S, f2.regs, S2, d)
  BY <1>4 DEF AlsoHas
<1>6. m.regs[x] = f2.regs[d]
  BY <1>4
<1> HIDE DEF S2, e2
<1>7. Agrees(PutRegs(e, x, d), (e.dirty \ Holding(e, d)) \cup {x}, m.regs, m.frame, f2.regs, S2)
  BY <1>2, <1>3, <1>5, <1>6, AgreesPut
<1>8. Sim(e2, m, f2, S2)
  BY <1>1, <1>7 DEF Sim
<1> QED
  BY <1>8 DEF S2, e2

\* The operands' values, and the registers that have them.
Values(f, ss) == [k \in DOMAIN ss |-> f.regs[ss[k]]]
Placed(e, xs, ss) == /\ DOMAIN xs = DOMAIN ss
                     /\ \A k \in DOMAIN ss : xs[k] \in Regs /\ e.reg[xs[k]] = ss[k]

LEMMA PlacedValues ==
  ASSUME NEW e, NEW xs, NEW ss, Placed(e, xs, ss), NEW m, NEW f, NEW S, Sim(e, m, f, S),
         \A k \in DOMAIN ss : ss[k] \in S
  PROVE  ValuesOf(m, xs) = Values(f, ss)
<1>1. \A k \in DOMAIN ss : m.regs[xs[k]] = f.regs[ss[k]]
  BY DEF Placed, Sim, Agrees
<1> QED
  BY <1>1 DEF ValuesOf, Values, Placed

\* A register is set to what an instruction computes, and is that of slot d.
SetPut(cx, e, x, d, i, xs) == Put(cx, Then(e, <<"set", x, i, xs, FALSE>>), x, d)

\* Nothing is guessed of these operands.
Sure(i, vs) == ~Guesses(i, vs, FALSE)

LEMMA SetPutAdds ==
  ASSUME NEW cx, NEW e, IsEmitter(e), NEW x \in Regs, NEW d \in Slots, NEW i, NEW xs
  PROVE  Adds(e, SetPut(cx, e, x, d, i, xs))
<1> DEFINE op == <<"set", x, i, xs, FALSE>>
           e1 == Then(e, op)
<1>1. Adds(e, e1)
  <2> HIDE DEF op
  <2> QED
    BY ThenIs
<1>2. IsEmitter(e1)
  BY <1>1 DEF Adds, Later
<1> HIDE DEF e1
<1>3. Adds(e1, Put(cx, e1, x, d))
  BY <1>2, PutAdds
<1>4. Adds(e, Put(cx, e1, x, d))
  BY <1>1, <1>3, AddsOn
<1> QED
  BY <1>4, Zenon DEF SetPut, e1, op

LEMMA SetPutStep ==
  ASSUME NEW n, IsSeq(n.ops), NEW cx, NEW e, IsEmitter(e), NEW x \in Regs, NEW d \in Slots, NEW i,
         NEW xs, NEW f, NEW f2, NEW v, f.regs = [s \in Slots |-> f.regs[s]], Wrote(f, f2, d, v),
         NEW S \in SUBSET Slots, cx.live[e.pc + 1] \subseteq Slots, cx.live[e.pc + 1] \subseteq S \cup {d},
         NEW m, Sim(e, m, f, S), NEW vs, ValuesOf(m, xs) = vs,
         Sure(i, vs) => Computed(i, vs) = v,
         HasOps(n, SetPut(cx, e, x, d, i, xs).ops), SetPut(cx, e, x, d, i, xs).flaws = {}
  PROVE  \E m2 : /\ Gets(n, m, m2)
                 /\ Guessed(m2) \/ Sim(SetPut(cx, e, x, d, i, xs), m2, f2, cx.live[e.pc + 1])
<1> DEFINE no == FALSE
           op == <<"set", x, i, xs, no>>
           e1 == Then(e, op)
           e2 == Put(cx, e1, x, d)
<1>0. SetPut(cx, e, x, d, i, xs) = e2
  BY Zenon DEF SetPut, no, op, e1, e2
<1> HIDE DEF op, no
<1>1. /\ e1 = Made(e, e.reg, e.dirty, Append(e.ops, op), e.flaws) /\ Adds(e, e1)
  BY ThenIs
<1>2. /\ e1.reg = e.reg /\ e1.dirty = e.dirty /\ e1.ops = Append(e.ops, op) /\ e1.pc = e.pc
      /\ IsEmitter(e1)
  <2> HIDE DEF e1
  <2> QED
    BY <1>1 DEF Made, Adds, Later
<1> HIDE DEF e1
<1>3. Adds(e1, e2) /\ e2.ops = e1.ops
  BY <1>2, PutAdds
<1> DEFINE g == NowGuessed(m, i, vs, no)
           regs == [m.regs EXCEPT ![x] = Outcome(i, vs, no)]
           m2 == Exec(n, m)
<1>4. OpOf(n, m) = op /\ m.at + 1 = Len(e1.ops) + 1
  <2>1. m.at = Len(e.ops) + 1 /\ HasOps(n, Append(e.ops, op))
    BY <1>0, <1>2, <1>3 DEF Sim
  <2> QED
    BY <1>2, <2>1, OpHere DEF OpOf, IsEmitter
<1>5. m2 = With(m, m.at + 1, regs, m.frame, m.args, m.out, g)
  <2>1. IsMachine(m) /\ x \in Places /\ OpOf(n, m) = <<"set", x, i, xs, no>>
    BY <1>4, EmptyIsNoSlot DEF Sim, op
  <2>2. m2 = SetTo(m, x, i, ValuesOf(m, xs), no)
    BY <2>1, ExecSet
  <2>3. After1(m, no) = m.regs
    BY DEF After1, no
  <2> HIDE DEF m2
  <2> QED
    BY <2>2, <2>3, Zenon DEF SetTo
<1>6. /\ m.frame = [r \in Slots |-> m.frame[r]] /\ regs = [y \in Places |-> regs[y]]
      /\ m.args = f.args /\ m.out = f.out /\ Running(m)
  BY DEF Sim, IsMachine
<1>7. Gets(n, m, m2)
  BY <1>6, GetsStep
<1>8. /\ regs[x] = Outcome(i, vs, no) /\ \A y \in Regs : y # x => regs[y] = m.regs[y]
  BY EmptyIsNoSlot DEF Sim, IsMachine
<1> HIDE DEF m2, regs, g
<1>9. /\ IsMachine(m2) /\ m2.at = m.at + 1 /\ m2.regs = regs /\ m2.frame = m.frame
      /\ m2.args = m.args /\ m2.out = m.out /\ m2.guessed = g /\ m2.end = m.end
  BY <1>5, <1>6, WithFacts
<1>10. CASE Guesses(i, vs, no)
  <2>1. Guessed(m2)
    BY <1>9, <1>10, Zenon DEF Guessed, NowGuessed, g
  <2> QED
    BY <1>7, <2>1
<1>11. CASE ~Guesses(i, vs, no)
  <2>1. Outcome(i, vs, no) = v
    BY <1>11 DEF Outcome, no, Sure
  <2>2. Running(m2)
    BY <1>6, <1>9, Zenon DEF Running
  <2>3. /\ m2.regs[x] = v /\ m2.at = Len(e1.ops) + 1 /\ m2.args = f2.args /\ m2.out = f2.out
    BY <1>4, <1>6, <1>8, <1>9, <2>1 DEF Wrote
  <2>4. AgreesBut(x, e1.reg, e1.dirty, m2.regs, m2.frame, f.regs, S)
    <3>1. Agrees(e1.reg, e1.dirty, m.regs, m.frame, f.regs, S)
      BY <1>2 DEF Sim
    <3> QED
      BY <1>8, <1>9, <3>1 DEF Agrees, AgreesBut
  <2>5. e2.flaws = {}
    BY <1>0
  <2>6. Sim(Put(cx, e1, x, d), m2, f2, cx.live[e1.pc + 1])
    BY <1>2, <1>9, <2>2, <2>3, <2>4, <2>5, PutSim
  <2> QED
    BY <1>0, <1>2, <1>7, <2>6
<1> QED
  BY <1>10, <1>11

LEMMA SetPutDoes ==
  ASSUME NEW n, IsSeq(n.ops), NEW cx, NEW e, IsEmitter(e), NEW x \in Regs, NEW d \in Slots, NEW i,
         NEW xs, NEW ss, Placed(e, xs, ss), NEW f, NEW f2, NEW v,
         f.regs = [s \in Slots |-> f.regs[s]], Wrote(f, f2, d, v),
         NEW S \in SUBSET Slots, \A k \in DOMAIN ss : ss[k] \in S,
         cx.live[e.pc + 1] \subseteq Slots, cx.live[e.pc + 1] \subseteq S \cup {d},
         Sure(i, Values(f, ss)) => Computed(i, Values(f, ss)) = v
  PROVE  Emits(n, e, SetPut(cx, e, x, d, i, xs), f, S, f2, cx.live[e.pc + 1])
<1> DEFINE e2 == SetPut(cx, e, x, d, i, xs)
           S2 == cx.live[e.pc + 1]
<1>1. ASSUME HasOps(n, e2.ops), e2.flaws = {}, NEW m, Sim(e, m, f, S)
      PROVE  \E m2 : Gets(n, m, m2) /\ (Guessed(m2) \/ Sim(e2, m2, f2, S2))
  <2>1. ValuesOf(m, xs) = Values(f, ss)
    BY <1>1, PlacedValues
  <2> QED
    BY <1>1, <2>1, SetPutStep
<1>2. Adds(e, e2)
  BY SetPutAdds
<1> HIDE DEF e2, S2
<1>3. Does(n, e, e2, f, S, f2, S2)
  BY <1>1 DEF Does
<1> QED
  BY <1>2, <1>3 DEF Emits, e2, S2

\* A copy in the cache.
LEMMA CopyPutDoes ==
  ASSUME NEW n, NEW cx, NEW e, IsEmitter(e), NEW x \in Regs, NEW d \in Slots,
         NEW f, NEW f2, f.regs = [s \in Slots |-> f.regs[s]],
         NEW S \in SUBSET Slots, e.reg[x] \in S, Wrote(f, f2, d, f.regs[e.reg[x]]),
         cx.live[e.pc + 1] \subseteq Slots, cx.live[e.pc + 1] \subseteq S \cup {d}
  PROVE  Emits(n, e, Put(cx, e, x, d), f, S, f2, cx.live[e.pc + 1])
<1> DEFINE e2 == Put(cx, e, x, d)
           S2 == cx.live[e.pc + 1]
<1>1. Adds(e, e2)
  BY PutAdds
<1>2. ASSUME e2.flaws = {}, NEW m, Sim(e, m, f, S) PROVE Sim(e2, m, f2, S2)
  <2>1. m.regs[x] = f.regs[e.reg[x]] /\ m.args = f2.args /\ m.out = f2.out
    BY <1>2 DEF Sim, Agrees, Wrote
  <2>2. AgreesBut(x, e.reg, e.dirty, m.regs, m.frame, f.regs, S)
    BY <1>2 DEF Sim, Agrees, AgreesBut
  <2>4. IsMachine(m) /\ Running(m) /\ m.at = Len(e.ops) + 1
    BY <1>2 DEF Sim
  <2> QED
    BY <1>2, <2>1, <2>2, <2>4, PutSim
<1> HIDE DEF e2, S2
<1>3. Does(n, e, e2, f, S, f2, S2)
  BY <1>2, GetsNowhere DEF Does
<1> QED
  BY <1>1, <1>3 DEF Emits, e2, S2

-------------------------------------------------------------------------------
(* Loading operands.                                                        *)

Single(ss, S) == \E s \in S : ss = <<s>>
Pair(ss, S) == \E s \in S, t \in S : ss = <<s, t>>

\* The operands ss are in registers.
Loaded(n, e, e2, ss, f, S) ==
  Emits(n, e, e2, f, S, f, S) /\ Placed(e2, HomesOf(e2, ss), ss) /\ e2.flaws = e.flaws

LEMMA LoadsEmits ==
  ASSUME NEW n, NEW e, NEW e2, NEW s, NEW excl, NEW f, NEW S, Loads(n, e, e2, s, excl, f, S)
  PROVE  Emits(n, e, e2, f, S, f, S) /\ IsEmitter(e2) /\ Later(e, e2)
BY DEF Loads, Emits, Adds, Later

LEMMA OperandsLoaded ==
  ASSUME NEW n, IsSeq(n.ops), NEW e, IsEmitter(e), NEW f, NEW S \in SUBSET Slots,
         NEW ss, Single(ss, S) \/ Pair(ss, S)
  PROVE  Loaded(n, e, LoadOperands(e, ss), ss, f, S)
<1>1. ASSUME NEW s \in S, ss = <<s>> PROVE Loaded(n, e, LoadOperands(e, ss), ss, f, S)
  <2> DEFINE e2 == Load(e, s, {})
  <2>1. LoadOperands(e, ss) = e2
    BY <1>1 DEF LoadOperands
  <2>2. Regs \ {} # {}
    BY ThirdRegister
  <2>3. Loads(n, e, e2, s, {}, f, S)
    BY <2>2, LoadLoads
  <2> HIDE DEF e2
  <2>4. Emits(n, e, e2, f, S, f, S)
    BY <2>3, LoadsEmits
  <2>5. Home(e2, s) \in Regs /\ e2.reg[Home(e2, s)] = s /\ e2.flaws = e.flaws
    BY <2>3 DEF Loads
  <2>6. Placed(e2, HomesOf(e2, ss), ss)
    BY <1>1, <2>5 DEF Placed, HomesOf
  <2> QED
    BY <2>1, <2>4, <2>5, <2>6 DEF Loaded
<1>2. ASSUME NEW s \in S, NEW t \in S, ss = <<s, t>> PROVE Loaded(n, e, LoadOperands(e, ss), ss, f, S)
  <2> DEFINE e1 == Load(e, s, {})
             x == Home(e1, s)
             e2 == Load(e1, t, {x})
  <2>1. LoadOperands(e, ss) = e2
    <3>1. Len(ss) # 1 /\ ss[1] = s /\ ss[2] = t
      BY <1>2
    <3> QED
      BY <3>1 DEF LoadOperands, LoadSecond
  <2>2. Regs \ {} # {} /\ Regs \ {x} # {}
    BY ThirdRegister
  <2>3. Loads(n, e, e1, s, {}, f, S)
    BY <2>2, LoadLoads
  <2>4. Emits(n, e, e1, f, S, f, S) /\ IsEmitter(e1)
    BY <2>3, LoadsEmits
  <2>5. x \in Regs /\ e1.reg[x] = s /\ e1.flaws = e.flaws
    BY <2>3 DEF Loads
  <2> HIDE DEF e1, x
  <2>6. Loads(n, e1, e2, t, {x}, f, S)
    BY <2>2, <2>4, LoadLoads
  <2> HIDE DEF e2
  <2>7. Emits(n, e1, e2, f, S, f, S)
    BY <2>6, LoadsEmits
  <2>8. Emits(n, e, e2, f, S, f, S)
    BY <2>4, <2>7, EmitsOn
  <2>9. Home(e2, t) \in Regs /\ e2.reg[Home(e2, t)] = t /\ e2.flaws = e.flaws /\ e2.reg[x] = s
    BY <2>5, <2>6 DEF Loads
  <2>10. Home(e2, s) \in Regs /\ e2.reg[Home(e2, s)] = s
    BY <2>5, <2>9, HomeIs
  <2>11. Placed(e2, HomesOf(e2, ss), ss)
    <3>1. DOMAIN ss = 1 .. 2 /\ ss[1] = s /\ ss[2] = t
      BY <1>2
    <3>2. \A k \in 1 .. 2 : k = 1 \/ k = 2
      OBVIOUS
    <3> QED
      BY <2>9, <2>10, <3>1, <3>2 DEF Placed, HomesOf
  <2> QED
    BY <2>1, <2>8, <2>9, <2>11 DEF Loaded
<1> QED
  BY <1>1, <1>2 DEF Single, Pair

\* The register of a source that is read again is stored, and keeps it.
LEMMA PreserveDoes ==
  ASSUME NEW n, IsSeq(n.ops), NEW cx, NEW e, IsEmitter(e), NEW i, NEW s, Home(e, s) \in Regs,
         NEW f, NEW S \in SUBSET Slots
  PROVE  /\ Emits(n, e, Preserve(cx, e, i, s), f, S, f, S)
         /\ Preserve(cx, e, i, s).reg = e.reg
<1>1. CASE Preserve(cx, e, i, s) = e
  BY <1>1, LaterItself, DoesNothing DEF Emits
<1>2. CASE Preserve(cx, e, i, s) = Store(e, Home(e, s))
  <2>1. Adds(e, Store(e, Home(e, s))) /\ Store(e, Home(e, s)).reg = e.reg
    BY StoreIs DEF Made
  <2>2. Does(n, e, Store(e, Home(e, s)), f, S, f, S)
    BY StoreDoes
  <2> QED
    BY <1>2, <2>1, <2>2 DEF Emits
<1> QED
  BY <1>1, <1>2 DEF Preserve
-------------------------------------------------------------------------------
(* The slots and values of an instruction.                                  *)

LEMMA OperandsAre ==
  ASSUME NEW i
  PROVE  /\ i[1] \in ArithOps \cup CmpOps \cup RegJumps => Operands(i) = <<i[3], i[4]>>
         /\ i[1] \in {"INC", "DEC"} => Operands(i) = <<i[2]>>
         /\ i[1] \in LoadOps => Operands(i) = <<>>
         /\ i[1] \in {"NEG", "MOVE", "JUMP_IF_FALSE"} \cup ImmOps \cup ImmJumps \cup NoneJumps
              => Operands(i) = <<i[3]>>
<1> DEFINE A == i[1] \in ArithOps \cup CmpOps \cup RegJumps
           B == i[1] \in {"INC", "DEC"}
           C == i[1] \in LoadOps
           D == i[1] \in {"NEG", "MOVE", "JUMP_IF_FALSE"} \cup ImmOps \cup ImmJumps \cup NoneJumps
<1>1. /\ A => ~B /\ ~C
      /\ B => ~A /\ ~C
      /\ C => ~A /\ ~B
      /\ D => ~A /\ ~B /\ ~C
  BY DEF ArithOps, CmpOps, RegJumps, LoadOps, ImmOps, ImmJumps, NoneJumps
<1>2. Operands(i) = CASE A -> <<i[3], i[4]>>
                      [] B -> <<i[2]>>
                      [] C -> <<>>
                      [] OTHER -> <<i[3]>>
  BY Zenon DEF Operands
<1> HIDE DEF A, B, C, D
<1>3. A => Operands(i) = <<i[3], i[4]>>
  BY <1>1, <1>2, Zenon
<1>4. B => Operands(i) = <<i[2]>>
  BY <1>1, <1>2, Zenon
<1>5. C => Operands(i) = <<>>
  BY <1>1, <1>2, Zenon
<1>6. D => Operands(i) = <<i[3]>>
  BY <1>1, <1>2, Zenon
<1> QED
  BY <1>3, <1>4, <1>5, <1>6 DEF A, B, C, D

LEMMA ReadsAre ==
  ASSUME NEW i
  PROVE  /\ i[1] \in {"MOVE", "NEG", "JUMP_IF_FALSE"} \cup ImmOps \cup ImmJumps \cup NoneJumps
              => Reads(i) = {i[3]}
         /\ i[1] \in ArithOps \cup CmpOps \cup RegJumps => Reads(i) = {i[3], i[4]}
         /\ i[1] \in {"INC", "DEC", "RETURN", "RETURN_NUM", "RETURN_BOOL", "PUSH_ARG"} => Reads(i) = {i[2]}
         /\ i[1] = "CALL_1" => Reads(i) = {i[4]}
         /\ i[1] = "CALL_2" => Reads(i) = {i[4], i[4] + 1}
<1> DEFINE A == i[1] \in {"MOVE", "NEG", "JUMP_IF_FALSE"} \cup ImmOps \cup ImmJumps
           B == i[1] \in ArithOps \cup CmpOps \cup RegJumps
           C == i[1] \in {"INC", "DEC", "RETURN", "RETURN_NUM", "RETURN_BOOL"}
           D == i[1] = "CALL_1"
           F == i[1] = "CALL_2"
           P == i[1] = "PUSH_ARG"
           N == i[1] \in NoneJumps
<1>1. /\ A => ~B /\ ~C /\ ~D /\ ~F /\ ~P /\ ~N
      /\ B => ~A /\ ~C /\ ~D /\ ~F /\ ~P /\ ~N
      /\ C => ~A /\ ~B /\ ~D /\ ~F /\ ~P /\ ~N
      /\ D => ~A /\ ~B /\ ~C /\ ~F /\ ~P /\ ~N
      /\ F => ~A /\ ~B /\ ~C /\ ~D /\ ~P /\ ~N
      /\ P => ~A /\ ~B /\ ~C /\ ~D /\ ~F /\ ~N
      /\ N => ~A /\ ~B /\ ~C /\ ~D /\ ~F /\ ~P
  BY DEF ArithOps, CmpOps, RegJumps, LoadOps, ImmOps, ImmJumps, NoneJumps
<1>2. SeenReads(i) = CASE A -> {i[3]}
                       [] B -> {i[3], i[4]}
                       [] C -> {i[2]}
                       [] D -> {i[4]}
                       [] F -> {i[4], i[4] + 1}
                       [] OTHER -> {}
  BY Zenon DEF SeenReads
<1>3. Reads(i) = SeenReads(i) \cup IF P THEN {i[2]} ELSE IF N THEN {i[3]} ELSE {}
  BY Zenon DEF Reads
<1> HIDE DEF A, B, C, D, F, P, N
<1>4. A => SeenReads(i) = {i[3]}
  BY <1>1, <1>2, Zenon
<1>5. B => SeenReads(i) = {i[3], i[4]}
  BY <1>1, <1>2, Zenon
<1>6. C => SeenReads(i) = {i[2]}
  BY <1>1, <1>2, Zenon
<1>7. D => SeenReads(i) = {i[4]}
  BY <1>1, <1>2, Zenon
<1>8. F => SeenReads(i) = {i[4], i[4] + 1}
  BY <1>1, <1>2, Zenon
<1>9. P \/ N => SeenReads(i) = {}
  BY <1>1, <1>2, Zenon
<1>10. A \/ N => Reads(i) = {i[3]}
  BY <1>1, <1>3, <1>4, <1>9
<1>11. B => Reads(i) = {i[3], i[4]}
  BY <1>1, <1>3, <1>5
<1>12. C \/ P => Reads(i) = {i[2]}
  BY <1>1, <1>3, <1>6, <1>9
<1>13. /\ D => Reads(i) = {i[4]}
       /\ F => Reads(i) = {i[4], i[4] + 1}
  BY <1>1, <1>3, <1>7, <1>8
<1> QED
  BY <1>10, <1>11, <1>12, <1>13 DEF A, B, C, D, F, P, N

LEMMA WritesAre ==
  ASSUME NEW i
  PROVE  /\ i[1] \in PureOps \cup CallOps => Writes(i) = {i[2]}
         /\ ~(i[1] \in PureOps \cup CallOps) => Writes(i) = {}
BY DEF Writes, SeenWrites, PureOps, CallOps, UnaryOps, LoadOps, ArithOps, ImmOps, CmpOps

-------------------------------------------------------------------------------
(* What instructions compute.                                               *)

NotTruthy(v) == ~Truthy(v)
IsNone(v) == v = None
NotNone(v) == v # None

LEMMA ComputedFacts ==
  ASSUME NEW i, NEW vs
  PROVE  /\ i[1] = "MOVE" => Computed(i, vs) = vs[1]
         /\ i[1] \in {"LOAD_NUM_IMM", "LOAD_NUM", "RETURN_NUM_IMM"} => Computed(i, vs) = Num(i[3])
         /\ i[1] = "LOAD_BOOL" => Computed(i, vs) = Bool(i[3] = 1)
         /\ i[1] = "LOAD_NONE" => Computed(i, vs) = None
         /\ i[1] \in ArithOps => Computed(i, vs) = Arith(i[1], vs[1], vs[2])
         /\ i[1] \in ImmOps => Computed(i, vs) = Arith(i[1], vs[1], Num(i[4]))
         /\ i[1] = "NEG" => Computed(i, vs) = Arith("SUB", Num(0), vs[1])
         /\ i[1] = "INC" => Computed(i, vs) = Arith("ADD", vs[1], Num(1))
         /\ i[1] = "DEC" => Computed(i, vs) = Arith("SUB", vs[1], Num(1))
         /\ i[1] \in CmpOps => Computed(i, vs) = Bool(Holds(CmpRel(i[1]), vs[1], vs[2]))
         /\ i[1] = "JUMP_IF_FALSE" => Computed(i, vs) = NotTruthy(vs[1])
         /\ i[1] = "JUMP_IF_NONE" => Computed(i, vs) = IsNone(vs[1])
         /\ i[1] = "JUMP_IF_NOT_NONE" => Computed(i, vs) = NotNone(vs[1])
         /\ i[1] \in RegJumps => Computed(i, vs) = Holds(JumpRel(i[1]), vs[1], vs[2])
         /\ i[1] \in ImmJumps => Computed(i, vs) = Holds(JumpImmRel(i[1]), vs[1], Num(i[4]))
<1> DEFINE A == i[1] = "MOVE"
           B == i[1] \in {"LOAD_NUM_IMM", "LOAD_NUM", "RETURN_NUM_IMM"}
           C == i[1] = "LOAD_BOOL"
           D == i[1] = "LOAD_NONE"
           F == i[1] \in ArithOps
           G == i[1] \in ImmOps
           H == i[1] = "NEG"
           J == i[1] = "INC"
           K == i[1] = "DEC"
           L == i[1] \in CmpOps
           M == i[1] = "JUMP_IF_FALSE"
           N == i[1] = "JUMP_IF_NONE"
           O == i[1] = "JUMP_IF_NOT_NONE"
           P == i[1] \in RegJumps
           Q == i[1] \in ImmJumps
<1>1. /\ A => ~B /\ ~C /\ ~D /\ ~F /\ ~G /\ ~H /\ ~J /\ ~K /\ ~L /\ ~M /\ ~N /\ ~O /\ ~P /\ ~Q
      /\ B => ~A /\ ~C /\ ~D /\ ~F /\ ~G /\ ~H /\ ~J /\ ~K /\ ~L /\ ~M /\ ~N /\ ~O /\ ~P /\ ~Q
      /\ C => ~A /\ ~B /\ ~D /\ ~F /\ ~G /\ ~H /\ ~J /\ ~K /\ ~L /\ ~M /\ ~N /\ ~O /\ ~P /\ ~Q
      /\ D => ~A /\ ~B /\ ~C /\ ~F /\ ~G /\ ~H /\ ~J /\ ~K /\ ~L /\ ~M /\ ~N /\ ~O /\ ~P /\ ~Q
      /\ F => ~A /\ ~B /\ ~C /\ ~D /\ ~G /\ ~H /\ ~J /\ ~K /\ ~L /\ ~M /\ ~N /\ ~O /\ ~P /\ ~Q
      /\ G => ~A /\ ~B /\ ~C /\ ~D /\ ~F /\ ~H /\ ~J /\ ~K /\ ~L /\ ~M /\ ~N /\ ~O /\ ~P /\ ~Q
      /\ H => ~A /\ ~B /\ ~C /\ ~D /\ ~F /\ ~G /\ ~J /\ ~K /\ ~L /\ ~M /\ ~N /\ ~O /\ ~P /\ ~Q
      /\ J => ~A /\ ~B /\ ~C /\ ~D /\ ~F /\ ~G /\ ~H /\ ~K /\ ~L /\ ~M /\ ~N /\ ~O /\ ~P /\ ~Q
      /\ K => ~A /\ ~B /\ ~C /\ ~D /\ ~F /\ ~G /\ ~H /\ ~J /\ ~L /\ ~M /\ ~N /\ ~O /\ ~P /\ ~Q
      /\ L => ~A /\ ~B /\ ~C /\ ~D /\ ~F /\ ~G /\ ~H /\ ~J /\ ~K /\ ~M /\ ~N /\ ~O /\ ~P /\ ~Q
      /\ M => ~A /\ ~B /\ ~C /\ ~D /\ ~F /\ ~G /\ ~H /\ ~J /\ ~K /\ ~L /\ ~N /\ ~O /\ ~P /\ ~Q
      /\ N => ~A /\ ~B /\ ~C /\ ~D /\ ~F /\ ~G /\ ~H /\ ~J /\ ~K /\ ~L /\ ~M /\ ~O /\ ~P /\ ~Q
      /\ O => ~A /\ ~B /\ ~C /\ ~D /\ ~F /\ ~G /\ ~H /\ ~J /\ ~K /\ ~L /\ ~M /\ ~N /\ ~P /\ ~Q
      /\ P => ~A /\ ~B /\ ~C /\ ~D /\ ~F /\ ~G /\ ~H /\ ~J /\ ~K /\ ~L /\ ~M /\ ~N /\ ~O /\ ~Q
      /\ Q => ~A /\ ~B /\ ~C /\ ~D /\ ~F /\ ~G /\ ~H /\ ~J /\ ~K /\ ~L /\ ~M /\ ~N /\ ~O /\ ~P
  BY DEF LoadOps, ArithOps, ImmOps, CmpOps, RegJumps, ImmJumps
<1>2. Computed(i, vs) = CASE A -> vs[1]
                          [] B -> Num(i[3])
                          [] C -> Bool(i[3] = 1)
                          [] D -> None
                          [] F -> Arith(i[1], vs[1], vs[2])
                          [] G -> Arith(i[1], vs[1], Num(i[4]))
                          [] H -> Arith("SUB", Num(0), vs[1])
                          [] J -> Arith("ADD", vs[1], Num(1))
                          [] K -> Arith("SUB", vs[1], Num(1))
                          [] L -> Bool(Holds(CmpRel(i[1]), vs[1], vs[2]))
                          [] M -> NotTruthy(vs[1])
                          [] N -> IsNone(vs[1])
                          [] O -> NotNone(vs[1])
                          [] P -> Holds(JumpRel(i[1]), vs[1], vs[2])
                          [] Q -> Holds(JumpImmRel(i[1]), vs[1], Num(i[4]))
  BY Zenon DEF Computed, NotTruthy, IsNone, NotNone
<1> HIDE DEF A, B, C, D, F, G, H, J, K, L, M, N, O, P, Q
<1>3. A => Computed(i, vs) = vs[1]
  BY <1>1, <1>2, Zenon
<1>4. B => Computed(i, vs) = Num(i[3])
  BY <1>1, <1>2, Zenon
<1>5. C => Computed(i, vs) = Bool(i[3] = 1)
  BY <1>1, <1>2, Zenon
<1>6. D => Computed(i, vs) = None
  BY <1>1, <1>2, Zenon
<1>7. F => Computed(i, vs) = Arith(i[1], vs[1], vs[2])
  BY <1>1, <1>2, Zenon
<1>8. G => Computed(i, vs) = Arith(i[1], vs[1], Num(i[4]))
  BY <1>1, <1>2, Zenon
<1>9. H => Computed(i, vs) = Arith("SUB", Num(0), vs[1])
  BY <1>1, <1>2, Zenon
<1>10. J => Computed(i, vs) = Arith("ADD", vs[1], Num(1))
  BY <1>1, <1>2, Zenon
<1>11. K => Computed(i, vs) = Arith("SUB", vs[1], Num(1))
  BY <1>1, <1>2, Zenon
<1>12. L => Computed(i, vs) = Bool(Holds(CmpRel(i[1]), vs[1], vs[2]))
  BY <1>1, <1>2, Zenon
<1>13. M => Computed(i, vs) = NotTruthy(vs[1])
  BY <1>1, <1>2, Zenon
<1>14. N => Computed(i, vs) = IsNone(vs[1])
  BY <1>1, <1>2, Zenon
<1>15. O => Computed(i, vs) = NotNone(vs[1])
  BY <1>1, <1>2, Zenon
<1>16. P => Computed(i, vs) = Holds(JumpRel(i[1]), vs[1], vs[2])
  BY <1>1, <1>2, Zenon
<1>17. Q => Computed(i, vs) = Holds(JumpImmRel(i[1]), vs[1], Num(i[4]))
  BY <1>1, <1>2, Zenon
<1> QED
  BY <1>3, <1>4, <1>5, <1>6, <1>7, <1>8, <1>9, <1>10, <1>11, <1>12, <1>13, <1>14, <1>15, <1>16, <1>17 DEF A, B, C, D, F, G, H, J, K, L, M, N, O, P, Q

LEMMA TakenFacts ==
  ASSUME NEW i, NEW f
  PROVE  /\ i[1] = "JUMP" => Taken(i, f) = TRUE
         /\ i[1] = "JUMP_IF_FALSE" => Taken(i, f) = NotTruthy(f.regs[i[3]])
         /\ i[1] = "JUMP_IF_NONE" => Taken(i, f) = IsNone(f.regs[i[3]])
         /\ i[1] = "JUMP_IF_NOT_NONE" => Taken(i, f) = NotNone(f.regs[i[3]])
         /\ i[1] \in RegJumps => Taken(i, f) = Holds(JumpRel(i[1]), f.regs[i[3]], f.regs[i[4]])
         /\ i[1] \in ImmJumps => Taken(i, f) = Holds(JumpImmRel(i[1]), f.regs[i[3]], Num(i[4]))
<1> DEFINE r == f.regs
           A == i[1] = "JUMP"
           M == i[1] = "JUMP_IF_FALSE"
           N == i[1] = "JUMP_IF_NONE"
           O == i[1] = "JUMP_IF_NOT_NONE"
           P == i[1] \in RegJumps
           Q == i[1] \in ImmJumps
<1>1. /\ A => ~M /\ ~N /\ ~O /\ ~P /\ ~Q
      /\ M => ~A /\ ~N /\ ~O /\ ~P /\ ~Q
      /\ N => ~A /\ ~M /\ ~O /\ ~P /\ ~Q
      /\ O => ~A /\ ~M /\ ~N /\ ~P /\ ~Q
      /\ P => ~A /\ ~M /\ ~N /\ ~O /\ ~Q
      /\ Q => ~A /\ ~M /\ ~N /\ ~O /\ ~P
  BY DEF RegJumps, ImmJumps
<1>2. Taken(i, f) = CASE A -> TRUE
                      [] M -> NotTruthy(r[i[3]])
                      [] N -> IsNone(r[i[3]])
                      [] O -> NotNone(r[i[3]])
                      [] P -> Holds(JumpRel(i[1]), r[i[3]], r[i[4]])
                      [] Q -> Holds(JumpImmRel(i[1]), r[i[3]], Num(i[4]))
                      [] i[1] = "FOR_NEXT" -> ~Goes(f)
                      [] i[1] = "FOR_NEXT_LOOP" -> Goes(f)
                      [] OTHER -> FALSE
  BY Zenon DEF Taken, NotTruthy, IsNone, NotNone
<1>3. A \/ M \/ N \/ O \/ P \/ Q => i[1] # "FOR_NEXT" /\ i[1] # "FOR_NEXT_LOOP"
  BY DEF RegJumps, ImmJumps
<1> HIDE DEF A, M, N, O, P, Q
<1>4. A => Taken(i, f) = TRUE
  BY <1>1, <1>2, <1>3, Zenon
<1>5. M => Taken(i, f) = NotTruthy(r[i[3]])
  BY <1>1, <1>2, <1>3, Zenon
<1>6. N => Taken(i, f) = IsNone(r[i[3]])
  BY <1>1, <1>2, <1>3, Zenon
<1>7. O => Taken(i, f) = NotNone(r[i[3]])
  BY <1>1, <1>2, <1>3, Zenon
<1>8. P => Taken(i, f) = Holds(JumpRel(i[1]), r[i[3]], r[i[4]])
  BY <1>1, <1>2, <1>3, Zenon
<1>9. Q => Taken(i, f) = Holds(JumpImmRel(i[1]), r[i[3]], Num(i[4]))
  BY <1>1, <1>2, <1>3, Zenon
<1> QED
  BY <1>4, <1>5, <1>6, <1>7, <1>8, <1>9 DEF A, M, N, O, P, Q

\* What an instruction computes of its operands is what it writes, or whether
\* it jumps.
LEMMA ComputedIs ==
  ASSUME NEW i, NEW f
  PROVE  /\ i[1] \in PureOps => Computed(i, Values(f, Operands(i))) = ValueOf(i, f.regs)
         /\ i[1] \in JumpOps \ {"JUMP"} => Computed(i, Values(f, Operands(i))) = Taken(i, f)
<1> DEFINE vs == Values(f, Operands(i))
           r == f.regs
<1>1. i[1] \in ArithOps \cup CmpOps \cup RegJumps => vs[1] = r[i[3]] /\ vs[2] = r[i[4]]
  BY OperandsAre DEF Values
<1>2. i[1] \in {"INC", "DEC"} => vs[1] = r[i[2]]
  BY OperandsAre DEF Values
<1>3. i[1] \in {"NEG", "MOVE", "JUMP_IF_FALSE"} \cup ImmOps \cup ImmJumps \cup NoneJumps => vs[1] = r[i[3]]
  BY OperandsAre DEF Values
<1> HIDE DEF vs
<1>4. ASSUME i[1] \in PureOps PROVE Computed(i, vs) = ValueOf(i, r)
  <2>1. CASE i[1] \in ArithOps
    BY <1>1, <2>1, ComputedFacts, ValueFacts
  <2>2. CASE i[1] \in CmpOps
    BY <1>1, <2>2, ComputedFacts, ValueFacts
  <2>3. CASE i[1] \in {"INC", "DEC"}
    BY <1>2, <2>3, ComputedFacts, ValueFacts
  <2>4. CASE i[1] \in {"NEG", "MOVE"} \cup ImmOps
    BY <1>3, <2>4, ComputedFacts, ValueFacts
  <2>5. CASE i[1] \in LoadOps
    BY <2>5, ComputedFacts, ValueFacts DEF LoadOps
  <2> QED
    BY <1>4, <2>1, <2>2, <2>3, <2>4, <2>5 DEF PureOps
<1>5. ASSUME i[1] \in JumpOps \ {"JUMP"} PROVE Computed(i, vs) = Taken(i, f)
  <2>1. CASE i[1] \in RegJumps
    <3>1. Computed(i, vs) = Holds(JumpRel(i[1]), vs[1], vs[2])
      BY <2>1, ComputedFacts, Zenon
    <3>2. Taken(i, f) = Holds(JumpRel(i[1]), f.regs[i[3]], f.regs[i[4]])
      BY <2>1, TakenFacts, Zenon
    <3>3. vs[1] = r[i[3]] /\ vs[2] = r[i[4]]
      BY <1>1, <2>1
    <3> QED
      BY <3>1, <3>2, <3>3, Zenon
  <2>2. CASE i[1] \in ImmJumps
    <3>1. Computed(i, vs) = Holds(JumpImmRel(i[1]), vs[1], Num(i[4]))
      BY <2>2, ComputedFacts, Zenon
    <3>2. Taken(i, f) = Holds(JumpImmRel(i[1]), f.regs[i[3]], Num(i[4]))
      BY <2>2, TakenFacts, Zenon
    <3>3. vs[1] = r[i[3]]
      BY <1>3, <2>2
    <3> QED
      BY <3>1, <3>2, <3>3, Zenon
  <2>3. CASE i[1] = "JUMP_IF_FALSE"
    <3>1. Computed(i, vs) = NotTruthy(vs[1]) /\ Taken(i, f) = NotTruthy(f.regs[i[3]])
      BY <2>3, ComputedFacts, TakenFacts, Zenon
    <3>2. vs[1] = r[i[3]]
      BY <1>3, <2>3
    <3> QED
      BY <3>1, <3>2, Zenon
  <2>4. CASE i[1] = "JUMP_IF_NONE"
    <3>1. Computed(i, vs) = IsNone(vs[1]) /\ Taken(i, f) = IsNone(f.regs[i[3]])
      BY <2>4, ComputedFacts, TakenFacts, Zenon
    <3>2. vs[1] = r[i[3]]
      BY <1>3, <2>4 DEF NoneJumps
    <3> QED
      BY <3>1, <3>2, Zenon
  <2>5. CASE i[1] = "JUMP_IF_NOT_NONE"
    <3>1. Computed(i, vs) = NotNone(vs[1]) /\ Taken(i, f) = NotNone(f.regs[i[3]])
      BY <2>5, ComputedFacts, TakenFacts, Zenon
    <3>2. vs[1] = r[i[3]]
      BY <1>3, <2>5 DEF NoneJumps
    <3> QED
      BY <3>1, <3>2, Zenon
  <2> QED
    BY <1>5, <2>1, <2>2, <2>3, <2>4, <2>5 DEF JumpOps, NoneJumps
<1> QED
  BY <1>4, <1>5 DEF vs

-------------------------------------------------------------------------------
(* The emitters of the instructions that write a slot.                      *)

\* The instructions behind which the next one never comes.
Stops == {"JUMP"} \cup ReturnOps

\* What is live before instruction i, at which e is, and behind it.
Lives(cx, e, i) ==
  /\ cx.live[e.pc] \subseteq Slots /\ cx.live[e.pc + 1] \subseteq Slots
  /\ Reads(i) \subseteq cx.live[e.pc] /\ Writes(i) \subseteq Slots
  /\ i[1] \in Stops \/ cx.live[e.pc + 1] \subseteq cx.live[e.pc] \cup Writes(i)

\* What e2 has emitted behind e does what instruction i does.
DoesIt(n, cx, e, e2, i, f) == Emits(n, e, e2, f, cx.live[e.pc], Effect(i, f), cx.live[e.pc + 1])

\* All that these proofs need of where they are.
Around(n, cx, e, i, f) == IsSeq(n.ops) /\ IsEmitter(e) /\ Is(f, Slots) /\ Lives(cx, e, i)

LEMMA PureAround ==
  ASSUME NEW n, NEW cx, NEW e, NEW i, NEW f, Around(n, cx, e, i, f), i[1] \in PureOps
  PROVE  /\ IsSeq(n.ops) /\ IsEmitter(e) /\ i[2] \in Slots
         /\ cx.live[e.pc] \in SUBSET Slots /\ cx.live[e.pc + 1] \subseteq Slots
         /\ cx.live[e.pc + 1] \subseteq cx.live[e.pc] \cup {i[2]}
         /\ f.regs = [s \in Slots |-> f.regs[s]] /\ f.regs \in [Slots -> Value]
         /\ Wrote(f, Effect(i, f), i[2], ValueOf(i, f.regs))
<1>1. Writes(i) = {i[2]}
  BY WritesAre
<1>2. Effect(i, f) = Write(f, i[2], ValueOf(i, f.regs))
  BY PureFacts
<1>3. Is(f, Slots)
  BY DEF Around
<1>4. Wrote(f, Effect(i, f), i[2], ValueOf(i, f.regs))
  BY <1>2, <1>3, WriteForm DEF Wrote
<1>5. i[1] \notin Stops
  BY DEF Stops, PureOps, LoadOps, ArithOps, ImmOps, CmpOps, ReturnOps
<1> QED
  BY <1>1, <1>4, <1>5 DEF Around, Lives, Is

LEMMA OperandsIn ==
  ASSUME NEW i, NEW S, Reads(i) \subseteq S
  PROVE  /\ i[1] \in ArithOps \cup CmpOps \cup RegJumps => Pair(Operands(i), S)
         /\ i[1] \in UnaryOps \cup {"MOVE", "JUMP_IF_FALSE"} \cup ImmOps \cup ImmJumps \cup NoneJumps
              => Single(Operands(i), S)
<1>1. ASSUME i[1] \in ArithOps \cup CmpOps \cup RegJumps PROVE Pair(Operands(i), S)
  <2>1. Operands(i) = <<i[3], i[4]>>
    BY <1>1, OperandsAre
  <2>2. i[3] \in S /\ i[4] \in S
    BY <1>1, ReadsAre
  <2> QED
    BY <2>1, <2>2 DEF Pair
<1>2. ASSUME i[1] \in {"NEG", "MOVE", "JUMP_IF_FALSE"} \cup ImmOps \cup ImmJumps \cup NoneJumps
      PROVE  Single(Operands(i), S)
  <2>1. Operands(i) = <<i[3]>>
    BY <1>2, OperandsAre
  <2>2. i[3] \in S
    BY <1>2, ReadsAre
  <2> QED
    BY <2>1, <2>2 DEF Single
<1>3. ASSUME i[1] \in {"INC", "DEC"} PROVE Single(Operands(i), S)
  <2>1. Operands(i) = <<i[2]>>
    BY <1>3, OperandsAre
  <2>2. i[2] \in S
    BY <1>3, ReadsAre
  <2> QED
    BY <2>1, <2>2 DEF Single
<1> QED
  BY <1>1, <1>2, <1>3 DEF UnaryOps

LEMMA Slotted ==
  ASSUME NEW ss, NEW S, Single(ss, S) \/ Pair(ss, S)
  PROVE  \A k \in DOMAIN ss : ss[k] \in S
<1>1. ASSUME NEW s \in S, ss = <<s>> PROVE \A k \in DOMAIN ss : ss[k] \in S
  BY <1>1
<1>2. ASSUME NEW s \in S, NEW t \in S, ss = <<s, t>> PROVE \A k \in DOMAIN ss : ss[k] \in S
  <2>1. \A k \in 1 .. 2 : k = 1 \/ k = 2
    OBVIOUS
  <2> QED
    BY <1>2, <2>1
<1> QED
  BY <1>1, <1>2 DEF Single, Pair

\* Having loaded the operands, it is the rest of the emitter that counts.
LEMMA LoadedFirst ==
  ASSUME NEW n, NEW cx, NEW e, NEW i, NEW f, Around(n, cx, e, i, f),
         NEW e1, Emits(n, e, e1, f, cx.live[e.pc], f, cx.live[e.pc]),
         NEW e2, DoesIt(n, cx, e1, e2, i, f)
  PROVE  DoesIt(n, cx, e, e2, i, f)
<1>1. e1.pc = e.pc /\ IsSeq(n.ops) /\ IsEmitter(e)
  BY DEF Around, Emits, Adds, Later
<1> QED
  BY <1>1, EmitsOn DEF DoesIt

LEMMA AroundLater ==
  ASSUME NEW n, NEW cx, NEW e, NEW i, NEW f, Around(n, cx, e, i, f), NEW e1, Adds(e, e1)
  PROVE  Around(n, cx, e1, i, f) /\ e1.pc = e.pc
BY DEF Around, Lives, Adds, Later

\* A register set to what a pure instruction computes of its operands.
LEMMA SetsIt ==
  ASSUME NEW n, NEW cx, NEW e, NEW i, NEW f, Around(n, cx, e, i, f), i[1] \in PureOps,
         NEW x \in Regs, NEW xs, Placed(e, xs, Operands(i)),
         \A k \in DOMAIN Operands(i) : Operands(i)[k] \in cx.live[e.pc]
  PROVE  DoesIt(n, cx, e, SetPut(cx, e, x, i[2], i, xs), i, f)
<1> DEFINE S == cx.live[e.pc]
           f2 == Effect(i, f)
           v == ValueOf(i, f.regs)
<1>1. /\ IsSeq(n.ops) /\ IsEmitter(e) /\ i[2] \in Slots /\ S \in SUBSET Slots
      /\ cx.live[e.pc + 1] \subseteq Slots /\ cx.live[e.pc + 1] \subseteq S \cup {i[2]}
      /\ f.regs = [s \in Slots |-> f.regs[s]] /\ Wrote(f, f2, i[2], v)
  BY PureAround
<1>2. Computed(i, Values(f, Operands(i))) = v
  BY ComputedIs
<1> HIDE DEF f2, v
<1>3. Emits(n, e, SetPut(cx, e, x, i[2], i, xs), f, S, f2, cx.live[e.pc + 1])
  BY <1>1, <1>2, SetPutDoes
<1> QED
  BY <1>3 DEF DoesIt, f2

-------------------------------------------------------------------------------

\* MOVE renames the register.
LEMMA MoveDoes ==
  ASSUME NEW n, NEW cx, NEW e, NEW i, NEW f, Around(n, cx, e, i, f), i[1] = "MOVE"
  PROVE  DoesIt(n, cx, e, EmitMove(cx, e, i), i, f)
<1> DEFINE S == cx.live[e.pc]
           e1 == Load(e, i[3], {})
           x == Home(e1, i[3])
           e2 == Put(cx, e1, x, i[2])
           f2 == Effect(i, f)
<1>1. i[1] \in PureOps
  BY DEF PureOps
<1>2. /\ IsSeq(n.ops) /\ IsEmitter(e) /\ i[2] \in Slots /\ S \in SUBSET Slots
      /\ cx.live[e.pc + 1] \subseteq Slots /\ cx.live[e.pc + 1] \subseteq S \cup {i[2]}
      /\ f.regs = [s \in Slots |-> f.regs[s]] /\ Wrote(f, f2, i[2], ValueOf(i, f.regs))
  BY <1>1, PureAround
<1>3. ValueOf(i, f.regs) = f.regs[i[3]]
  BY ValueFacts
<1>4. i[3] \in S
  BY ReadsAre DEF Around, Lives
<1>5. EmitMove(cx, e, i) = e2
  BY DEF EmitMove, MoveOn
<1> HIDE DEF f2
<1>6. Loads(n, e, e1, i[3], {}, f, S)
  <2>1. Regs \ {} # {}
    BY ThirdRegister
  <2> QED
    BY <1>2, <1>4, <2>1, LoadLoads
<1>7. Emits(n, e, e1, f, S, f, S) /\ IsEmitter(e1) /\ e1.pc = e.pc
  BY <1>6, LoadsEmits DEF Later
<1>8. x \in Regs /\ e1.reg[x] = i[3]
  BY <1>6 DEF Loads
<1> HIDE DEF e1, x
<1>9. Emits(n, e1, e2, f, S, f2, cx.live[e1.pc + 1])
  BY <1>2, <1>3, <1>4, <1>7, <1>8, CopyPutDoes
<1>10. DoesIt(n, cx, e1, e2, i, f)
  BY <1>7, <1>9 DEF DoesIt, f2
<1> HIDE DEF e2
<1>11. DoesIt(n, cx, e, e2, i, f)
  BY <1>7, <1>10, LoadedFirst
<1> QED
  BY <1>5, <1>11

LEMMA EvictEmits ==
  ASSUME NEW n, IsSeq(n.ops), NEW e, IsEmitter(e), NEW x \in Regs, NEW f, NEW S \in SUBSET Slots
  PROVE  /\ Emits(n, e, Evict(e, x), f, S, f, S) /\ Adds(e, Evict(e, x)) /\ IsEmitter(Evict(e, x))
         /\ Evict(e, x).reg = [e.reg EXCEPT ![x] = Empty]
         /\ Evict(e, x).dirty = e.dirty \ {x} /\ Evict(e, x).flaws = e.flaws
<1>1. Adds(e, Evict(e, x)) /\ Evict(e, x).reg = [e.reg EXCEPT ![x] = Empty]
      /\ Evict(e, x).dirty = e.dirty \ {x} /\ Evict(e, x).flaws = e.flaws
  BY EvictIs DEF Made
<1>2. Does(n, e, Evict(e, x), f, S, f, S)
  BY EvictDoes
<1> QED
  BY <1>1, <1>2 DEF Emits, Adds, Later

LEMMA ConstantDoes ==
  ASSUME NEW n, NEW cx, NEW e, NEW i, NEW f, Around(n, cx, e, i, f), i[1] \in LoadOps
  PROVE  DoesIt(n, cx, e, EmitMove(cx, e, i), i, f)
<1> DEFINE S == cx.live[e.pc]
           x == Victim(e, {})
           e1 == Evict(e, x)
           e2 == SetPut(cx, e1, x, i[2], i, <<>>)
<1>1. i[1] \in PureOps /\ i[1] # "MOVE"
  BY DEF PureOps, LoadOps
<1>2. IsSeq(n.ops) /\ IsEmitter(e) /\ S \in SUBSET Slots
  BY DEF Around, Lives
<1>3. EmitMove(cx, e, i) = e2
  BY <1>1, Zenon DEF EmitMove, ConstantIn, SetPut
<1>4. x \in Regs
  <2>1. Regs \ {} # {}
    BY ThirdRegister
  <2> QED
    BY <1>2, <2>1, VictimIs
<1> HIDE DEF x
<1>5. Emits(n, e, e1, f, S, f, S) /\ Adds(e, e1)
  BY <1>2, <1>4, EvictEmits
<1> HIDE DEF e1
<1>6. Around(n, cx, e1, i, f) /\ e1.pc = e.pc
  BY <1>5, AroundLater
<1>7. Operands(i) = <<>>
  BY OperandsAre
<1>8. Placed(e1, <<>>, Operands(i)) /\ \A k \in DOMAIN Operands(i) : Operands(i)[k] \in cx.live[e1.pc]
  BY <1>7 DEF Placed
<1>9. DoesIt(n, cx, e1, e2, i, f)
  BY <1>1, <1>4, <1>6, <1>8, SetsIt
<1> HIDE DEF e2
<1>10. DoesIt(n, cx, e, e2, i, f)
  BY <1>5, <1>9, LoadedFirst
<1> QED
  BY <1>3, <1>10

\* The operands of a pure instruction are in registers.
LEMMA PureLoaded ==
  ASSUME NEW n, NEW cx, NEW e, NEW i, NEW f, Around(n, cx, e, i, f),
         i[1] \in ArithOps \cup ImmOps \cup UnaryOps \cup CmpOps \cup (JumpOps \ {"JUMP"}),
         NEW e1, e1 = LoadOperands(e, Operands(i))
  PROVE  /\ Emits(n, e, e1, f, cx.live[e.pc], f, cx.live[e.pc]) /\ Around(n, cx, e1, i, f)
         /\ e1.pc = e.pc /\ IsEmitter(e1) /\ Placed(e1, HomesOf(e1, Operands(i)), Operands(i))
         /\ Single(Operands(i), cx.live[e.pc]) \/ Pair(Operands(i), cx.live[e.pc])
         /\ \A k \in DOMAIN Operands(i) : Operands(i)[k] \in cx.live[e.pc]
         /\ e1.flaws = e.flaws
<1> DEFINE S == cx.live[e.pc]
           ss == Operands(i)
<1>1. IsSeq(n.ops) /\ IsEmitter(e) /\ S \in SUBSET Slots /\ Reads(i) \subseteq S
  BY DEF Around, Lives
<1>2. Single(ss, S) \/ Pair(ss, S)
  BY <1>1, OperandsIn DEF JumpOps
<1>3. Loaded(n, e, e1, ss, f, S)
  BY <1>1, <1>2, OperandsLoaded
<1>4. Emits(n, e, e1, f, S, f, S) /\ Placed(e1, HomesOf(e1, ss), ss) /\ e1.flaws = e.flaws
  BY <1>3 DEF Loaded
<1>5. Adds(e, e1) /\ IsEmitter(e1)
  BY <1>4 DEF Emits, Adds, Later
<1>6. Around(n, cx, e1, i, f) /\ e1.pc = e.pc
  BY <1>5, AroundLater
<1>7. \A k \in DOMAIN ss : ss[k] \in S
  BY <1>2, Slotted
<1> QED
  BY <1>2, <1>4, <1>5, <1>6, <1>7

\* In place: the register of the one operand gets the result.
LEMMA InPlaceDoes ==
  ASSUME NEW n, NEW cx, NEW e, NEW i, NEW f, Around(n, cx, e, i, f), i[1] \in ImmOps \cup {"INC", "DEC"},
         NEW s \in cx.live[e.pc], Operands(i) = <<s>>, Home(e, s) \in Regs, e.reg[Home(e, s)] = s
  PROVE  DoesIt(n, cx, e, InPlace(cx, e, i, Home(e, s)), i, f)
<1> DEFINE x == Home(e, s)
           xs == <<x>>
<1>1. Placed(e, xs, Operands(i))
  BY DEF Placed
<1>2. \A k \in DOMAIN Operands(i) : Operands(i)[k] \in cx.live[e.pc]
  OBVIOUS
<1>3. i[1] \in PureOps
  BY DEF PureOps
<1> HIDE DEF xs
<1>4. DoesIt(n, cx, e, SetPut(cx, e, x, i[2], i, xs), i, f)
  BY <1>1, <1>2, <1>3, SetsIt
<1>5. InPlace(cx, e, i, x) = SetPut(cx, e, x, i[2], i, xs)
  BY Zenon DEF InPlace, SetPut, xs
<1> QED
  BY <1>4, <1>5

LEMMA CompareDoes ==
  ASSUME NEW n, NEW cx, NEW e, NEW i, NEW f, Around(n, cx, e, i, f), i[1] \in CmpOps
  PROVE  DoesIt(n, cx, e, EmitCompare(cx, e, i), i, f)
<1> DEFINE S == cx.live[e.pc]
           ss == Operands(i)
           e1 == LoadOperands(e, ss)
           xs == HomesOf(e1, ss)
           x == Victim(e1, Range(xs))
           e2 == Evict(e1, x)
           e3 == SetPut(cx, e2, x, i[2], i, xs)
<1>1. i[1] \in PureOps
  BY DEF PureOps
<1>2. /\ Emits(n, e, e1, f, S, f, S) /\ Around(n, cx, e1, i, f) /\ e1.pc = e.pc /\ IsEmitter(e1)
      /\ Placed(e1, xs, ss) /\ \A k \in DOMAIN ss : ss[k] \in S
  <2>1. e1 = LoadOperands(e, Operands(i))
    OBVIOUS
  <2> HIDE DEF e1
  <2> QED
    BY <2>1, PureLoaded
<1>3. EmitCompare(cx, e, i) = e3
  BY Zenon DEF EmitCompare, CompareLoaded, CompareOn, CompareIn, SetPut
<1>4. IsSeq(n.ops) /\ S \in SUBSET Slots
  BY DEF Around, Lives
<1>5. ss = <<i[3], i[4]>>
  BY OperandsAre
<1> HIDE DEF e1, ss
<1>6. Range(xs) = {xs[1], xs[2]}
  <2>1. DOMAIN xs = 1 .. 2
    BY <1>2, <1>5 DEF Placed
  <2>2. \A k \in 1 .. 2 : k = 1 \/ k = 2
    OBVIOUS
  <2> HIDE DEF xs
  <2> QED
    BY <2>1, <2>2 DEF Range
<1> HIDE DEF xs
<1>7. x \in Regs \ Range(xs)
  <2>1. Regs \ {xs[1], xs[2]} # {}
    BY ThirdRegister
  <2> QED
    BY <1>2, <1>6, <2>1, VictimIs
<1> HIDE DEF x
<1>8. /\ Emits(n, e1, e2, f, S, f, S) /\ Adds(e1, e2) /\ e2.reg = [e1.reg EXCEPT ![x] = Empty]
  BY <1>2, <1>4, <1>7, EvictEmits
<1> HIDE DEF e2
<1>9. Placed(e2, xs, ss)
  <2>1. \A k \in DOMAIN xs : xs[k] # x
    BY <1>7 DEF Range
  <2>2. DOMAIN xs = DOMAIN ss /\ \A k \in DOMAIN ss : xs[k] \in Regs /\ e1.reg[xs[k]] = ss[k]
    BY <1>2 DEF Placed
  <2>3. \A y \in Regs : y # x => e2.reg[y] = e1.reg[y]
    BY <1>2, <1>8 DEF IsEmitter
  <2> QED
    BY <2>1, <2>2, <2>3 DEF Placed
<1>10. Around(n, cx, e2, i, f) /\ e2.pc = e.pc
  BY <1>2, <1>8, AroundLater
<1>11. DoesIt(n, cx, e2, e3, i, f)
  BY <1>1, <1>2, <1>7, <1>9, <1>10, SetsIt DEF ss
<1> HIDE DEF e3
<1>12. DoesIt(n, cx, e1, e3, i, f)
  BY <1>2, <1>8, <1>11, LoadedFirst
<1>13. DoesIt(n, cx, e, e3, i, f)
  BY <1>2, <1>12, LoadedFirst
<1> QED
  BY <1>3, <1>13

-------------------------------------------------------------------------------

LEMMA Commutes ==
  ASSUME NEW op \in {"ADD", "MUL"}, NEW v \in Value, NEW w \in Value, IsNum(v), IsNum(w)
  PROVE  Arith(op, v, w) = Arith(op, w, v)
<1>1. PICK a \in Int, b \in Int : v = Num(a) /\ w = Num(b)
  BY ArithFacts
<1>2. Arith("ADD", Num(a), Num(b)) = Num(a + b) /\ Arith("ADD", Num(b), Num(a)) = Num(b + a)
  BY ArithFacts
<1>3. a + b = b + a /\ a * b = b * a
  OBVIOUS
<1>4. Arith("MUL", Num(a), Num(b)) = Num(a * b) /\ Arith("MUL", Num(b), Num(a)) = Num(b * a)
  <2>1. \A c, d : IsNum(Num(c)) /\ Num(c)[2] = c
    BY DEF IsNum, Num
  <2> DEFINE A == {"ADD", "ADD_IMM"}
             B == {"SUB", "SUB_IMM"}
             M == {"MUL", "MUL_IMM"}
  <2>2. ~("MUL" \in A) /\ ~("MUL" \in B) /\ "MUL" \in M
    OBVIOUS
  <2>3. \A x, y : IsNum(x) /\ IsNum(y) =>
          Arith("MUL", x, y) = Num(CASE "MUL" \in A -> x[2] + y[2]
                                     [] "MUL" \in B -> x[2] - y[2]
                                     [] "MUL" \in M -> x[2] * y[2])
    BY Zenon DEF Arith
  <2> HIDE DEF A, B, M
  <2>4. \A x, y : IsNum(x) /\ IsNum(y) => Arith("MUL", x, y) = Num(x[2] * y[2])
    BY <2>2, <2>3, Zenon
  <2> QED
    BY <2>1, <2>4
<1> QED
  BY <1>1, <1>2, <1>3, <1>4

\* The operands swapped, the sum or product is the same.
LEMMA SwappedIs ==
  ASSUME NEW i, i[1] \in {"ADD", "MUL"}, NEW f, f.regs \in [Slots -> Value],
         i[3] \in Slots, i[4] \in Slots, Sure(i, Values(f, <<i[4], i[3]>>))
  PROVE  Computed(i, Values(f, <<i[4], i[3]>>)) = ValueOf(i, f.regs)
<1> DEFINE vs == Values(f, <<i[4], i[3]>>)
<1>1. vs[1] = f.regs[i[4]] /\ vs[2] = f.regs[i[3]] /\ 1 \in DOMAIN vs /\ 2 \in DOMAIN vs
  BY DEF Values
<1>2. i[1] \in ArithOps /\ i[1] \in OnDoubles
  BY DEF ArithOps, OnDoubles
<1>3. IsNum(vs[1]) /\ IsNum(vs[2])
  BY <1>1, <1>2 DEF Guesses, Sure
<1> HIDE DEF vs
<1>4. Computed(i, vs) = Arith(i[1], vs[1], vs[2])
  BY <1>2, ComputedFacts
<1>5. ValueOf(i, f.regs) = Arith(i[1], f.regs[i[3]], f.regs[i[4]])
  BY <1>2, ValueFacts
<1>6. Arith(i[1], vs[1], vs[2]) = Arith(i[1], vs[2], vs[1])
  <2>1. vs[1] \in Value /\ vs[2] \in Value
    BY <1>1
  <2> QED
    BY <1>3, <2>1, Commutes
<1>7. Computed(i, vs) = ValueOf(i, f.regs)
  BY <1>1, <1>4, <1>5, <1>6
<1> QED
  BY <1>7 DEF vs

LEMMA BinaryDoes ==
  ASSUME NEW n, NEW cx, NEW e, NEW i, NEW f, Around(n, cx, e, i, f), i[1] \in ArithOps
  PROVE  DoesIt(n, cx, e, EmitBinary(cx, e, i), i, f)
<1> DEFINE S == cx.live[e.pc]
           ss == Operands(i)
           e1 == LoadOperands(e, ss)
           x == Home(e1, i[3])
           y == Home(e1, i[4])
<1>1. i[1] \in PureOps
  BY DEF PureOps
<1>2. ss = <<i[3], i[4]>>
  BY OperandsAre
<1>3. /\ Emits(n, e, e1, f, S, f, S) /\ Around(n, cx, e1, i, f) /\ e1.pc = e.pc /\ IsEmitter(e1)
      /\ Placed(e1, HomesOf(e1, ss), ss) /\ \A k \in DOMAIN ss : ss[k] \in S
  <2>1. e1 = LoadOperands(e, Operands(i))
    OBVIOUS
  <2> HIDE DEF e1
  <2> QED
    BY <2>1, PureLoaded
<1>4. EmitBinary(cx, e, i) = BinaryOn(cx, e1, i)
  BY DEF EmitBinary
<1> HIDE DEF e1
<1>5. /\ x \in Regs /\ e1.reg[x] = i[3] /\ y \in Regs /\ e1.reg[y] = i[4]
      /\ i[3] \in S /\ i[4] \in S
  <2>1. 1 \in DOMAIN ss /\ 2 \in DOMAIN ss /\ ss[1] = i[3] /\ ss[2] = i[4]
    BY <1>2
  <2> HIDE DEF ss
  <2>2. HomesOf(e1, ss)[1] = x /\ HomesOf(e1, ss)[2] = y
    BY <2>1 DEF HomesOf
  <2> QED
    BY <1>3, <2>1, <2>2 DEF Placed
<1>6. IsSeq(n.ops) /\ S \in SUBSET Slots
  BY DEF Around, Lives
<1> HIDE DEF x, y, ss
<1>7. CASE ~Swaps(cx, e1, i)
  <2> DEFINE e2 == Preserve(cx, e1, i, i[3])
             xs == <<x, y>>
             e3 == SetPut(cx, e2, x, i[2], i, xs)
  <2>1. BinaryOn(cx, e1, i) = e3
    <3>1. BinaryOn(cx, e1, i) = BinaryIn(cx, e2, i, xs)
      BY <1>7, Zenon DEF BinaryOn, x, y
    <3>2. xs[1] = x
      OBVIOUS
    <3> QED
      BY <3>1, <3>2, Zenon DEF BinaryIn, SetPut
  <2>2. Emits(n, e1, e2, f, S, f, S) /\ e2.reg = e1.reg
    BY <1>3, <1>5, <1>6, PreserveDoes DEF x
  <2> HIDE DEF e2
  <2>3. Around(n, cx, e2, i, f) /\ e2.pc = e.pc
    BY <1>3, <2>2, AroundLater DEF Emits
  <2>4. Placed(e2, xs, Operands(i))
    <3>1. \A k \in 1 .. 2 : k = 1 \/ k = 2
      OBVIOUS
    <3> QED
      BY <1>2, <1>5, <2>2, <3>1 DEF Placed, ss
  <2>5. \A k \in DOMAIN Operands(i) : Operands(i)[k] \in cx.live[e2.pc]
    BY <1>3, <2>3 DEF ss
  <2> HIDE DEF xs
  <2>6. DoesIt(n, cx, e2, e3, i, f)
    BY <1>1, <1>5, <2>3, <2>4, <2>5, SetsIt
  <2> HIDE DEF e3
  <2>7. DoesIt(n, cx, e1, e3, i, f)
    BY <1>3, <2>2, <2>6, LoadedFirst
  <2>8. DoesIt(n, cx, e, e3, i, f)
    BY <1>3, <2>7, LoadedFirst
  <2> QED
    BY <1>4, <2>1, <2>8
<1>8. CASE Swaps(cx, e1, i)
  <2> DEFINE e2 == Preserve(cx, e1, i, i[4])
             xs == <<y, x>>
             e3 == SetPut(cx, e2, y, i[2], i, xs)
             zs == <<i[4], i[3]>>
             v == ValueOf(i, f.regs)
             f2 == Effect(i, f)
  <2>1. BinaryOn(cx, e1, i) = e3
    <3>1. BinaryOn(cx, e1, i) = BinaryIn(cx, e2, i, xs)
      BY <1>8, Zenon DEF BinaryOn, x, y
    <3>2. xs[1] = y
      OBVIOUS
    <3> QED
      BY <3>1, <3>2, Zenon DEF BinaryIn, SetPut
  <2>2. Emits(n, e1, e2, f, S, f, S) /\ e2.reg = e1.reg
    BY <1>3, <1>5, <1>6, PreserveDoes DEF y
  <2> HIDE DEF e2
  <2>3. Around(n, cx, e2, i, f) /\ e2.pc = e.pc
    BY <1>3, <2>2, AroundLater DEF Emits
  <2>4. Placed(e2, xs, zs) /\ \A k \in DOMAIN zs : zs[k] \in S
    <3>1. \A k \in 1 .. 2 : k = 1 \/ k = 2
      OBVIOUS
    <3> QED
      BY <1>5, <2>2, <3>1 DEF Placed
  <2>5. /\ i[2] \in Slots /\ cx.live[e2.pc + 1] \subseteq Slots
        /\ cx.live[e2.pc + 1] \subseteq S \cup {i[2]} /\ f.regs \in [Slots -> Value]
        /\ f.regs = [s \in Slots |-> f.regs[s]] /\ Wrote(f, f2, i[2], v) /\ IsEmitter(e2)
    <3>1. cx.live[e2.pc] = S
      BY <2>3
    <3> QED
      BY <1>1, <2>3, <3>1, PureAround
  <2>6. Sure(i, Values(f, zs)) => Computed(i, Values(f, zs)) = v
    <3>1. i[1] \in {"ADD", "MUL"} /\ i[3] \in Slots /\ i[4] \in Slots
      BY <1>5, <1>6, <1>8 DEF Swaps
    <3>2. f.regs \in [Slots -> Value]
      BY <2>5
    <3> QED
      BY ONLY <3>1, <3>2, SwappedIs
  <2> HIDE DEF xs, zs, v, f2
  <2>7. Emits(n, e2, e3, f, S, f2, cx.live[e2.pc + 1])
    BY <1>5, <1>6, <2>4, <2>5, <2>6, SetPutDoes
  <2>8. DoesIt(n, cx, e2, e3, i, f)
    BY <2>3, <2>7 DEF DoesIt, f2
  <2> HIDE DEF e3
  <2>9. DoesIt(n, cx, e1, e3, i, f)
    BY <1>3, <2>2, <2>8, LoadedFirst
  <2>10. DoesIt(n, cx, e, e3, i, f)
    BY <1>3, <2>9, LoadedFirst
  <2> QED
    BY <1>4, <2>1, <2>10
<1> QED
  BY <1>7, <1>8
-------------------------------------------------------------------------------
(* Copies.                                                                  *)

\* As Sim, but for what register x has.
Half(x, e, m, f, S) ==
  /\ IsMachine(m) /\ Running(m) /\ m.at = Len(e.ops) + 1
  /\ m.args = f.args /\ m.out = f.out
  /\ AgreesBut(x, e.reg, e.dirty, m.regs, m.frame, f.regs, S)

LEMMA CopyStep ==
  ASSUME NEW n, IsSeq(n.ops), NEW e, IsEmitter(e), NEW y \in Places, NEW x \in Places,
         NEW f, NEW S \in SUBSET Slots, NEW m, Sim(e, m, f, S),
         HasOps(n, Then(e, <<"copy", y, x>>).ops)
  PROVE  \E m2 : /\ Gets(n, m, m2) /\ Half(y, Then(e, <<"copy", y, x>>), m2, f, S)
                 /\ m2.regs = [m.regs EXCEPT ![y] = m.regs[x]]
                 /\ (y \in Regs => e.reg[y] = Empty) => Sim(Then(e, <<"copy", y, x>>), m2, f, S)
<1> DEFINE op == <<"copy", y, x>>
           e2 == Then(e, op)
           regs == [m.regs EXCEPT ![y] = m.regs[x]]
           m2 == Exec(n, m)
<1>1. /\ e2.reg = e.reg /\ e2.dirty = e.dirty /\ e2.ops = Append(e.ops, op)
  <2> HIDE DEF op
  <2> QED
    BY ThenIs DEF Made
<1>2. OpOf(n, m) = op /\ m.at + 1 = Len(e2.ops) + 1
  <2>1. m.at = Len(e.ops) + 1 /\ HasOps(n, Append(e.ops, op))
    BY <1>1 DEF Sim
  <2> HIDE DEF op
  <2> QED
    BY <1>1, <2>1, OpHere DEF OpOf, IsEmitter
<1>3. m2 = With(m, m.at + 1, regs, m.frame, m.args, m.out, m.guessed)
  BY <1>2, ExecCopy DEF Sim
<1>4. /\ m.frame = [r \in Slots |-> m.frame[r]] /\ regs = [z \in Places |-> regs[z]]
      /\ m.args = f.args /\ m.out = f.out /\ Running(m)
  BY DEF Sim, IsMachine
<1>5. Gets(n, m, m2)
  BY <1>4, GetsStep
<1>6. \A z \in Regs : z # y => regs[z] = m.regs[z]
  BY EmptyIsNoSlot DEF Sim, IsMachine
<1>7. Agrees(e.reg, e.dirty, m.regs, m.frame, f.regs, S)
  BY DEF Sim
<1> HIDE DEF m2, regs, e2, op
<1>8. /\ IsMachine(m2) /\ m2.at = m.at + 1 /\ m2.regs = regs /\ m2.frame = m.frame
      /\ m2.args = m.args /\ m2.out = m.out /\ m2.end = m.end
  BY <1>3, <1>4, WithFacts
<1>9. Running(m2)
  BY <1>4, <1>8, Zenon DEF Running
<1>10. AgreesBut(y, e2.reg, e2.dirty, m2.regs, m2.frame, f.regs, S)
  BY <1>1, <1>6, <1>7, <1>8 DEF Agrees, AgreesBut
<1>11. Half(y, e2, m2, f, S)
  BY <1>2, <1>4, <1>8, <1>9, <1>10 DEF Half
<1>12. ASSUME y \in Regs => e.reg[y] = Empty PROVE Sim(e2, m2, f, S)
  <2>1. Agrees(e2.reg, e2.dirty, m2.regs, m2.frame, f.regs, S)
    BY <1>1, <1>10, <1>12, EmptyIsNoSlot DEF Agrees, AgreesBut
  <2> QED
    BY <1>2, <1>4, <1>8, <1>9, <2>1 DEF Sim
<1> QED
  BY <1>5, <1>8, <1>11, <1>12 DEF e2, regs, op

-------------------------------------------------------------------------------

\* PutSim, of a machine that is half there.
LEMMA HalfPut ==
  ASSUME NEW cx, NEW e, IsEmitter(e), NEW x \in Regs, NEW d \in Slots, NEW f, NEW f2, NEW v,
         f.regs = [s \in Slots |-> f.regs[s]], Wrote(f, f2, d, v),
         NEW S \in SUBSET Slots, cx.live[e.pc + 1] \subseteq Slots, cx.live[e.pc + 1] \subseteq S \cup {d},
         NEW m, Half(x, e, m, f, S), m.regs[x] = v, Put(cx, e, x, d).flaws = {}
  PROVE  Sim(Put(cx, e, x, d), m, f2, cx.live[e.pc + 1])
<1>1. /\ IsMachine(m) /\ Running(m) /\ m.at = Len(e.ops) + 1
      /\ AgreesBut(x, e.reg, e.dirty, m.regs, m.frame, f.regs, S)
      /\ m.args = f2.args /\ m.out = f2.out
  BY DEF Half, Wrote
<1> QED
  BY <1>1, PutSim

\* In a copy: the source keeps its register.
LEMMA CopiedDoes ==
  ASSUME NEW n, NEW cx, NEW e, NEW i, NEW f, Around(n, cx, e, i, f), i[1] \in ImmOps,
         NEW s \in cx.live[e.pc], Operands(i) = <<s>>, NEW x \in Regs, e.reg[x] = s,
         NEW y \in Regs, y # x
  PROVE  DoesIt(n, cx, e, InPlace(cx, CopyTo(e, x, y), i, y), i, f)
<1> DEFINE S == cx.live[e.pc]
           e1 == Evict(e, y)
           op == <<"copy", y, x>>
           e2 == Then(e1, op)
           ys == <<y>>
           e3 == SetPut(cx, e2, y, i[2], i, ys)
           v == ValueOf(i, f.regs)
           f2 == Effect(i, f)
<1>1. i[1] \in PureOps
  BY DEF PureOps
<1>2. /\ IsSeq(n.ops) /\ IsEmitter(e) /\ i[2] \in Slots /\ S \in SUBSET Slots
      /\ cx.live[e.pc + 1] \subseteq Slots /\ cx.live[e.pc + 1] \subseteq S \cup {i[2]}
      /\ f.regs = [r \in Slots |-> f.regs[r]] /\ Wrote(f, f2, i[2], v)
  BY <1>1, PureAround
<1>3. InPlace(cx, CopyTo(e, x, y), i, y) = e3
  BY Zenon DEF InPlace, CopyTo, SetPut
<1>4. /\ Emits(n, e, e1, f, S, f, S) /\ Adds(e, e1) /\ IsEmitter(e1)
      /\ e1.reg = [e.reg EXCEPT ![y] = Empty]
  BY <1>2, EvictEmits
<1> HIDE DEF e1, f2, v
<1>5. e1.reg[y] = Empty /\ e1.reg[x] = s /\ e1.pc = e.pc
  BY <1>2, <1>4 DEF IsEmitter, Adds, Later
<1>6. Adds(e1, e2) /\ IsEmitter(e2)
  <2> HIDE DEF op
  <2> QED
    BY <1>4, ThenIs DEF Adds, Later
<1>7. e2.pc = e.pc
  BY <1>5, <1>6 DEF Adds, Later
<1>8. Adds(e2, e3)
  <2> HIDE DEF e2, ys
  <2> QED
    BY <1>2, <1>6, SetPutAdds
<1>9. Adds(e1, e3)
  BY <1>4, <1>6, <1>8, AddsOn
<1>10. ASSUME HasOps(n, e3.ops), e3.flaws = {}, NEW m, Sim(e1, m, f, S)
       PROVE  \E m3 : Gets(n, m, m3) /\ (Guessed(m3) \/ Sim(e3, m3, f2, cx.live[e.pc + 1]))
  <2>1. HasOps(n, e2.ops)
    BY <1>2, <1>6, <1>8, <1>10, HasOpsBefore DEF Adds
  <2>2. PICK m2 : Gets(n, m, m2) /\ Sim(e2, m2, f, S) /\ m2.regs = [m.regs EXCEPT ![y] = m.regs[x]]
    <3>1. y \in Places /\ x \in Places
      BY EmptyIsNoSlot
    <3>2. Sim(e1, m, f, S) /\ HasOps(n, Then(e1, <<"copy", y, x>>).ops)
      BY <1>10, <2>1
    <3>3. PICK m2 : /\ Gets(n, m, m2) /\ m2.regs = [m.regs EXCEPT ![y] = m.regs[x]]
                    /\ (y \in Regs => e1.reg[y] = Empty) => Sim(Then(e1, <<"copy", y, x>>), m2, f, S)
      BY ONLY <1>2, <1>4, <3>1, <3>2, CopyStep, Zenon
    <3> QED
      BY <1>5, <3>3
  <2>3. m2.regs[y] = f.regs[s]
    <3>1. m.regs[x] = f.regs[s]
      BY <1>5, <1>10 DEF Sim, Agrees
    <3>2. y \in Places /\ m.regs = [z \in Places |-> m.regs[z]]
      BY <1>10, EmptyIsNoSlot DEF Sim, IsMachine
    <3> QED
      BY <2>2, <3>1, <3>2
  <2>4. ValuesOf(m2, ys) = Values(f, Operands(i))
    BY <2>3 DEF ValuesOf, Values
  <2>5. Computed(i, Values(f, Operands(i))) = v
    BY <1>1, ComputedIs DEF v
  <2> DEFINE vs == Values(f, Operands(i))
  <2> HIDE DEF e2, ys, vs
  <2>6. ValuesOf(m2, ys) = vs /\ (Sure(i, vs) => Computed(i, vs) = v)
    BY <2>4, <2>5 DEF vs
  <2>7. PICK m3 : Gets(n, m2, m3) /\ (Guessed(m3) \/ Sim(e3, m3, f2, cx.live[e2.pc + 1]))
    BY <1>2, <1>6, <1>7, <1>10, <2>2, <2>6, SetPutStep
  <2>8. Gets(n, m, m3)
    BY <2>2, <2>7, GetsOn
  <2> QED
    BY <1>7, <2>7, <2>8
<1> HIDE DEF e3
<1>11. Does(n, e1, e3, f, S, f2, cx.live[e.pc + 1])
  BY <1>10 DEF Does
<1>12. DoesIt(n, cx, e1, e3, i, f)
  BY <1>5, <1>9, <1>11 DEF DoesIt, Emits, f2
<1>13. DoesIt(n, cx, e, e3, i, f)
  BY <1>4, <1>12, LoadedFirst
<1> QED
  BY <1>3, <1>13

LEMMA ImmediateDoes ==
  ASSUME NEW n, NEW cx, NEW e, NEW i, NEW f, Around(n, cx, e, i, f), i[1] \in ImmOps
  PROVE  DoesIt(n, cx, e, EmitImmediate(cx, e, i), i, f)
<1> DEFINE S == cx.live[e.pc]
           s == i[3]
           e1 == Load(e, s, {})
           x == Home(e1, s)
           y == Victim(e1, {x})
<1>1. IsSeq(n.ops) /\ IsEmitter(e) /\ S \in SUBSET Slots
  BY DEF Around, Lives
<1>2. s \in S
  BY ReadsAre DEF Around, Lives
<1>3. Operands(i) = <<s>>
  BY OperandsAre
<1>4. EmitImmediate(cx, e, i) = ImmediateOn(cx, e1, i, x)
  BY DEF EmitImmediate, ImmediateLoaded
<1>5. Loads(n, e, e1, s, {}, f, S)
  <2>1. Regs \ {} # {}
    BY ThirdRegister
  <2> QED
    BY <1>1, <1>2, <2>1, LoadLoads
<1>6. Emits(n, e, e1, f, S, f, S) /\ IsEmitter(e1) /\ e1.pc = e.pc
  BY <1>5, LoadsEmits DEF Later
<1>7. x \in Regs /\ e1.reg[x] = s
  BY <1>5 DEF Loads
<1> HIDE DEF e1, s
<1>8. Around(n, cx, e1, i, f)
  BY <1>6, AroundLater DEF Emits
<1>9. y \in Regs /\ y # x
  <2>1. Regs \ {x} # {}
    BY ThirdRegister
  <2> QED
    BY <1>6, <2>1, VictimIs
<1>10. DoesIt(n, cx, e1, InPlace(cx, e1, i, x), i, f)
  BY <1>2, <1>3, <1>6, <1>7, <1>8, InPlaceDoes
<1> HIDE DEF x, y
<1>11. DoesIt(n, cx, e1, InPlace(cx, CopyTo(e1, x, y), i, y), i, f)
  BY <1>2, <1>3, <1>6, <1>7, <1>8, <1>9, CopiedDoes
<1>12. \/ ImmediateOn(cx, e1, i, x) = InPlace(cx, e1, i, x)
       \/ ImmediateOn(cx, e1, i, x) = InPlace(cx, CopyTo(e1, x, y), i, y)
  BY Zenon DEF ImmediateOn, y
<1>13. DoesIt(n, cx, e1, ImmediateOn(cx, e1, i, x), i, f)
  BY <1>10, <1>11, <1>12
<1>14. DoesIt(n, cx, e, ImmediateOn(cx, e1, i, x), i, f)
  BY <1>6, <1>13, LoadedFirst
<1> QED
  BY <1>4, <1>14

\* Register Scratch is set, and the cache is as before.
SetScratch(i, xs) == <<"set", Scratch, i, xs, FALSE>>

\* What is computed of xs, v, comes to be in Scratch.
SetsScratch(n, e, i, xs, v, f, S, m) ==
  \E m2 : /\ Gets(n, m, m2)
          /\ \/ Guessed(m2)
             \/ Sim(Then(e, SetScratch(i, xs)), m2, f, S) /\ m2.regs[Scratch] = v

LEMMA ScratchStep ==
  ASSUME NEW n, IsSeq(n.ops), NEW e, IsEmitter(e), NEW i, NEW xs, NEW f, NEW S \in SUBSET Slots,
         NEW m, Sim(e, m, f, S), NEW v,
         Sure(i, ValuesOf(m, xs)) => Computed(i, ValuesOf(m, xs)) = v,
         HasOps(n, Then(e, SetScratch(i, xs)).ops)
  PROVE  SetsScratch(n, e, i, xs, v, f, S, m)
<1> DEFINE vs == ValuesOf(m, xs)
<1>1. Sure(i, vs) => Computed(i, vs) = v
  OBVIOUS
<1> HIDE DEF vs
<1> DEFINE no == FALSE
           op == <<"set", Scratch, i, xs, no>>
           e1 == Then(e, op)
<1>0. Then(e, SetScratch(i, xs)) = e1
  BY Zenon DEF no, op, e1, SetScratch
<1> HIDE DEF op, no
<1>2. /\ e1.reg = e.reg /\ e1.dirty = e.dirty /\ e1.ops = Append(e.ops, op)
  BY ThenIs DEF Made
<1> HIDE DEF e1
<1> DEFINE g == NowGuessed(m, i, vs, no)
           regs == [m.regs EXCEPT ![Scratch] = Outcome(i, vs, no)]
           m2 == Exec(n, m)
<1>4. OpOf(n, m) = op /\ m.at + 1 = Len(e1.ops) + 1
  <2>1. m.at = Len(e.ops) + 1 /\ HasOps(n, Append(e.ops, op))
    BY <1>0, <1>2 DEF Sim
  <2> QED
    BY <1>2, <2>1, OpHere DEF OpOf, IsEmitter
<1>5. m2 = With(m, m.at + 1, regs, m.frame, m.args, m.out, g)
  <2>1. IsMachine(m) /\ Scratch \in Places /\ OpOf(n, m) = <<"set", Scratch, i, xs, no>>
    BY <1>4, EmptyIsNoSlot DEF Sim, op
  <2>2. m2 = SetTo(m, Scratch, i, ValuesOf(m, xs), no)
    BY <2>1, ExecSet
  <2>3. After1(m, no) = m.regs
    BY DEF After1, no
  <2> HIDE DEF m2
  <2> QED
    BY <2>2, <2>3, Zenon DEF SetTo, vs
<1>6. /\ m.frame = [r \in Slots |-> m.frame[r]] /\ regs = [y \in Places |-> regs[y]]
      /\ m.args = f.args /\ m.out = f.out /\ Running(m)
  BY DEF Sim, IsMachine
<1>7. Gets(n, m, m2)
  BY <1>6, GetsStep
<1>8. /\ regs[Scratch] = Outcome(i, vs, no) /\ \A y \in Regs : regs[y] = m.regs[y]
  BY EmptyIsNoSlot DEF Sim, IsMachine
<1> HIDE DEF m2, regs, g
<1>9. /\ IsMachine(m2) /\ m2.at = m.at + 1 /\ m2.regs = regs /\ m2.frame = m.frame
      /\ m2.args = m.args /\ m2.out = m.out /\ m2.guessed = g /\ m2.end = m.end
  BY <1>5, <1>6, WithFacts
<1>10. CASE Guesses(i, vs, no)
  <2>1. Guessed(m2)
    BY <1>9, <1>10, Zenon DEF Guessed, NowGuessed, g
  <2> QED
    BY <1>7, <2>1 DEF SetsScratch
<1>11. CASE ~Guesses(i, vs, no)
  <2>1. Outcome(i, vs, no) = v
    BY <1>1, <1>11 DEF Outcome, no, Sure
  <2>2. Running(m2)
    BY <1>6, <1>9, Zenon DEF Running
  <2>3. Agrees(e1.reg, e1.dirty, m2.regs, m2.frame, f.regs, S)
    <3>1. Agrees(e.reg, e.dirty, m.regs, m.frame, f.regs, S)
      BY DEF Sim
    <3> QED
      BY <1>2, <1>8, <1>9, <3>1 DEF Agrees
  <2>4. Sim(e1, m2, f, S)
    BY <1>4, <1>6, <1>9, <2>2, <2>3 DEF Sim
  <2> QED
    BY <1>0, <1>7, <1>8, <1>9, <2>1, <2>4 DEF SetsScratch
<1> QED
  BY <1>10, <1>11

\* The register of a source that is read again is stored, and all keep what
\* they have.
LEMMA PreserveStep ==
  ASSUME NEW n, IsSeq(n.ops), NEW cx, NEW e, IsEmitter(e), NEW i, NEW s, Home(e, s) \in Regs,
         NEW f, NEW S \in SUBSET Slots, NEW m, Sim(e, m, f, S), HasOps(n, Preserve(cx, e, i, s).ops)
  PROVE  \E m2 : Gets(n, m, m2) /\ Sim(Preserve(cx, e, i, s), m2, f, S) /\ m2.regs = m.regs
<1>1. CASE Preserve(cx, e, i, s) = e
  BY <1>1, GetsNowhere
<1>2. CASE Preserve(cx, e, i, s) = Store(e, Home(e, s))
  BY <1>2, StoreStep
<1> QED
  BY <1>1, <1>2 DEF Preserve

LEMMA PreserveAdds ==
  ASSUME NEW cx, NEW e, IsEmitter(e), NEW i, NEW s, Home(e, s) \in Regs
  PROVE  Adds(e, Preserve(cx, e, i, s)) /\ Preserve(cx, e, i, s).reg = e.reg
<1>1. Adds(e, Store(e, Home(e, s))) /\ Store(e, Home(e, s)).reg = e.reg
  BY StoreIs DEF Made
<1> QED
  BY <1>1, LaterItself DEF Preserve

-------------------------------------------------------------------------------

\* The result is computed in Scratch, behind the cache, and copied.
LEMMA NegateDoes ==
  ASSUME NEW n, NEW cx, NEW e, NEW i, NEW f, Around(n, cx, e, i, f), i[1] = "NEG",
         i[3] \in cx.live[e.pc], NEW x, x = Home(e, i[3]), x \in Regs, e.reg[x] = i[3]
  PROVE  DoesIt(n, cx, e, NegateIn(cx, e, i, x), i, f)
<1> DEFINE S == cx.live[e.pc]
           xs == <<x>>
           op == SetScratch(i, xs)
           e1 == Then(e, op)
           e2 == Preserve(cx, e1, i, i[3])
           cp == <<"copy", x, Scratch>>
           e3 == Then(e2, cp)
           e4 == Put(cx, e3, x, i[2])
           v == ValueOf(i, f.regs)
           f2 == Effect(i, f)
<1>1. i[1] \in PureOps
  BY DEF PureOps
<1>2. /\ IsSeq(n.ops) /\ IsEmitter(e) /\ i[2] \in Slots /\ S \in SUBSET Slots
      /\ cx.live[e.pc + 1] \subseteq Slots /\ cx.live[e.pc + 1] \subseteq S \cup {i[2]}
      /\ f.regs = [r \in Slots |-> f.regs[r]] /\ Wrote(f, f2, i[2], v)
  BY <1>1, PureAround
<1>3. NegateIn(cx, e, i, x) = e4
  BY Zenon DEF NegateIn, SetScratch
<1>4. Operands(i) = <<i[3]>>
  BY OperandsAre
<1>5. Computed(i, Values(f, Operands(i))) = v
  BY <1>1, ComputedIs
<1> HIDE DEF f2, v
<1>6. Adds(e, e1) /\ e1.reg = e.reg
  <2> HIDE DEF op
  <2> QED
    BY <1>2, ThenIs DEF Made
<1>7. IsEmitter(e1) /\ e1.pc = e.pc /\ Home(e1, i[3]) = x
  BY <1>6 DEF Adds, Later, Home
<1>8. Adds(e1, e2)
  <2> HIDE DEF e1
  <2> QED
    BY <1>7, PreserveAdds
<1>9. IsEmitter(e2) /\ e2.pc = e.pc
  BY <1>7, <1>8 DEF Adds, Later
<1>10. Adds(e2, e3)
  <2> HIDE DEF e2, cp
  <2> QED
    BY <1>9, ThenIs
<1>11. IsEmitter(e3) /\ e3.pc = e.pc
  BY <1>9, <1>10 DEF Adds, Later
<1>12. Adds(e3, e4) /\ e4.ops = e3.ops
  <2> HIDE DEF e3
  <2> QED
    BY <1>2, <1>11, PutAdds
<1>13. Adds(e, e4)
  <2>1. Adds(e, e2)
    BY <1>2, <1>6, <1>8, AddsOn
  <2>2. Adds(e, e3)
    BY <1>2, <1>10, <2>1, AddsOn
  <2> QED
    BY <1>2, <1>12, <2>2, AddsOn
<1>14. ASSUME HasOps(n, e4.ops), e4.flaws = {}, NEW m, Sim(e, m, f, S)
       PROVE  \E m4 : Gets(n, m, m4) /\ (Guessed(m4) \/ Sim(e4, m4, f2, cx.live[e.pc + 1]))
  <2>1. HasOps(n, e3.ops)
    BY <1>12, <1>14
  <2>2. HasOps(n, e2.ops)
    BY <1>2, <1>9, <1>10, <2>1, HasOpsBefore DEF Adds
  <2>3. HasOps(n, e1.ops)
    BY <1>2, <1>7, <1>8, <2>2, HasOpsBefore DEF Adds
  <2> DEFINE vs == Values(f, Operands(i))
  <2>4. ValuesOf(m, xs) = vs
    <3>1. m.regs[x] = f.regs[i[3]]
      BY <1>14 DEF Sim, Agrees
    <3> QED
      BY <1>4, <3>1 DEF ValuesOf, Values
  <2>5. Sure(i, vs) => Computed(i, vs) = v
    BY <1>5
  <2> HIDE DEF vs, xs
  <2>51. Sure(i, ValuesOf(m, xs)) => Computed(i, ValuesOf(m, xs)) = v
    BY <2>4, <2>5
  <2>6. PICK m1 : Gets(n, m, m1) /\ (Guessed(m1) \/ (Sim(e1, m1, f, S) /\ m1.regs[Scratch] = v))
    <3>1. HasOps(n, Then(e, SetScratch(i, xs)).ops) /\ Sim(e, m, f, S)
      BY <1>14, <2>3
    <3>2. SetsScratch(n, e, i, xs, v, f, S, m)
      BY ONLY <1>2, <2>51, <3>1, ScratchStep
    <3> QED
      BY <3>2 DEF SetsScratch
  <2>7. CASE Guessed(m1)
    BY <2>6, <2>7
  <2>8. CASE Sim(e1, m1, f, S) /\ m1.regs[Scratch] = v
    <3>1. PICK m2 : Gets(n, m1, m2) /\ Sim(e2, m2, f, S) /\ m2.regs = m1.regs
      <4> HIDE DEF e1
      <4> QED
        BY <1>2, <1>7, <2>2, <2>8, PreserveStep
    <3>2. PICK m3 : Gets(n, m2, m3) /\ Half(x, e3, m3, f, S) /\ m3.regs = [m2.regs EXCEPT ![x] = m2.regs[Scratch]]
      <4>1. x \in Places /\ Scratch \in Places
        BY EmptyIsNoSlot
      <4> HIDE DEF e2
      <4> QED
        BY ONLY <1>2, <1>9, <2>1, <3>1, <4>1, CopyStep
    <3>3. m3.regs[x] = v
      <4>1. m2.regs[Scratch] = v
        BY <2>8, <3>1
      <4>2. x \in Places /\ m2.regs = [z \in Places |-> m2.regs[z]]
        BY <3>1, EmptyIsNoSlot DEF Sim, IsMachine
      <4> QED
        BY <3>2, <4>1, <4>2
    <3>4. Sim(e4, m3, f2, cx.live[e3.pc + 1])
      <4> HIDE DEF e3
      <4> QED
        BY <1>2, <1>11, <1>14, <3>2, <3>3, HalfPut
    <3>5. Gets(n, m, m3)
      BY <2>6, <3>1, <3>2, GetsOn
    <3> QED
      BY <1>11, <3>4, <3>5
  <2> QED
    BY <2>6, <2>7, <2>8
<1> HIDE DEF e4
<1>15. Does(n, e, e4, f, S, f2, cx.live[e.pc + 1])
  BY <1>14 DEF Does
<1>16. DoesIt(n, cx, e, e4, i, f)
  BY <1>13, <1>15 DEF DoesIt, Emits, f2
<1> QED
  BY <1>3, <1>16

LEMMA UnaryDoes ==
  ASSUME NEW n, NEW cx, NEW e, NEW i, NEW f, Around(n, cx, e, i, f), i[1] \in UnaryOps
  PROVE  DoesIt(n, cx, e, EmitUnary(cx, e, i), i, f)
<1> DEFINE S == cx.live[e.pc]
           e1 == LoadOperands(e, Operands(i))
           s == IF i[1] = "NEG" THEN i[3] ELSE i[2]
           x == Home(e1, s)
<1>1. Operands(i) = <<s>>
  BY OperandsAre DEF UnaryOps
<1>2. /\ Emits(n, e, e1, f, S, f, S) /\ Around(n, cx, e1, i, f) /\ e1.pc = e.pc /\ IsEmitter(e1)
      /\ Placed(e1, HomesOf(e1, Operands(i)), Operands(i))
      /\ \A k \in DOMAIN Operands(i) : Operands(i)[k] \in S
  <2>1. e1 = LoadOperands(e, Operands(i))
    OBVIOUS
  <2> HIDE DEF e1
  <2> QED
    BY <2>1, PureLoaded
<1> HIDE DEF e1
<1>3. x \in Regs /\ e1.reg[x] = s /\ s \in S
  <2>1. 1 \in DOMAIN Operands(i) /\ Operands(i)[1] = s
    BY <1>1
  <2>2. HomesOf(e1, Operands(i))[1] = x
    BY <2>1 DEF HomesOf
  <2> QED
    BY <1>2, <2>1, <2>2 DEF Placed
<1>4. CASE i[1] = "NEG"
  <2>1. EmitUnary(cx, e, i) = NegateIn(cx, e1, i, x) /\ s = i[3]
    BY <1>4 DEF EmitUnary, UnaryOn, e1
  <2>2. DoesIt(n, cx, e1, NegateIn(cx, e1, i, x), i, f)
    BY <1>2, <1>3, <1>4, <2>1, NegateDoes
  <2> QED
    BY <1>2, <2>1, <2>2, LoadedFirst
<1>5. CASE i[1] # "NEG"
  <2>1. EmitUnary(cx, e, i) = InPlace(cx, e1, i, x) /\ i[1] \in {"INC", "DEC"}
    BY <1>5 DEF EmitUnary, UnaryOn, e1, UnaryOps
  <2> HIDE DEF s
  <2>2. DoesIt(n, cx, e1, InPlace(cx, e1, i, x), i, f)
    BY <1>1, <1>2, <1>3, <2>1, InPlaceDoes
  <2> QED
    BY <1>2, <2>1, <2>2, LoadedFirst
<1> QED
  BY <1>4, <1>5
-------------------------------------------------------------------------------
(* With everything in memory, a helper may use every register.              *)

LEMMA HelperDoes ==
  ASSUME NEW n, NEW cx, NEW e, NEW i, NEW f, Around(n, cx, e, i, f), i[1] \in PureOps,
         NEW xs, Placed(e, xs, Operands(i)), e.dirty = {},
         \A k \in DOMAIN Operands(i) : Operands(i)[k] \in cx.live[e.pc]
  PROVE  DoesIt(n, cx, e, Put(cx, Then(Cleared(e), <<"set", 0, i, xs, TRUE>>), 0, i[2]), i, f)
<1> DEFINE S == cx.live[e.pc]
           sure == TRUE
           op == <<"set", 0, i, xs, sure>>
           e1 == Cleared(e)
           e2 == Then(e1, op)
           e3 == Put(cx, e2, 0, i[2])
           v == ValueOf(i, f.regs)
           vs == Values(f, Operands(i))
           f2 == Effect(i, f)
<1>0. Put(cx, Then(Cleared(e), <<"set", 0, i, xs, TRUE>>), 0, i[2]) = e3
  BY Zenon DEF op, sure
<1>2. /\ IsSeq(n.ops) /\ IsEmitter(e) /\ i[2] \in Slots /\ S \in SUBSET Slots
      /\ cx.live[e.pc + 1] \subseteq Slots /\ cx.live[e.pc + 1] \subseteq S \cup {i[2]}
      /\ f.regs = [r \in Slots |-> f.regs[r]] /\ Wrote(f, f2, i[2], v)
  BY PureAround
<1>3. Computed(i, vs) = v
  BY ComputedIs
<1> HIDE DEF f2, v, op, sure
<1>4. Adds(e, e1) /\ e1.reg = Nothing /\ e1.dirty = {} /\ e1.ops = e.ops /\ IsEmitter(e1)
  BY <1>2, ClearedIs DEF Made, Adds, Later
<1> HIDE DEF e1
<1>5. /\ Adds(e1, e2) /\ e2.reg = Nothing /\ e2.dirty = {} /\ e2.ops = Append(e.ops, op)
  BY <1>4, ThenIs DEF Made
<1>6. IsEmitter(e2) /\ e2.pc = e.pc
  BY <1>4, <1>5 DEF Adds, Later
<1> HIDE DEF e2
<1>7. Adds(e2, e3) /\ e3.ops = e2.ops
  BY <1>2, <1>6, EmptyIsNoSlot, PutAdds
<1>8. Adds(e, e3)
  <2>1. Adds(e, e2)
    BY <1>2, <1>4, <1>5, AddsOn
  <2> QED
    BY <1>2, <1>7, <2>1, AddsOn
<1>9. ASSUME HasOps(n, e3.ops), e3.flaws = {}, NEW m, Sim(e, m, f, S)
      PROVE  \E m3 : Gets(n, m, m3) /\ Sim(e3, m3, f2, cx.live[e.pc + 1])
  <2> DEFINE m2 == Exec(n, m)
             regs == [Junked EXCEPT ![0] = v]
             g == NowGuessed(m, i, vs, sure)
  <2>1. OpOf(n, m) = op /\ m.at + 1 = Len(e2.ops) + 1
    <3>1. m.at = Len(e.ops) + 1 /\ HasOps(n, Append(e.ops, op))
      BY <1>5, <1>7, <1>9 DEF Sim
    <3> QED
      BY <1>2, <1>5, <3>1, OpHere DEF OpOf, IsEmitter
  <2>2. ValuesOf(m, xs) = vs
    BY <1>9, PlacedValues
  <2> HIDE DEF vs
  <2>3. m2 = With(m, m.at + 1, regs, m.frame, m.args, m.out, g)
    <3>1. IsMachine(m) /\ 0 \in Places /\ OpOf(n, m) = <<"set", 0, i, xs, sure>>
      BY <1>9, <2>1, EmptyIsNoSlot DEF Sim, op
    <3>2. m2 = SetTo(m, 0, i, ValuesOf(m, xs), sure)
      BY <3>1, ExecSet
    <3>3. After1(m, sure) = Junked
      BY DEF After1, sure
    <3>4. Outcome(i, vs, sure) = v
      BY <1>3 DEF Outcome, Guesses, sure
    <3> HIDE DEF m2
    <3> QED
      BY <2>2, <3>2, <3>3, <3>4, Zenon DEF SetTo
  <2>4. /\ m.frame = [r \in Slots |-> m.frame[r]] /\ regs = [y \in Places |-> regs[y]]
        /\ m.args = f.args /\ m.out = f.out /\ Running(m) /\ regs[0] = v
    BY <1>9, EmptyIsNoSlot DEF Sim, IsMachine, Junked
  <2>5. Gets(n, m, m2)
    BY <2>4, GetsStep
  <2> HIDE DEF m2, regs, g
  <2>6. /\ IsMachine(m2) /\ m2.at = m.at + 1 /\ m2.regs = regs /\ m2.frame = m.frame
        /\ m2.args = m.args /\ m2.out = m.out /\ m2.end = m.end
    BY <2>3, <2>4, WithFacts
  <2>7. Running(m2)
    BY <2>4, <2>6, Zenon DEF Running
  <2>8. AgreesBut(0, e2.reg, e2.dirty, m2.regs, m2.frame, f.regs, S)
    <3>1. Agrees(e.reg, e.dirty, m.regs, m.frame, f.regs, S)
      BY <1>9 DEF Sim
    <3> QED
      BY <1>2, <1>5, <2>6, <3>1, EmptyIsNoSlot DEF Agrees, AgreesBut, Nothing
  <2>9. Half(0, e2, m2, f, S)
    BY <2>1, <2>4, <2>6, <2>7, <2>8 DEF Half
  <2>10. Sim(e3, m2, f2, cx.live[e2.pc + 1])
    BY <1>2, <1>6, <1>9, <2>4, <2>6, <2>9, EmptyIsNoSlot, HalfPut
  <2> QED
    BY <1>6, <2>5, <2>10
<1> HIDE DEF e3
<1>10. Does(n, e, e3, f, S, f2, cx.live[e.pc + 1])
  BY <1>9 DEF Does
<1> QED
  BY <1>0, <1>8, <1>10 DEF DoesIt, Emits, f2

LEMMA CheckedDoes ==
  ASSUME NEW n, NEW cx, NEW e, NEW i, NEW f, Around(n, cx, e, i, f),
         i[1] \in ArithOps \cup ImmOps \cup UnaryOps \cup CmpOps
  PROVE  DoesIt(n, cx, e, EmitChecked(cx, e, i), i, f)
<1> DEFINE S == cx.live[e.pc]
           ss == Operands(i)
           e1 == LoadOperands(e, ss)
           xs == HomesOf(e1, ss)
           e2 == StoreAll(e1, Regs)
           e3 == Put(cx, Then(Cleared(e2), <<"set", 0, i, xs, TRUE>>), 0, i[2])
<1>1. i[1] \in PureOps
  BY DEF PureOps, UnaryOps
<1>2. /\ Emits(n, e, e1, f, S, f, S) /\ Around(n, cx, e1, i, f) /\ e1.pc = e.pc /\ IsEmitter(e1)
      /\ Placed(e1, xs, ss) /\ \A k \in DOMAIN ss : ss[k] \in S
  <2>1. e1 = LoadOperands(e, Operands(i))
    OBVIOUS
  <2> HIDE DEF e1
  <2> QED
    BY <2>1, PureLoaded
<1>3. EmitChecked(cx, e, i) = e3
  BY Zenon DEF EmitChecked, CheckedOn, Flush
<1>4. IsSeq(n.ops) /\ S \in SUBSET Slots
  BY DEF Around, Lives
<1> HIDE DEF e1, xs
<1>5. Stores(n, e1, e2, Regs, f, S)
  BY <1>2, <1>4, StoreAllStores
<1> HIDE DEF e2
<1>6. Emits(n, e1, e2, f, S, f, S) /\ Adds(e1, e2) /\ e2.reg = e1.reg
  BY <1>5 DEF Stores, Emits
<1>7. e2.dirty = {}
  BY <1>2, <1>5 DEF Stores, IsEmitter
<1>8. Placed(e2, xs, ss)
  BY <1>2, <1>6 DEF Placed
<1>9. Around(n, cx, e2, i, f) /\ e2.pc = e.pc
  BY <1>2, <1>6, AroundLater
<1>10. DoesIt(n, cx, e2, e3, i, f)
  BY <1>1, <1>2, <1>7, <1>8, <1>9, HelperDoes
<1> HIDE DEF e3
<1>11. DoesIt(n, cx, e1, e3, i, f)
  BY <1>2, <1>6, <1>10, LoadedFirst
<1>12. DoesIt(n, cx, e, e3, i, f)
  BY <1>2, <1>11, LoadedFirst
<1> QED
  BY <1>3, <1>12

-------------------------------------------------------------------------------
(* Instructions that use memory.                                            *)

LEMMA PushForm ==
  ASSUME NEW R, NEW f, Is(f, R), NEW i, i[1] = "PUSH_ARG"
  PROVE  Effect(i, f) = [regs |-> f.regs, args |-> Append(f.args, f.regs[i[2]]), iters |-> f.iters,
                         out |-> f.out, value |-> f.value]
<1>1. ~(i[1] \in JumpOps) /\ ~(i[1] \in ForOps) /\ ~(i[1] \in CallOps) /\ ~(i[1] \in ReturnOps)
  BY DEF CallOps, JumpOps, ImmJumps, RegJumps, NoneJumps, ForOps, ReturnOps
<1>2. Effect(i, f) = [f EXCEPT !.args = Append(@, f.regs[i[2]])]
  BY <1>1, Zenon DEF Effect
<1> DEFINE a == Append(f.args, f.regs[i[2]])
<1>3. Effect(i, f) = [f EXCEPT !.args = a]
  BY <1>2
<1> HIDE DEF a
<1>4. Effect(i, f) = [regs |-> f.regs, args |-> a, iters |-> f.iters, out |-> f.out, value |-> f.value]
  BY <1>3 DEF Is
<1> QED
  BY <1>4, Zenon DEF a

\* Nothing is in the cache, and the frame has the values.
InMemory(e, m, f, S) ==
  /\ IsMachine(m) /\ Running(m) /\ m.at = Len(e.ops) + 1
  /\ m.args = f.args /\ m.out = f.out /\ \A s \in S : m.frame[s] = f.regs[s]

LEMMA MemorySim ==
  ASSUME NEW e, e.reg = Nothing, e.dirty = {}, NEW m, NEW f, NEW S \in SUBSET Slots
  PROVE  Sim(e, m, f, S) <=> InMemory(e, m, f, S)
<1>1. \A x \in Regs : Nothing[x] \notin S
  BY EmptyIsNoSlot DEF Nothing
<1>2. Agrees(e.reg, e.dirty, m.regs, m.frame, f.regs, S) <=> \A s \in S : m.frame[s] = f.regs[s]
  BY <1>1 DEF Agrees
<1> QED
  BY <1>2 DEF Sim, InMemory

LEMMA PushDoes ==
  ASSUME NEW n, NEW cx, NEW e, NEW i, NEW f, Around(n, cx, e, i, f), i[1] = "PUSH_ARG"
  PROVE  DoesIt(n, cx, e, Then(Flush(e), <<"push", i[2]>>), i, f)
<1> DEFINE S == cx.live[e.pc]
           S2 == cx.live[e.pc + 1]
           e1 == Flush(e)
           op == <<"push", i[2]>>
           e2 == Then(e1, op)
           f2 == Effect(i, f)
<1>1. IsSeq(n.ops) /\ IsEmitter(e) /\ S \in SUBSET Slots /\ S2 \in SUBSET Slots /\ i[2] \in S /\ S2 \subseteq S
  <2>1. Reads(i) = {i[2]} /\ Writes(i) = {}
    BY ReadsAre, WritesAre DEF PureOps, CallOps, LoadOps, ArithOps, ImmOps, CmpOps
  <2>2. i[1] \notin Stops
    BY DEF Stops, ReturnOps
  <2> QED
    BY <2>1, <2>2 DEF Around, Lives
<1>2. Flushes(n, e, e1, f, S)
  BY <1>1, FlushFlushes
<1>3. /\ f2.regs = f.regs /\ f2.args = Append(f.args, f.regs[i[2]]) /\ f2.out = f.out
  BY PushForm DEF Around
<1> HIDE DEF e1, f2
<1>4. Emits(n, e, e1, f, S, f, S) /\ IsEmitter(e1) /\ e1.reg = Nothing /\ e1.dirty = {}
  BY <1>2 DEF Flushes, Emits, Adds, Later
<1> HIDE DEF op
<1>5. Adds(e1, e2) /\ e2.reg = Nothing /\ e2.dirty = {} /\ e2.ops = Append(e1.ops, op)
  BY <1>4, ThenIs DEF Made
<1> HIDE DEF e2
<1>6. ASSUME HasOps(n, e2.ops), NEW m, Sim(e1, m, f, S)
      PROVE  \E m2 : Gets(n, m, m2) /\ Sim(e2, m2, f2, S2)
  <2> DEFINE m2 == Exec(n, m)
             args == Append(m.args, m.frame[i[2]])
  <2>1. OpOf(n, m) = op /\ m.at + 1 = Len(e2.ops) + 1
    <3>1. m.at = Len(e1.ops) + 1 /\ HasOps(n, Append(e1.ops, op))
      BY <1>5, <1>6 DEF Sim
    <3> QED
      BY <1>1, <1>4, <1>5, <3>1, OpHere DEF OpOf, IsEmitter
  <2>2. InMemory(e1, m, f, S)
    BY <1>1, <1>4, <1>6, MemorySim
  <2>3. m2 = With(m, m.at + 1, Junked, m.frame, args, m.out, m.guessed)
    BY <2>1, <2>2, ExecPush DEF InMemory, op
  <2>4. Gets(n, m, m2)
    BY <2>2, GetsStep DEF InMemory
  <2>5. Junked = [y \in Places |-> Junked[y]] /\ m.frame = [r \in Slots |-> m.frame[r]]
    BY <2>2 DEF InMemory, IsMachine, Junked
  <2> HIDE DEF m2, args
  <2>6. /\ IsMachine(m2) /\ m2.at = m.at + 1 /\ m2.frame = m.frame
        /\ m2.args = args /\ m2.out = m.out /\ m2.end = m.end
    BY <2>3, <2>5, WithFacts
  <2>7. Running(m2)
    BY <2>2, <2>6, Zenon DEF Running, InMemory
  <2>8. InMemory(e2, m2, f2, S2)
    BY <1>1, <1>3, <2>1, <2>2, <2>6, <2>7 DEF InMemory, args
  <2>9. Sim(e2, m2, f2, S2)
    BY <1>1, <1>5, <2>8, MemorySim
  <2> QED
    BY <2>4, <2>9
<1>7. Emits(n, e1, e2, f, S, f2, S2)
  BY <1>5, <1>6 DEF Emits, Does
<1>8. Emits(n, e, e2, f, S, f2, S2)
  BY <1>1, <1>4, <1>7, EmitsOn
<1> QED
  BY <1>8 DEF DoesIt, e2, e1, op, f2

\* The result of the builtin function is loaded.
LEMMA BuiltinDoes ==
  ASSUME NEW n, NEW cx, NEW e, NEW i, NEW f, Around(n, cx, e, i, f), i[1] = "CALL_BUILTIN"
  PROVE  DoesIt(n, cx, e, EmitBuiltin(cx, e, i), i, f)
<1> DEFINE d == i[2]
           S == cx.live[e.pc]
           S2 == cx.live[e.pc + 1]
           T == S \cup {d}
           e1 == Flush(e)
           op == <<"builtin", d>>
           e2 == Then(e1, op)
           ld == <<"load", 0, d>>
           e3 == Then(e2, ld)
           e4 == Put(cx, e3, 0, d)
           f2 == Effect(i, f)
<1>0. EmitBuiltin(cx, e, i) = e4
  BY Zenon DEF EmitBuiltin
<1>1. /\ IsSeq(n.ops) /\ IsEmitter(e) /\ S \in SUBSET Slots /\ S2 \in SUBSET Slots /\ d \in Slots
      /\ S2 \subseteq S \cup {d}
  <2>1. Writes(i) = {i[2]}
    BY WritesAre DEF CallOps
  <2>2. i[1] \notin Stops
    BY DEF Stops, ReturnOps
  <2> QED
    BY <2>1, <2>2 DEF Around, Lives
<1>2. Flushes(n, e, e1, f, S)
  BY <1>1, FlushFlushes
<1>3. /\ f2.regs = [f.regs EXCEPT ![d] = None] /\ f2.args = <<>>
      /\ f2.out = Append(f.out, <<"out", f.args>>)
  BY BuiltinForm DEF Around
<1>31. f.regs = [r \in Slots |-> f.regs[r]]
  BY DEF Around, Is
<1> HIDE DEF e1, f2
<1>4. Emits(n, e, e1, f, S, f, S) /\ IsEmitter(e1) /\ e1.reg = Nothing /\ e1.dirty = {} /\ e1.pc = e.pc
  BY <1>2 DEF Flushes, Emits, Adds, Later
<1> HIDE DEF op
<1>5. Adds(e1, e2) /\ e2.reg = Nothing /\ e2.dirty = {} /\ e2.ops = Append(e1.ops, op)
  BY <1>4, ThenIs DEF Made
<1>51. IsEmitter(e2) /\ e2.pc = e.pc
  BY <1>4, <1>5 DEF Adds, Later
<1> HIDE DEF e2, ld
<1>6. Adds(e2, e3) /\ e3.reg = Nothing /\ e3.dirty = {} /\ e3.ops = Append(e2.ops, ld)
  BY <1>5, <1>51, ThenIs DEF Made
<1>61. IsEmitter(e3) /\ e3.pc = e.pc
  BY <1>51, <1>6 DEF Adds, Later
<1> HIDE DEF e3
<1>7. Adds(e3, e4) /\ e4.ops = e3.ops
  BY <1>1, <1>61, EmptyIsNoSlot, PutAdds
<1>8. Adds(e1, e3) /\ Adds(e1, e4)
  BY <1>4, <1>5, <1>6, <1>7, AddsOn
<1>9. ASSUME HasOps(n, e4.ops), e4.flaws = {}, NEW m, Sim(e1, m, f, S)
      PROVE  \E m3 : Gets(n, m, m3) /\ Sim(e4, m3, f2, S2)
  <2> DEFINE m2 == Exec(n, m)
             fr == [m.frame EXCEPT ![d] = None]
             out == Append(m.out, <<"out", m.args>>)
  <2>1. HasOps(n, e3.ops)
    BY <1>7, <1>9
  <2>2. HasOps(n, e2.ops)
    BY <1>1, <1>51, <1>6, <2>1, HasOpsBefore DEF Adds
  <2>3. OpOf(n, m) = op /\ m.at + 1 = Len(e2.ops) + 1
    <3>1. m.at = Len(e1.ops) + 1 /\ HasOps(n, Append(e1.ops, op))
      BY <1>5, <1>9, <2>2 DEF Sim
    <3> QED
      BY <1>1, <1>4, <1>5, <3>1, OpHere DEF OpOf, IsEmitter
  <2>4. InMemory(e1, m, f, S)
    BY <1>1, <1>4, <1>9, MemorySim
  <2>5. m2 = With(m, m.at + 1, Junked, fr, <<>>, out, m.guessed)
    BY <2>3, <2>4, ExecBuiltin DEF InMemory, op
  <2>6. Gets(n, m, m2)
    BY <2>4, GetsStep DEF InMemory
  <2>7. Junked = [y \in Places |-> Junked[y]] /\ m.frame = [r \in Slots |-> m.frame[r]]
        /\ fr = [r \in Slots |-> fr[r]]
    BY <2>4 DEF InMemory, IsMachine, Junked
  <2>71. out = f2.out
    BY <1>3, <2>4 DEF InMemory
  <2>72. \A s \in T : fr[s] = f2.regs[s]
    BY <1>1, <1>3, <1>31, <2>4, <2>7 DEF InMemory
  <2> HIDE DEF m2, fr, out
  <2>8. /\ IsMachine(m2) /\ m2.at = m.at + 1 /\ m2.frame = fr
        /\ m2.args = <<>> /\ m2.out = out /\ m2.end = m.end
    BY <2>5, <2>7, WithFacts
  <2>9. Running(m2)
    BY <2>4, <2>8, Zenon DEF Running, InMemory
  <2>10. InMemory(e2, m2, f2, T)
    BY <1>3, <2>3, <2>71, <2>72, <2>8, <2>9 DEF InMemory
  <2> DEFINE m3 == Exec(n, m2)
             regs == [m2.regs EXCEPT ![0] = m2.frame[d]]
  <2>11. OpOf(n, m2) = ld /\ m2.at + 1 = Len(e3.ops) + 1
    <3>1. m2.at = Len(e2.ops) + 1 /\ HasOps(n, Append(e2.ops, ld))
      BY <1>6, <2>1, <2>10 DEF InMemory
    <3> QED
      BY <1>1, <1>51, <1>6, <3>1, OpHere DEF OpOf, IsEmitter
  <2>12. m3 = With(m2, m2.at + 1, regs, m2.frame, m2.args, m2.out, m2.guessed)
    BY <2>8, <2>11, ExecLoad DEF ld
  <2>13. Gets(n, m2, m3)
    BY <2>9, GetsStep
  <2>14. regs = [y \in Places |-> regs[y]] /\ regs[0] = f2.regs[d] /\ m2.frame = [r \in Slots |-> m2.frame[r]]
    BY <2>7, <2>8, <2>72, EmptyIsNoSlot DEF IsMachine
  <2> HIDE DEF m3, regs
  <2>15. /\ IsMachine(m3) /\ m3.at = m2.at + 1 /\ m3.regs = regs /\ m3.frame = m2.frame
         /\ m3.args = m2.args /\ m3.out = m2.out /\ m3.end = m2.end
    BY <2>12, <2>14, WithFacts
  <2>16. Running(m3)
    BY <2>9, <2>15, Zenon DEF Running
  <2>17. AgreesBut(0, e3.reg, e3.dirty, m3.regs, m3.frame, f2.regs, T)
    BY <1>1, <1>6, <2>8, <2>15, <2>72, EmptyIsNoSlot DEF AgreesBut, Nothing
  <2>18. Half(0, e3, m3, f2, T)
    BY <2>10, <2>11, <2>15, <2>16, <2>17 DEF Half, InMemory
  <2>19. Wrote(f2, f2, d, f2.regs[d]) /\ f2.regs = [s \in Slots |-> f2.regs[s]] /\ T \in SUBSET Slots
    BY <1>1, <1>3, <1>31 DEF Wrote
  <2>20. Sim(e4, m3, f2, cx.live[e3.pc + 1])
    <3>1. m3.regs[0] = f2.regs[d]
      BY <2>14, <2>15
    <3>2. cx.live[e3.pc + 1] \subseteq Slots /\ cx.live[e3.pc + 1] \subseteq T \cup {d}
      BY <1>1, <1>61
    <3> HIDE DEF T
    <3> QED
      BY <1>1, <1>61, <1>9, <2>18, <2>19, <3>1, <3>2, EmptyIsNoSlot, HalfPut
  <2>21. Gets(n, m, m3)
    BY <2>6, <2>13, GetsOn
  <2> QED
    BY <1>61, <2>20, <2>21
<1> HIDE DEF e4
<1>10. Emits(n, e1, e4, f, S, f2, S2)
  BY <1>8, <1>9 DEF Emits, Does
<1>11. Emits(n, e, e4, f, S, f2, S2)
  BY <1>1, <1>4, <1>10, EmitsOn
<1> QED
  BY <1>0, <1>11 DEF DoesIt, f2

\* An instruction nothing reads the result of may as well not be.
LEMMA EliminatedDoes ==
  ASSUME NEW n, NEW cx, NEW e, NEW i, NEW f, Around(n, cx, e, i, f), i[1] \in PureOps
  PROVE  DoesIt(n, cx, e, Eliminated(cx, e, i[2]), i, f)
<1> DEFINE d == i[2]
           S == cx.live[e.pc]
           S2 == cx.live[e.pc + 1]
           if == d \in cx.live[e.pc + 1]
           e1 == Flawed(e, "lostValue", if)
           reg == [x \in Regs |-> IF e1.reg[x] = d THEN Empty ELSE e1.reg[x]]
           dirty == e1.dirty \ Holding(e, d)
           e2 == Eliminated(cx, e, d)
           f2 == Effect(i, f)
           v == ValueOf(i, f.regs)
<1>1. /\ IsSeq(n.ops) /\ IsEmitter(e) /\ d \in Slots
      /\ S \in SUBSET Slots /\ S2 \subseteq Slots /\ S2 \subseteq S \cup {d}
      /\ f.regs = [s \in Slots |-> f.regs[s]] /\ Wrote(f, f2, d, v)
  BY PureAround
<1>2. /\ Adds(e, e1) /\ e1.reg = e.reg /\ e1.dirty = e.dirty /\ e1.ops = e.ops
      /\ d \in S2 => e1.flaws # {}
  <2>1. if \in BOOLEAN /\ (d \in S2 => if)
    OBVIOUS
  <2> HIDE DEF if
  <2> QED
    BY <1>1, <2>1, FlawedIs
<1>3. e2 = [e1 EXCEPT !.reg = reg, !.dirty = dirty]
  BY Zenon DEF Eliminated
<1> HIDE DEF e1
<1>4. reg \in [Regs -> Slots \cup {Empty}] /\ dirty \subseteq Regs /\ IsEmitter(e1)
  BY <1>1, <1>2 DEF IsEmitter, Adds, Later
<1> HIDE DEF reg, dirty, e2, f2, v
<1>5. e2 = Made(e1, reg, dirty, e1.ops, e1.flaws)
  BY <1>3, <1>4 DEF Made, IsEmitter
<1>6. IsSeq(e1.ops) /\ Begins(e1.ops, e1.ops)
  BY <1>4, BeginsItself DEF IsEmitter
<1>7. Adds(e1, e2)
  BY <1>4, <1>5, <1>6, MadeAdds
<1>8. e2.reg = reg /\ e2.dirty = dirty /\ e2.ops = e.ops /\ e2.flaws = e1.flaws
  BY <1>2, <1>4, <1>5, <1>6, MadeFacts
<1>9. ASSUME e2.flaws = {}, NEW m, Sim(e, m, f, S) PROVE Sim(e2, m, f2, S2)
  <2>1. d \notin S2 /\ S2 \subseteq S
    BY <1>1, <1>2, <1>8, <1>9
  <2>2. \A s \in S2 : f2.regs[s] = f.regs[s]
    BY <1>1, <2>1 DEF Wrote
  <2>3. Agrees(e.reg, e.dirty, m.regs, m.frame, f.regs, S)
    BY <1>9 DEF Sim
  <2>4. Agrees(e2.reg, e2.dirty, m.regs, m.frame, f2.regs, S2)
    <3>1. \A x \in Regs : e2.reg[x] \in S2 => e2.reg[x] = e.reg[x]
      BY <1>1, <1>2, <1>8, EmptyIsNoSlot DEF reg
    <3>2. \A s \in S2 : \A x \in e.dirty : e.reg[x] = s => x \in e2.dirty /\ e2.reg[x] = s
      BY <1>1, <1>2, <1>8, <2>1 DEF reg, dirty, Holding, IsEmitter
    <3> QED
      BY <2>1, <2>2, <2>3, <3>1, <3>2 DEF Agrees
  <2> QED
    BY <1>1, <1>8, <1>9, <2>4 DEF Sim, Wrote
<1>10. Does(n, e, e2, f, S, f2, S2)
  BY <1>9, GetsNowhere DEF Does
<1>11. Adds(e, e2)
  BY <1>1, <1>2, <1>7, AddsOn
<1> QED
  BY <1>10, <1>11 DEF DoesIt, Emits, e2, f2

-------------------------------------------------------------------------------
(* Calls.                                                                   *)

\* As Sim, but for what the registers have.
Stands(e, m, f, S) ==
  /\ IsMachine(m) /\ Running(m) /\ m.at = Len(e.ops) + 1
  /\ m.args = f.args /\ m.out = f.out
  /\ \A s \in S : (\A x \in e.dirty : e.reg[x] # s) => m.frame[s] = f.regs[s]

LEMMA StandsWith ==
  ASSUME NEW e, NEW m, NEW f, NEW S, Stands(e, m, f, S), NEW e2, e2.reg = e.reg, e2.dirty = e.dirty,
         m.at + 1 = Len(e2.ops) + 1, NEW regs, regs = [x \in Places |-> regs[x]], NEW m2,
         m2 = With(m, m.at + 1, regs, m.frame, m.args, m.out, m.guessed)
  PROVE  Stands(e2, m2, f, S) /\ m2.regs = regs
<1>1. m.frame = [s \in Slots |-> m.frame[s]]
  BY DEF Stands, IsMachine
<1>2. /\ IsMachine(m2) /\ m2.at = m.at + 1 /\ m2.regs = regs /\ m2.frame = m.frame
      /\ m2.args = m.args /\ m2.out = m.out /\ m2.end = m.end
  BY <1>1, WithFacts
<1>3. Running(m2)
  BY <1>2, Zenon DEF Running, Stands
<1> QED
  BY <1>2, <1>3 DEF Stands

\* Place y gets value v, and e2 is next.
SetsPlace(n, m, e2, y, v, f, S) ==
  \E m2 : Gets(n, m, m2) /\ Stands(e2, m2, f, S) /\ m2.regs = [m.regs EXCEPT ![y] = v]

LEMMA CopyStands ==
  ASSUME NEW n, IsSeq(n.ops), NEW e, IsEmitter(e), NEW y \in Places, NEW x, NEW f, NEW S,
         NEW m, Stands(e, m, f, S), NEW e2, e2 = Then(e, <<"copy", y, x>>), HasOps(n, e2.ops)
  PROVE  SetsPlace(n, m, e2, y, m.regs[x], f, S)
<1> DEFINE op == <<"copy", y, x>>
           regs == [m.regs EXCEPT ![y] = m.regs[x]]
           m2 == Exec(n, m)
<1>1. e2.reg = e.reg /\ e2.dirty = e.dirty /\ e2.ops = Append(e.ops, op)
  <2>1. e2 = Then(e, op)
    OBVIOUS
  <2> HIDE DEF op
  <2> QED
    BY <2>1, ThenIs DEF Made
<1> HIDE DEF op
<1>2. OpOf(n, m) = op /\ m.at + 1 = Len(e2.ops) + 1
  <2>1. m.at = Len(e.ops) + 1 /\ HasOps(n, Append(e.ops, op))
    BY <1>1 DEF Stands
  <2> QED
    BY <1>1, <2>1, OpHere DEF OpOf, IsEmitter
<1>3. IsMachine(m) /\ Running(m)
  BY DEF Stands
<1>4. m2 = With(m, m.at + 1, regs, m.frame, m.args, m.out, m.guessed)
  BY <1>2, <1>3, ExecCopy DEF op
<1>5. regs = [z \in Places |-> regs[z]]
  BY <1>3 DEF IsMachine
<1>6. Gets(n, m, m2)
  BY <1>3, GetsStep
<1> HIDE DEF m2, regs
<1>7. Stands(e2, m2, f, S) /\ m2.regs = regs
  BY <1>1, <1>2, <1>4, <1>5, StandsWith
<1> QED
  BY <1>6, <1>7 DEF regs, SetsPlace

LEMMA LoadStands ==
  ASSUME NEW n, IsSeq(n.ops), NEW e, IsEmitter(e), NEW y \in Places, NEW s, NEW f, NEW S,
         NEW m, Stands(e, m, f, S), NEW e2, e2 = Then(e, <<"load", y, s>>), HasOps(n, e2.ops)
  PROVE  SetsPlace(n, m, e2, y, m.frame[s], f, S)
<1> DEFINE op == <<"load", y, s>>
           regs == [m.regs EXCEPT ![y] = m.frame[s]]
           m2 == Exec(n, m)
<1>1. e2.reg = e.reg /\ e2.dirty = e.dirty /\ e2.ops = Append(e.ops, op)
  <2>1. e2 = Then(e, op)
    OBVIOUS
  <2> HIDE DEF op
  <2> QED
    BY <2>1, ThenIs DEF Made
<1> HIDE DEF op
<1>2. OpOf(n, m) = op /\ m.at + 1 = Len(e2.ops) + 1
  <2>1. m.at = Len(e.ops) + 1 /\ HasOps(n, Append(e.ops, op))
    BY <1>1 DEF Stands
  <2> QED
    BY <1>1, <2>1, OpHere DEF OpOf, IsEmitter
<1>3. IsMachine(m) /\ Running(m)
  BY DEF Stands
<1>4. m2 = With(m, m.at + 1, regs, m.frame, m.args, m.out, m.guessed)
  BY <1>2, <1>3, ExecLoad DEF op
<1>5. regs = [z \in Places |-> regs[z]]
  BY <1>3 DEF IsMachine
<1>6. Gets(n, m, m2)
  BY <1>3, GetsStep
<1> HIDE DEF m2, regs
<1>7. Stands(e2, m2, f, S) /\ m2.regs = regs
  BY <1>1, <1>2, <1>4, <1>5, StandsWith
<1> QED
  BY <1>6, <1>7 DEF regs, SetsPlace

LEMMA HomeHolds ==
  ASSUME NEW e, NEW s, Cached(e, s)
  PROVE  Home(e, s) \in Regs /\ e.reg[Home(e, s)] = s
<1>1. PICK x \in Regs : e.reg[x] = s
  BY DEF Cached, Holding
<1> QED
  BY <1>1, HomeIs

\* m has in the registers that hold slot s its value.
Has(e, m, s, f) == \A y \in Regs : e.reg[y] = s => m.regs[y] = f.regs[s]

LEMMA FetchIs ==
  ASSUME NEW e, IsEmitter(e), NEW x, NEW s
  PROVE  /\ Adds(e, Fetch(e, x, s)) /\ Fetch(e, x, s).reg = e.reg /\ Fetch(e, x, s).dirty = e.dirty
         /\ Fetch(e, x, s).flaws = e.flaws /\ IsEmitter(Fetch(e, x, s))
<1> DEFINE op == IF Cached(e, s) THEN <<"copy", x, Home(e, s)>> ELSE <<"load", x, s>>
<1>1. Fetch(e, x, s) = Then(e, op)
  BY Zenon DEF Fetch
<1> HIDE DEF op
<1> QED
  BY <1>1, ThenIs DEF Made, Adds, Later

\* The value of slot s, wherever it is, comes to place x.
LEMMA FetchStep ==
  ASSUME NEW n, IsSeq(n.ops), NEW e, IsEmitter(e), NEW x \in Places, NEW S \in SUBSET Slots, NEW s \in S,
         NEW f, NEW m, Stands(e, m, f, S), Has(e, m, s, f), HasOps(n, Fetch(e, x, s).ops)
  PROVE  SetsPlace(n, m, Fetch(e, x, s), x, f.regs[s], f, S)
<1> DEFINE e2 == Fetch(e, x, s)
<1>1. CASE Cached(e, s)
  <2> DEFINE y == Home(e, s)
  <2>1. e2 = Then(e, <<"copy", x, y>>)
    BY <1>1, Zenon DEF Fetch
  <2>2. m.regs[y] = f.regs[s]
    BY <1>1, HomeHolds DEF Has
  <2> HIDE DEF y, e2
  <2>3. HasOps(n, e2.ops)
    BY DEF e2
  <2>4. SetsPlace(n, m, e2, x, m.regs[y], f, S)
    BY <2>1, <2>3, CopyStands
  <2> QED
    BY <2>2, <2>4 DEF e2
<1>2. CASE ~Cached(e, s)
  <2>1. e2 = Then(e, <<"load", x, s>>)
    BY <1>2, Zenon DEF Fetch
  <2>2. m.frame[s] = f.regs[s]
    BY <1>2 DEF Stands, Cached, Holding, IsEmitter
  <2> HIDE DEF e2
  <2>3. HasOps(n, e2.ops)
    BY DEF e2
  <2>4. SetsPlace(n, m, e2, x, m.frame[s], f, S)
    BY <2>1, <2>3, LoadStands
  <2> QED
    BY <2>2, <2>4 DEF e2
<1> QED
  BY <1>1, <1>2

\* The arguments are in the first registers.
FetchedIs(e, e2, i) ==
  Adds(e, e2) /\ e2.reg = e.reg /\ e2.dirty = e.dirty /\ e2.flaws = e.flaws /\ IsEmitter(e2)
Arrived(i, m, f) == m.regs[0] = f.regs[i[4]] /\ (i[1] = "CALL_2" => m.regs[1] = f.regs[i[4] + 1])

LEMMA FetchedFacts ==
  ASSUME NEW e, IsEmitter(e), NEW i
  PROVE  FetchedIs(e, Fetched(e, i), i)
<1>1. CASE i[1] = "CALL_1"
  BY <1>1, FetchIs DEF Fetched, FetchedIs
<1>2. CASE i[1] # "CALL_1"
  <2> DEFINE e1 == Fetch(e, Scratch, i[4])
             e2 == Fetch(e1, 1, i[4] + 1)
             op == <<"copy", 0, Scratch>>
             e3 == Then(e2, op)
  <2>1. Fetched(e, i) = e3
    BY <1>2, Zenon DEF Fetched
  <2>2. FetchedIs(e, e1, i)
    BY FetchIs DEF FetchedIs
  <2> HIDE DEF e1
  <2>3. FetchedIs(e1, e2, i)
    BY <2>2, FetchIs DEF FetchedIs
  <2> HIDE DEF e2, op
  <2>4. FetchedIs(e2, e3, i)
    BY <2>3, ThenIs DEF FetchedIs, Made, Adds, Later
  <2> HIDE DEF e3
  <2>5. Adds(e, e2)
    BY <2>2, <2>3, AddsOn DEF FetchedIs
  <2>6. Adds(e, e3)
    BY <2>4, <2>5, AddsOn DEF FetchedIs
  <2> QED
    BY <2>1, <2>2, <2>3, <2>4, <2>6 DEF FetchedIs
<1> QED
  BY <1>1, <1>2

LEMMA FetchedStep ==
  ASSUME NEW n, IsSeq(n.ops), NEW e, IsEmitter(e), NEW i, i[1] \in {"CALL_1", "CALL_2"},
         NEW S \in SUBSET Slots, Reads(i) \subseteq S, NEW f, NEW m, Sim(e, m, f, S),
         HasOps(n, Fetched(e, i).ops)
  PROVE  \E m2 : Gets(n, m, m2) /\ Stands(Fetched(e, i), m2, f, S) /\ Arrived(i, m2, f)
<1>1. Stands(e, m, f, S)
  BY DEF Sim, Stands, Agrees
<1>2. \A s \in S : Has(e, m, s, f)
  BY DEF Sim, Agrees, Has
<1>3. m.regs = [x \in Places |-> m.regs[x]] /\ 0 \in Places /\ 1 \in Places /\ Scratch \in Places
      /\ Scratch # 0 /\ Scratch # 1
  BY EmptyIsNoSlot DEF Sim, IsMachine
<1>4. CASE i[1] = "CALL_1"
  <2>1. i[4] \in S /\ Fetched(e, i) = Fetch(e, 0, i[4])
    BY <1>4, ReadsAre DEF Fetched
  <2>2. SetsPlace(n, m, Fetch(e, 0, i[4]), 0, f.regs[i[4]], f, S)
    BY <1>1, <1>2, <1>3, <2>1, FetchStep
  <2> QED
    BY <1>3, <1>4, <2>1, <2>2 DEF Arrived, SetsPlace
<1>5. CASE i[1] = "CALL_2"
  <2> DEFINE s == i[4]
             t == i[4] + 1
             e1 == Fetch(e, Scratch, s)
             e2 == Fetch(e1, 1, t)
             e3 == Then(e2, <<"copy", 0, Scratch>>)
  <2>1. s \in S /\ t \in S
    BY <1>5, ReadsAre
  <2>2. Fetched(e, i) = e3
    BY <1>5, Zenon DEF Fetched
  <2>3. FetchedIs(e, e1, i)
    BY FetchIs DEF FetchedIs
  <2> HIDE DEF e1, t, s
  <2>4. FetchedIs(e1, e2, i)
    BY <2>3, FetchIs DEF FetchedIs
  <2> HIDE DEF e2
  <2>5. HasOps(n, e3.ops)
    BY <2>2
  <2>6. Later(e2, e3)
    <3> DEFINE op == <<"copy", 0, Scratch>>
    <3>1. e3 = Then(e2, op)
      OBVIOUS
    <3> HIDE DEF op
    <3> QED
      BY <2>4, <3>1, ThenIs DEF Adds, FetchedIs
  <2> HIDE DEF e3
  <2>7. HasOps(n, e2.ops)
    BY <2>4, <2>5, <2>6, HasOpsBefore DEF FetchedIs
  <2>8. HasOps(n, e1.ops)
    BY <2>3, <2>4, <2>7, HasOpsBefore DEF FetchedIs, Adds
  <2>9. PICK m1 : Gets(n, m, m1) /\ Stands(e1, m1, f, S) /\ m1.regs = [m.regs EXCEPT ![Scratch] = f.regs[s]]
    <3>1. Has(e, m, s, f) /\ HasOps(n, Fetch(e, Scratch, s).ops)
      BY <1>2, <2>1, <2>8 DEF e1
    <3>2. SetsPlace(n, m, e1, Scratch, f.regs[s], f, S)
      BY <1>1, <1>3, <2>1, <3>1, FetchStep DEF e1
    <3> QED
      BY <3>2 DEF SetsPlace
  <2>10. Has(e1, m1, t, f)
    BY <1>2, <1>3, <2>1, <2>3, <2>9, EmptyIsNoSlot DEF Has, FetchedIs
  <2>11. PICK m2 : Gets(n, m1, m2) /\ Stands(e2, m2, f, S) /\ m2.regs = [m1.regs EXCEPT ![1] = f.regs[t]]
    <3>1. IsEmitter(e1) /\ HasOps(n, Fetch(e1, 1, t).ops)
      BY <2>3, <2>7 DEF e2, FetchedIs
    <3>2. SetsPlace(n, m1, e2, 1, f.regs[t], f, S)
      BY <1>3, <2>1, <2>9, <2>10, <3>1, FetchStep DEF e2
    <3> QED
      BY <3>2 DEF SetsPlace
  <2>12. PICK m3 : Gets(n, m2, m3) /\ Stands(e3, m3, f, S) /\ m3.regs = [m2.regs EXCEPT ![0] = m2.regs[Scratch]]
    <3>1. IsEmitter(e2) /\ e3 = Then(e2, <<"copy", 0, Scratch>>)
      BY <2>4 DEF e3, FetchedIs
    <3>2. SetsPlace(n, m2, e3, 0, m2.regs[Scratch], f, S)
      BY <1>3, <2>5, <2>11, <3>1, CopyStands
    <3> QED
      BY <3>2 DEF SetsPlace
  <2>13. m3.regs[0] = f.regs[s] /\ m3.regs[1] = f.regs[t]
    <3>1. m1.regs = [x \in Places |-> m1.regs[x]] /\ m1.regs[Scratch] = f.regs[s]
      BY <1>3, <2>9
    <3>2. /\ m2.regs = [x \in Places |-> m2.regs[x]] /\ m2.regs[Scratch] = f.regs[s]
          /\ m2.regs[1] = f.regs[t]
      BY <1>3, <2>11, <3>1
    <3> QED
      BY <1>3, <2>12, <3>2
  <2>14. Gets(n, m, m3)
    <3>1. Gets(n, m, m2)
      BY <2>9, <2>11, GetsOn
    <3> QED
      BY <2>12, <3>1, GetsOn
  <2> QED
    BY <2>2, <2>12, <2>13, <2>14 DEF Arrived, s, t
<1> QED
  BY <1>4, <1>5

-------------------------------------------------------------------------------

\* Nothing is lost when the registers xs are given up.
Unlost(cx, e, xs, s) == \A x \in xs \cap e.dirty : e.reg[x] # s => e.reg[x] \notin cx.live[e.pc + 1]

LEMMA AbandonIs ==
  ASSUME NEW cx, NEW e, IsEmitter(e), NEW xs, NEW s
  PROVE  /\ Adds(e, Abandon(cx, e, xs, s)) /\ Abandon(cx, e, xs, s).reg = e.reg
         /\ Abandon(cx, e, xs, s).dirty = e.dirty /\ Abandon(cx, e, xs, s).ops = e.ops
         /\ Abandon(cx, e, xs, s).flaws = {} => Unlost(cx, e, xs, s)
<1> DEFINE if == \E x \in xs \cap e.dirty : e.reg[x] # s /\ e.reg[x] \in cx.live[e.pc + 1]
<1>1. Abandon(cx, e, xs, s) = Flawed(e, "lostValue", if)
  BY Zenon DEF Abandon
<1>2. if \in BOOLEAN
  OBVIOUS
<1>3. ~if => Unlost(cx, e, xs, s)
  BY DEF Unlost
<1> HIDE DEF if
<1> DEFINE w == Flawed(e, "lostValue", if)
<1>4. Adds(e, w) /\ w.reg = e.reg /\ w.dirty = e.dirty /\ w.ops = e.ops /\ (if => w.flaws # {})
  BY <1>2, FlawedIs
<1> HIDE DEF w
<1>5. Abandon(cx, e, xs, s) = w
  BY <1>1 DEF w
<1> QED
  BY <1>3, <1>4, <1>5

\* The arguments as they are passed.
LEMMA ArrivedArguments ==
  ASSUME NEW i, i[1] \in {"CALL_1", "CALL_2"}, NEW m, NEW f, Arrived(i, m, f), NEW k,
         k = IF i[1] = "CALL_1" THEN 1 ELSE 2
  PROVE  [j \in 1 .. k |-> m.regs[j - 1]] = Passed(i, f.regs)
<1>1. CASE i[1] = "CALL_1"
  <2>1. k = 1 /\ m.regs[0] = f.regs[i[4]]
    BY <1>1 DEF Arrived
  <2>2. [j \in 1 .. 1 |-> m.regs[j - 1]] = <<m.regs[0]>>
    OBVIOUS
  <2> QED
    BY <1>1, <2>1, <2>2 DEF Passed
<1>2. CASE i[1] = "CALL_2"
  <2>1. k = 2 /\ m.regs[0] = f.regs[i[4]] /\ m.regs[1] = f.regs[i[4] + 1]
    BY <1>2 DEF Arrived
  <2>2. [j \in 1 .. 2 |-> m.regs[j - 1]] = <<m.regs[0], m.regs[1]>>
    OBVIOUS
  <2> QED
    BY <1>2, <2>1, <2>2 DEF Passed
<1> QED
  BY <1>1, <1>2

LEMMA CallDoes ==
  ASSUME NEW n, NEW cx, NEW e, NEW i, NEW f, Around(n, cx, e, i, f), i[1] \in {"CALL_1", "CALL_2"}
  PROVE  DoesIt(n, cx, e, EmitCall(cx, e, i), i, f)
<1> DEFINE d == i[2]
           S == cx.live[e.pc]
           S2 == cx.live[e.pc + 1]
           T == S2 \ {d}
           homes == {x \in Regs : e.reg[x] \in Arguments1(i)}
           e1 == StoreAll(e, Regs \ homes)
           e2 == Fetched(e1, i)
           k == IF i[1] = "CALL_1" THEN 1 ELSE 2
           op == <<"call", k>>
           e3 == Then(e2, op)
           e4 == Abandon(cx, e3, homes, d)
           e5 == Cleared(e4)
           e6 == Put(cx, e5, 0, d)
           f2 == Effect(i, f)
           args == Passed(i, f.regs)
<1>0. EmitCall(cx, e, i) = e6
  BY Zenon DEF EmitCall, CallWith
<1>1. /\ IsSeq(n.ops) /\ IsEmitter(e) /\ S \in SUBSET Slots /\ S2 \in SUBSET Slots /\ d \in Slots
      /\ S2 \subseteq S \cup {d} /\ Reads(i) \subseteq S
  <2>1. Writes(i) = {i[2]}
    BY WritesAre DEF CallOps
  <2>2. i[1] \notin Stops
    BY DEF Stops, ReturnOps
  <2> QED
    BY <2>1, <2>2 DEF Around, Lives
<1>2. Regs \ homes \in SUBSET Regs /\ homes \subseteq Regs
  OBVIOUS
<1> HIDE DEF homes, k, args, op
<1>3. Stores(n, e, e1, Regs \ homes, f, S)
  BY <1>1, <1>2, StoreAllStores
<1>4. /\ f2.regs = [f.regs EXCEPT ![d] = CallResult(args)] /\ f2.args = f.args
      /\ f2.out = Append(f.out, <<"call", args>>)
  BY UserForm DEF Around, args
<1>5. f.regs = [r \in Slots |-> f.regs[r]]
  BY DEF Around, Is
<1> HIDE DEF e1, f2
<1>6. /\ Emits(n, e, e1, f, S, f, S) /\ IsEmitter(e1) /\ e1.pc = e.pc
      /\ e1.dirty \subseteq homes
  BY <1>1, <1>3 DEF Stores, Emits, Adds, Later, IsEmitter
<1>7. FetchedIs(e1, e2, i)
  BY <1>6, FetchedFacts
<1> HIDE DEF e2
<1>8. IsEmitter(e2) /\ e2.pc = e.pc /\ Adds(e1, e2) /\ e2.dirty \subseteq homes
  BY <1>6, <1>7 DEF FetchedIs, Adds, Later
<1>9. /\ Adds(e2, e3) /\ e3.reg = e2.reg /\ e3.dirty = e2.dirty /\ e3.ops = Append(e2.ops, op)
      /\ IsEmitter(e3) /\ e3.pc = e.pc
  BY <1>8, ThenIs DEF Made, Adds, Later
<1> HIDE DEF e3
<1>10. /\ Adds(e3, e4) /\ e4.reg = e3.reg /\ e4.dirty = e3.dirty /\ e4.ops = e3.ops
       /\ (e4.flaws = {} => Unlost(cx, e3, homes, d))
  BY <1>9, AbandonIs
<1>11. IsEmitter(e4) /\ e4.pc = e.pc
  BY <1>9, <1>10 DEF Adds, Later
<1> HIDE DEF e4
<1>12. /\ Adds(e4, e5) /\ e5.reg = Nothing /\ e5.dirty = {} /\ e5.ops = e4.ops /\ e5.flaws = e4.flaws
       /\ IsEmitter(e5) /\ e5.pc = e.pc
  BY <1>11, ClearedIs DEF Made, Adds, Later
<1> HIDE DEF e5
<1>13. Adds(e5, e6) /\ e6.ops = e5.ops
  BY <1>1, <1>12, EmptyIsNoSlot, PutAdds
<1>14. Adds(e1, e6)
  <2>1. Adds(e1, e3)
    BY <1>6, <1>8, <1>9, AddsOn
  <2>2. Adds(e1, e4)
    BY <1>6, <1>10, <2>1, AddsOn
  <2>3. Adds(e1, e5)
    BY <1>6, <1>12, <2>2, AddsOn
  <2> QED
    BY <1>6, <1>13, <2>3, AddsOn
<1>15. ASSUME HasOps(n, e6.ops), e6.flaws = {}, NEW m, Sim(e1, m, f, S)
       PROVE  \E m2 : Gets(n, m, m2) /\ Sim(e6, m2, f2, S2)
  <2>1. HasOps(n, e3.ops) /\ e4.flaws = {}
    BY <1>10, <1>12, <1>13, <1>15 DEF Adds, Later
  <2>2. HasOps(n, e2.ops)
    BY <1>1, <1>8, <1>9, <2>1, HasOpsBefore DEF Adds
  <2>3. PICK m1 : Gets(n, m, m1) /\ Stands(e2, m1, f, S) /\ Arrived(i, m1, f)
    <3>1. HasOps(n, Fetched(e1, i).ops)
      BY <2>2 DEF e2
    <3>2. \E m1 : Gets(n, m, m1) /\ Stands(Fetched(e1, i), m1, f, S) /\ Arrived(i, m1, f)
      BY <1>1, <1>6, <1>15, <3>1, FetchedStep
    <3> QED
      BY <3>2 DEF e2
  <2> DEFINE m2 == Exec(n, m1)
             regs == [Junked EXCEPT ![0] = CallResult(args)]
             out == Append(m1.out, <<"call", args>>)
  <2>4. OpOf(n, m1) = op /\ m1.at + 1 = Len(e3.ops) + 1
    <3>1. m1.at = Len(e2.ops) + 1 /\ HasOps(n, Append(e2.ops, op))
      BY <1>9, <2>1, <2>3 DEF Stands
    <3> QED
      BY <1>1, <1>8, <1>9, <3>1, OpHere DEF OpOf, IsEmitter
  <2>5. IsMachine(m1) /\ Running(m1)
    BY <2>3 DEF Stands
  <2>6. m2 = With(m1, m1.at + 1, regs, m1.frame, m1.args, out, m1.guessed)
    <3>1. [j \in 1 .. k |-> m1.regs[j - 1]] = args
      BY <2>3, ArrivedArguments DEF args, k
    <3> QED
      BY <2>4, <2>5, <3>1, ExecCall DEF op
  <2>7. Gets(n, m1, m2)
    BY <2>5, GetsStep
  <2>8. regs = [y \in Places |-> regs[y]] /\ m1.frame = [r \in Slots |-> m1.frame[r]]
        /\ regs[0] = CallResult(args)
    BY <2>5, EmptyIsNoSlot DEF IsMachine, Junked
  <2>9. out = f2.out /\ m1.args = f2.args
    BY <1>4, <2>3 DEF Stands
  <2>10. f2.regs[d] = CallResult(args) /\ Wrote(f2, f2, d, f2.regs[d]) /\ f2.regs = [s \in Slots |-> f2.regs[s]]
    BY <1>1, <1>4, <1>5 DEF Wrote
  <2>11. \A s \in T : m1.frame[s] = f2.regs[s]
    <3>1. \A s \in T : s \in S /\ f2.regs[s] = f.regs[s]
      BY <1>1, <1>4, <1>5
    <3>2. \A s \in T : \A x \in e2.dirty : e2.reg[x] # s
      BY <1>8, <1>9, <1>10, <2>1 DEF Unlost
    <3> QED
      BY <2>3, <3>1, <3>2 DEF Stands
  <2> HIDE DEF m2, regs, out
  <2>12. /\ IsMachine(m2) /\ m2.at = m1.at + 1 /\ m2.regs = regs /\ m2.frame = m1.frame
         /\ m2.args = m1.args /\ m2.out = out /\ m2.end = m1.end
    BY <2>6, <2>8, WithFacts
  <2>13. Running(m2)
    BY <2>5, <2>12, Zenon DEF Running
  <2>14. AgreesBut(0, e5.reg, e5.dirty, m2.regs, m2.frame, f2.regs, T)
    BY <1>1, <1>12, <2>11, <2>12, EmptyIsNoSlot DEF AgreesBut, Nothing
  <2>15. Half(0, e5, m2, f2, T)
    BY <1>10, <1>12, <2>4, <2>9, <2>12, <2>13, <2>14 DEF Half
  <2>16. m2.regs[0] = f2.regs[d]
    BY <2>8, <2>10, <2>12
  <2>17. cx.live[e5.pc + 1] \subseteq Slots /\ cx.live[e5.pc + 1] \subseteq T \cup {d} /\ T \in SUBSET Slots
    BY <1>1, <1>12
  <2>18. Sim(e6, m2, f2, cx.live[e5.pc + 1])
    <3> HIDE DEF T
    <3> QED
      BY <1>1, <1>12, <1>15, <2>10, <2>15, <2>16, <2>17, EmptyIsNoSlot, HalfPut
  <2>19. Gets(n, m, m2)
    BY <2>3, <2>7, GetsOn
  <2> QED
    BY <1>12, <2>18, <2>19
<1> HIDE DEF e6
<1>16. Emits(n, e1, e6, f, S, f2, S2)
  BY <1>14, <1>15 DEF Emits, Does
<1>17. Emits(n, e, e6, f, S, f2, S2)
  BY <1>1, <1>6, <1>16, EmitsOn
<1> QED
  BY <1>0, <1>17 DEF DoesIt, f2

-------------------------------------------------------------------------------
(* The instructions behind which the next one comes.                        *)

LEMMA DispatchIs ==
  ASSUME NEW cx, NEW e, NEW i
  PROVE  /\ i[1] \in {"MOVE"} \cup LoadOps => Dispatch(cx, e, i) = EmitMove(cx, e, i)
         /\ i[1] \in JumpOps => Dispatch(cx, e, i) = EmitJump(cx, e, i)
         /\ i[1] \in {"CALL_1", "CALL_2"} => Dispatch(cx, e, i) = EmitCall(cx, e, i)
         /\ i[1] = "PUSH_ARG" => Dispatch(cx, e, i) = Then(Flush(e), <<"push", i[2]>>)
         /\ i[1] = "CALL_BUILTIN" => Dispatch(cx, e, i) = EmitBuiltin(cx, e, i)
         /\ i[1] \in ReturnOps => Dispatch(cx, e, i) = EmitReturn(cx, e, i)
         /\ i[1] \in ArithOps \cup ImmOps \cup UnaryOps \cup CmpOps =>
              Dispatch(cx, e, i) = IF Checked(cx, i) THEN EmitChecked(cx, e, i) ELSE EmitComputed(cx, e, i)
<1> DEFINE M == {"MOVE"} \cup LoadOps
           C == {"CALL_1", "CALL_2"}
           A == ArithOps \cup ImmOps \cup UnaryOps \cup CmpOps
<1>1. /\ M \cap JumpOps = {} /\ M \cap C = {} /\ M \cap ReturnOps = {} /\ M \cap A = {}
      /\ JumpOps \cap C = {} /\ JumpOps \cap ReturnOps = {} /\ JumpOps \cap A = {}
      /\ C \cap ReturnOps = {} /\ C \cap A = {} /\ ReturnOps \cap A = {}
  BY DEF LoadOps, JumpOps, ImmJumps, RegJumps, NoneJumps, ReturnOps, ArithOps, ImmOps, UnaryOps, CmpOps
<1>2. /\ "PUSH_ARG" \notin M \cup JumpOps \cup C \cup ReturnOps \cup A
      /\ "CALL_BUILTIN" \notin M \cup JumpOps \cup C \cup ReturnOps \cup A /\ "PUSH_ARG" # "CALL_BUILTIN"
  BY DEF LoadOps, JumpOps, ImmJumps, RegJumps, NoneJumps, ReturnOps, ArithOps, ImmOps, UnaryOps, CmpOps
<1> HIDE DEF M, C, A
<1>3. Dispatch(cx, e, i) = 
        CASE i[1] \in M -> EmitMove(cx, e, i)
          [] i[1] \in JumpOps -> EmitJump(cx, e, i)
          [] i[1] \in C -> EmitCall(cx, e, i)
          [] i[1] = "PUSH_ARG" -> Then(Flush(e), <<"push", i[2]>>)
          [] i[1] = "CALL_BUILTIN" -> EmitBuiltin(cx, e, i)
          [] i[1] \in ReturnOps -> EmitReturn(cx, e, i)
          [] OTHER -> IF Checked(cx, i) THEN EmitChecked(cx, e, i) ELSE EmitComputed(cx, e, i)
  BY Zenon DEF Dispatch, M, C
<1>4. ASSUME i[1] \in M PROVE Dispatch(cx, e, i) = EmitMove(cx, e, i)
  <2>1. /\ ~(i[1] \in JumpOps) /\ ~(i[1] \in C) /\ i[1] # "PUSH_ARG" /\ i[1] # "CALL_BUILTIN"
        /\ ~(i[1] \in ReturnOps)
    BY <1>1, <1>2, <1>4
  <2> QED
    BY <1>3, <1>4, <2>1, Zenon
<1>5. ASSUME i[1] \in JumpOps PROVE Dispatch(cx, e, i) = EmitJump(cx, e, i)
  <2>1. /\ ~(i[1] \in M) /\ ~(i[1] \in C) /\ i[1] # "PUSH_ARG" /\ i[1] # "CALL_BUILTIN"
        /\ ~(i[1] \in ReturnOps)
    BY <1>1, <1>2, <1>5
  <2> QED
    BY <1>3, <1>5, <2>1, Zenon
<1>6. ASSUME i[1] \in C PROVE Dispatch(cx, e, i) = EmitCall(cx, e, i)
  <2>1. /\ ~(i[1] \in M) /\ ~(i[1] \in JumpOps) /\ i[1] # "PUSH_ARG" /\ i[1] # "CALL_BUILTIN"
        /\ ~(i[1] \in ReturnOps)
    BY <1>1, <1>2, <1>6
  <2> QED
    BY <1>3, <1>6, <2>1, Zenon
<1>7. ASSUME i[1] = "PUSH_ARG" PROVE Dispatch(cx, e, i) = Then(Flush(e), <<"push", i[2]>>)
  <2>1. /\ ~(i[1] \in M) /\ ~(i[1] \in JumpOps) /\ ~(i[1] \in C) /\ i[1] # "CALL_BUILTIN"
        /\ ~(i[1] \in ReturnOps)
    BY <1>1, <1>2, <1>7
  <2> QED
    BY <1>3, <1>7, <2>1, Zenon
<1>8. ASSUME i[1] = "CALL_BUILTIN" PROVE Dispatch(cx, e, i) = EmitBuiltin(cx, e, i)
  <2>1. /\ ~(i[1] \in M) /\ ~(i[1] \in JumpOps) /\ ~(i[1] \in C) /\ i[1] # "PUSH_ARG"
        /\ ~(i[1] \in ReturnOps)
    BY <1>1, <1>2, <1>8
  <2> QED
    BY <1>3, <1>8, <2>1, Zenon
<1>9. ASSUME i[1] \in ReturnOps PROVE Dispatch(cx, e, i) = EmitReturn(cx, e, i)
  <2>1. /\ ~(i[1] \in M) /\ ~(i[1] \in JumpOps) /\ ~(i[1] \in C) /\ i[1] # "PUSH_ARG"
        /\ i[1] # "CALL_BUILTIN"
    BY <1>1, <1>2, <1>9
  <2> QED
    BY <1>3, <1>9, <2>1, Zenon
<1>10. ASSUME i[1] \in A
       PROVE  Dispatch(cx, e, i) = IF Checked(cx, i) THEN EmitChecked(cx, e, i) ELSE EmitComputed(cx, e, i)
  <2>1. /\ ~(i[1] \in M) /\ ~(i[1] \in JumpOps) /\ ~(i[1] \in C) /\ i[1] # "PUSH_ARG"
        /\ i[1] # "CALL_BUILTIN" /\ ~(i[1] \in ReturnOps)
    BY <1>1, <1>2, <1>10
  <2> QED
    BY <1>3, <2>1, Zenon
<1> QED
  BY <1>4, <1>5, <1>6, <1>7, <1>8, <1>9, <1>10, Zenon DEF M, C, A

LEMMA EmitComputedIs ==
  ASSUME NEW cx, NEW e, NEW i
  PROVE  /\ i[1] \in ArithOps => EmitComputed(cx, e, i) = EmitBinary(cx, e, i)
         /\ i[1] \in ImmOps => EmitComputed(cx, e, i) = EmitImmediate(cx, e, i)
         /\ i[1] \in UnaryOps => EmitComputed(cx, e, i) = EmitUnary(cx, e, i)
         /\ i[1] \in CmpOps => EmitComputed(cx, e, i) = EmitCompare(cx, e, i)
<1>1. /\ ArithOps \cap ImmOps = {} /\ ArithOps \cap UnaryOps = {} /\ ArithOps \cap CmpOps = {}
      /\ ImmOps \cap UnaryOps = {} /\ ImmOps \cap CmpOps = {} /\ UnaryOps \cap CmpOps = {}
  BY DEF ArithOps, ImmOps, UnaryOps, CmpOps
<1>2. ASSUME i[1] \in ArithOps PROVE EmitComputed(cx, e, i) = EmitBinary(cx, e, i)
  <2>1. ~(i[1] \in ImmOps) /\ ~(i[1] \in UnaryOps) /\ ~(i[1] \in CmpOps)
    BY <1>1, <1>2
  <2> QED
    BY <1>2, <2>1, Zenon DEF EmitComputed
<1>3. ASSUME i[1] \in ImmOps PROVE EmitComputed(cx, e, i) = EmitImmediate(cx, e, i)
  <2>1. ~(i[1] \in ArithOps) /\ ~(i[1] \in UnaryOps) /\ ~(i[1] \in CmpOps)
    BY <1>1, <1>3
  <2> QED
    BY <1>3, <2>1, Zenon DEF EmitComputed
<1>4. ASSUME i[1] \in UnaryOps PROVE EmitComputed(cx, e, i) = EmitUnary(cx, e, i)
  <2>1. ~(i[1] \in ArithOps) /\ ~(i[1] \in ImmOps) /\ ~(i[1] \in CmpOps)
    BY <1>1, <1>4
  <2> QED
    BY <1>4, <2>1, Zenon DEF EmitComputed
<1>5. ASSUME i[1] \in CmpOps PROVE EmitComputed(cx, e, i) = EmitCompare(cx, e, i)
  <2>1. ~(i[1] \in ArithOps) /\ ~(i[1] \in ImmOps) /\ ~(i[1] \in UnaryOps)
    BY <1>1, <1>5
  <2> QED
    BY <1>5, <2>1, Zenon DEF EmitComputed
<1> QED
  BY <1>2, <1>3, <1>4, <1>5

\* The instructions that neither jump nor return.
Going == PureOps \cup CallOps \cup {"PUSH_ARG"}

\* x86_func_dispatch: what is emitted for an instruction that does not jump does
\* what the interpreter does, wherever it comes in the code and whatever the
\* register cache holds: afterwards the live slots, the arguments pushed and the
\* calls are those of the interpreter, unless a flaw was marked or a value taken
\* for a number that is none.
THEOREM DispatchCorrect ==
  ASSUME NEW n, NEW cx, NEW e, NEW i, NEW f, Around(n, cx, e, i, f), i[1] \in Going
  PROVE  DoesIt(n, cx, e, Dispatch(cx, e, i), i, f)
<1>1. CASE i[1] = "MOVE"
  <2>1. Dispatch(cx, e, i) = EmitMove(cx, e, i)
    BY <1>1, DispatchIs
  <2>2. DoesIt(n, cx, e, EmitMove(cx, e, i), i, f)
    BY <1>1, MoveDoes
  <2> QED
    BY <2>1, <2>2
<1>2. CASE i[1] \in LoadOps
  <2>1. Dispatch(cx, e, i) = EmitMove(cx, e, i)
    BY <1>2, DispatchIs
  <2>2. DoesIt(n, cx, e, EmitMove(cx, e, i), i, f)
    BY <1>2, ConstantDoes
  <2> QED
    BY <2>1, <2>2
<1>3. CASE i[1] \in {"CALL_1", "CALL_2"}
  <2>1. Dispatch(cx, e, i) = EmitCall(cx, e, i)
    BY <1>3, DispatchIs
  <2>2. DoesIt(n, cx, e, EmitCall(cx, e, i), i, f)
    BY <1>3, CallDoes
  <2> QED
    BY <2>1, <2>2
<1>4. CASE i[1] = "CALL_BUILTIN"
  <2>1. Dispatch(cx, e, i) = EmitBuiltin(cx, e, i)
    BY <1>4, DispatchIs
  <2>2. DoesIt(n, cx, e, EmitBuiltin(cx, e, i), i, f)
    BY <1>4, BuiltinDoes
  <2> QED
    BY <2>1, <2>2
<1>5. CASE i[1] = "PUSH_ARG"
  <2>1. Dispatch(cx, e, i) = Then(Flush(e), <<"push", i[2]>>)
    BY <1>5, DispatchIs
  <2>2. DoesIt(n, cx, e, Then(Flush(e), <<"push", i[2]>>), i, f)
    BY <1>5, PushDoes
  <2> QED
    BY <2>1, <2>2
<1>6. CASE i[1] \in ArithOps \cup ImmOps \cup UnaryOps \cup CmpOps
  <2>1. DoesIt(n, cx, e, EmitChecked(cx, e, i), i, f)
    BY <1>6, CheckedDoes
  <2>2. DoesIt(n, cx, e, EmitComputed(cx, e, i), i, f)
    BY <1>6, EmitComputedIs, BinaryDoes, ImmediateDoes, UnaryDoes, CompareDoes
  <2>3. Dispatch(cx, e, i) = IF Checked(cx, i) THEN EmitChecked(cx, e, i) ELSE EmitComputed(cx, e, i)
    BY <1>6, DispatchIs
  <2> QED
    BY <2>1, <2>2, <2>3
<1> QED
  BY <1>1, <1>2, <1>3, <1>4, <1>5, <1>6 DEF Going, PureOps, CallOps, UnaryOps

-------------------------------------------------------------------------------
(* Jumps.                                                                   *)

\* From m, what e2 has emitted behind e changes nothing but the frame.
Keeps(n, e, e2, f, S) ==
  HasOps(n, e2.ops) =>
    \A m : Sim(e, m, f, S) => \E m2 : Gets(n, m, m2) /\ Sim(e2, m2, f, S) /\ m2.regs = m.regs

LEMMA KeepsItself ==
  ASSUME NEW n, NEW e, NEW f, NEW S
  PROVE  Keeps(n, e, e, f, S)
BY GetsNowhere DEF Keeps

LEMMA KeepsOn ==
  ASSUME NEW n, IsSeq(n.ops), NEW e, NEW e2, NEW e3, IsEmitter(e2), Later(e2, e3), NEW f, NEW S,
         Keeps(n, e, e2, f, S), Keeps(n, e2, e3, f, S)
  PROVE  Keeps(n, e, e3, f, S)
<1> SUFFICES ASSUME HasOps(n, e3.ops), NEW m, Sim(e, m, f, S)
             PROVE  \E m3 : Gets(n, m, m3) /\ Sim(e3, m3, f, S) /\ m3.regs = m.regs
  BY DEF Keeps
<1>1. HasOps(n, e2.ops)
  BY HasOpsBefore
<1>2. PICK m2 : Gets(n, m, m2) /\ Sim(e2, m2, f, S) /\ m2.regs = m.regs
  BY <1>1 DEF Keeps
<1>3. PICK m3 : Gets(n, m2, m3) /\ Sim(e3, m3, f, S) /\ m3.regs = m2.regs
  BY <1>2 DEF Keeps
<1>4. Gets(n, m, m3)
  BY <1>2, <1>3, GetsOn
<1> QED
  BY <1>2, <1>3, <1>4

LEMMA StoreKeeps ==
  ASSUME NEW n, IsSeq(n.ops), NEW e, IsEmitter(e), NEW x \in Regs, NEW f, NEW S \in SUBSET Slots
  PROVE  Keeps(n, e, Store(e, x), f, S)
BY StoreStep DEF Keeps

LEMMA StoreAllKeeps ==
  ASSUME NEW n, IsSeq(n.ops), NEW e, IsEmitter(e), NEW xs \in SUBSET Regs, NEW f,
         NEW S \in SUBSET Slots
  PROVE  Keeps(n, e, StoreAll(e, xs), f, S)
<1>1. CacheRegs \in Nat
  BY CacheAssumption
<1>2. PICK run : IsStoring(run, e, xs, CacheRegs) /\ StoreAll(e, xs) = run[CacheRegs]
  BY <1>1, StoreAllIs
<1> DEFINE T == {k \in Nat : k <= CacheRegs => Adds(e, run[k]) /\ Keeps(n, e, run[k], f, S)}
<1>3. 0 \in T
  <2>1. 0 \in 0 .. CacheRegs
    BY <1>1
  <2>2. run[0] = e
    BY <1>2, <2>1 DEF IsStoring
  <2>3. Adds(e, e) /\ Keeps(n, e, e, f, S)
    BY LaterItself, KeepsItself
  <2> QED
    BY <2>2, <2>3
<1>4. ASSUME NEW k \in Nat, k \in T PROVE k + 1 \in T
  <2> SUFFICES ASSUME k + 1 <= CacheRegs
               PROVE  Adds(e, run[k + 1]) /\ Keeps(n, e, run[k + 1], f, S)
    OBVIOUS
  <2> DEFINE e1 == run[k]
             e2 == run[k + 1]
  <2>1. Adds(e, e1) /\ Keeps(n, e, e1, f, S)
    BY <1>1, <1>4
  <2>2. e2 = StoreIf(e1, xs, k)
    <3>1. k + 1 \in 0 .. CacheRegs /\ k + 1 # 0 /\ (k + 1) - 1 = k
      BY <1>1
    <3> QED
      BY <1>2, <3>1 DEF IsStoring
  <2>3. IsEmitter(e1)
    BY <2>1 DEF Adds, Later
  <2>4. k \in Regs
    BY <1>1 DEF Regs
  <2> HIDE DEF e1, e2
  <2>5. CASE k \in xs
    <3>1. e2 = Store(e1, k)
      BY <2>2, <2>5 DEF StoreIf
    <3>2. Adds(e1, e2)
      BY <2>3, <2>4, <3>1, StoreIs
    <3>3. Keeps(n, e1, e2, f, S)
      BY <2>3, <2>4, <3>1, StoreKeeps
    <3>4. Keeps(n, e, e2, f, S)
      BY <2>1, <2>3, <3>2, <3>3, KeepsOn DEF Adds
    <3>5. Adds(e, e2)
      BY <2>1, <3>2, AddsOn
    <3> QED
      BY <3>4, <3>5 DEF e2
  <2>6. CASE k \notin xs
    <3>1. e2 = e1
      BY <2>2, <2>6 DEF StoreIf
    <3> QED
      BY <2>1, <3>1 DEF e2
  <2> QED
    BY <2>5, <2>6
<1>5. \A k \in Nat : k \in T
  <2> HIDE DEF T
  <2> QED
    BY <1>3, <1>4, AllNaturals
<1>6. Keeps(n, e, run[CacheRegs], f, S)
  BY <1>1, <1>5
<1> QED
  BY <1>2, <1>6

LEMMA FlushKeeps ==
  ASSUME NEW n, IsSeq(n.ops), NEW e, IsEmitter(e), NEW f, NEW S \in SUBSET Slots
  PROVE  Keeps(n, e, Flush(e), f, S)
<1> DEFINE e1 == StoreAll(e, Regs)
           e2 == Flush(e)
<1>1. Stores(n, e, e1, Regs, f, S) /\ Keeps(n, e, e1, f, S)
  BY StoreAllStores, StoreAllKeeps
<1>2. IsEmitter(e1) /\ e1.dirty = {}
  BY <1>1 DEF Stores, Adds, Later, IsEmitter
<1>3. e2 = Cleared(e1)
  BY DEF Flush
<1> HIDE DEF e1, e2
<1>4. e2.reg = Nothing /\ e2.dirty = {} /\ e2.ops = e1.ops /\ Later(e1, e2)
  BY <1>2, <1>3, ClearedIs DEF Made, Adds
<1>5. ASSUME NEW m, Sim(e1, m, f, S) PROVE Sim(e2, m, f, S)
  <2>1. Agrees(e2.reg, e2.dirty, m.regs, m.frame, f.regs, S)
    BY <1>2, <1>4, <1>5, AgreesNothing DEF Sim
  <2> QED
    BY <1>4, <1>5, <2>1 DEF Sim
<1>6. Keeps(n, e1, e2, f, S)
  BY <1>5, GetsNowhere DEF Keeps
<1>7. Keeps(n, e, e2, f, S)
  BY <1>1, <1>2, <1>4, <1>6, KeepsOn
<1> QED
  BY <1>7 DEF e2

\* The labels come in two kinds, and the end is neither.
Parted(cx) == cx.flush \cap cx.snap = {} /\ End(cx.code) \notin cx.snap
CacheOf(e) == [reg |-> e.reg, dirty |-> e.dirty]

\* The cache of e2 is what label t expects.
Ready(cx, e, e2, t) ==
  /\ Later(e, e2) /\ e2.flaws = e.flaws
  /\ t \in cx.flush \cup {End(cx.code)} => e2.reg = Nothing /\ e2.dirty = {}
  /\ t \in cx.snap => e2.snap = [e.snap EXCEPT ![t] = CacheOf(e2)]
  /\ t \notin cx.snap => e2.snap = e.snap
  /\ e.reg = Nothing /\ e.dirty = {} => e2.reg = Nothing /\ e2.dirty = {}

LEMMA PrepareDoes ==
  ASSUME NEW n, IsSeq(n.ops), NEW cx, Parted(cx), NEW e, IsEmitter(e), NEW t,
         NEW f, NEW S \in SUBSET Slots
  PROVE  Keeps(n, e, Prepare(cx, e, t), f, S) /\ Ready(cx, e, Prepare(cx, e, t), t)
<1> DEFINE e2 == Prepare(cx, e, t)
           before == t \in cx.flush \/ t = End(cx.code)
           within == t \in cx.snap
           w == [reg |-> e.reg, dirty |-> e.dirty]
<1>1. e2 = CASE before -> Flush(e) [] within -> [e EXCEPT !.snap[t] = w] [] OTHER -> e
  BY Zenon DEF Prepare
<1>2. ~(before /\ within)
  BY DEF Parted
<1> HIDE DEF e2, before, within
<1>3. CASE before
  <2>1. e2 = Flush(e)
    <3>1. ~within
      BY <1>2, <1>3
    <3> QED
      BY <1>1, <1>3, <3>1, Zenon
  <2>2. Flushes(n, e, e2, f, S) /\ Keeps(n, e, e2, f, S)
    BY <2>1, FlushFlushes, FlushKeeps
  <2>3. t \notin cx.snap
    BY <1>2, <1>3 DEF within
  <2> QED
    BY <2>2, <2>3 DEF Ready, Flushes, Adds, e2
<1>4. CASE ~before /\ within
  <2> DEFINE snap == [e.snap EXCEPT ![t] = w]
  <2>1. e2 = [e EXCEPT !.snap[t] = w]
    BY <1>1, <1>4, Zenon
  <2>2. e2 = [reg |-> e.reg, dirty |-> e.dirty, ops |-> e.ops, label |-> e.label, snap |-> snap,
              pc |-> e.pc, flaws |-> e.flaws]
    BY <2>1 DEF IsEmitter
  <2> HIDE DEF snap, w
  <2>3. /\ e2.reg = e.reg /\ e2.dirty = e.dirty /\ e2.ops = e.ops /\ e2.label = e.label /\ e2.snap = snap
        /\ e2.pc = e.pc /\ e2.flaws = e.flaws /\ IsEmitter(e2)
    BY <2>2 DEF IsEmitter
  <2>4. Begins(e.ops, e2.ops)
    BY <2>3, BeginsItself DEF IsEmitter
  <2>5. Later(e, e2)
    BY <2>3, <2>4 DEF Later
  <2>6. \A m : Sim(e, m, f, S) => Sim(e2, m, f, S)
    BY <2>3 DEF Sim
  <2>7. Keeps(n, e, e2, f, S)
    BY <2>6, GetsNowhere DEF Keeps
  <2>8. snap = [e.snap EXCEPT ![t] = CacheOf(e2)]
    BY <2>3 DEF snap, w, CacheOf
  <2>9. ~(t \in cx.flush \cup {End(cx.code)}) /\ t \in cx.snap
    BY <1>4 DEF before, within
  <2> QED
    BY <2>3, <2>5, <2>7, <2>8, <2>9 DEF Ready, e2
<1>5. CASE ~before /\ ~within
  <2>1. e2 = e
    BY <1>1, <1>5, Zenon
  <2>2. ~(t \in cx.flush \cup {End(cx.code)}) /\ ~(t \in cx.snap)
    BY <1>5 DEF before, within
  <2> QED
    BY <2>1, <2>2, KeepsItself, LaterItself DEF Ready, e2
<1> QED
  BY <1>3, <1>4, <1>5

-------------------------------------------------------------------------------
(* Tests.                                                                   *)

\* As Sim, but elsewhere and over another cache.
Arrives(cache, m, f, S, at) ==
  /\ IsMachine(m) /\ Running(m) /\ m.at = at
  /\ m.args = f.args /\ m.out = f.out
  /\ Agrees(cache.reg, cache.dirty, m.regs, m.frame, f.regs, S)

LEMMA ArrivesHere ==
  ASSUME NEW e, NEW m, NEW f, NEW S
  PROVE  Sim(e, m, f, S) <=> Arrives(CacheOf(e), m, f, S, Len(e.ops) + 1)
BY DEF Sim, Arrives, CacheOf

Jumping(i, vs, ck, yes) == TestSays(i, vs, ck) = yes

LEMMA TakenIsBoolean ==
  ASSUME NEW i, NEW f
  PROVE  Taken(i, f) \in BOOLEAN
<1>1. CASE i[1] \in RegJumps
  BY <1>1, TakenFacts, HoldsIsBoolean
<1>2. CASE i[1] \in ImmJumps
  BY <1>2, TakenFacts, HoldsIsBoolean
<1>3. CASE i[1] = "JUMP_IF_FALSE"
  <2>1. Taken(i, f) = NotTruthy(f.regs[i[3]])
    BY <1>3, TakenFacts
  <2> QED
    BY <2>1 DEF NotTruthy
<1>4. CASE i[1] = "JUMP_IF_NONE"
  <2>1. Taken(i, f) = IsNone(f.regs[i[3]])
    BY <1>4, TakenFacts
  <2> QED
    BY <2>1 DEF IsNone
<1>5. CASE i[1] = "JUMP_IF_NOT_NONE"
  <2>1. Taken(i, f) = NotNone(f.regs[i[3]])
    BY <1>5, TakenFacts
  <2> QED
    BY <2>1 DEF NotNone
<1>6. CASE i[1] = "JUMP"
  BY <1>6, TakenFacts
<1>7. CASE i[1] = "FOR_NEXT" \/ i[1] = "FOR_NEXT_LOOP"
  BY <1>7 DEF Taken, RegJumps, ImmJumps, Goes
<1>8. CASE /\ ~(i[1] \in RegJumps) /\ ~(i[1] \in ImmJumps) /\ i[1] # "JUMP_IF_FALSE" /\ i[1] # "JUMP_IF_NONE"
           /\ i[1] # "JUMP_IF_NOT_NONE" /\ i[1] # "JUMP" /\ i[1] # "FOR_NEXT" /\ i[1] # "FOR_NEXT_LOOP"
  BY <1>8 DEF Taken
<1> QED
  BY <1>1, <1>2, <1>3, <1>4, <1>5, <1>6, <1>7, <1>8

\* A test that does not guess jumps when the interpreter does.
LEMMA JumpingIs ==
  ASSUME NEW i, NEW f, i[1] \in JumpOps \ {"JUMP"}, NEW ck, NEW vs, vs = Values(f, Operands(i)),
         ~Guesses(i, vs, ck), NEW yes, yes = TRUE
  PROVE  Jumping(i, vs, ck, yes) <=> Taken(i, f)
<1>1. ~(i[1] \in CmpOps)
  BY DEF JumpOps, CmpOps, RegJumps, ImmJumps, NoneJumps
<1>2. Outcome(i, vs, ck) = Computed(i, vs)
  BY DEF Outcome
<1>3. Computed(i, vs) = Taken(i, f)
  BY ComputedIs, Zenon
<1>4. TestSays(i, vs, ck) = Outcome(i, vs, ck)
  BY <1>1, Zenon DEF TestSays
<1>5. TestSays(i, vs, ck) = Taken(i, f)
  BY <1>2, <1>3, <1>4, Zenon
<1> QED
  BY <1>5, TakenIsBoolean DEF Jumping

\* A comparison fused with the JUMP_IF_FALSE behind it does so.
LEMMA FusedJumpingIs ==
  ASSUME NEW i, NEW f, i[1] \in CmpOps, NEW ck, NEW vs, vs = Values(f, Operands(i)),
         ~Guesses(i, vs, ck), NEW no, no = FALSE
  PROVE  Jumping(i, vs, ck, no) <=> NotTruthy(ValueOf(i, f.regs))
<1>1. Outcome(i, vs, ck) = Computed(i, vs)
  BY DEF Outcome
<1>2. Computed(i, vs) = ValueOf(i, f.regs)
  <2>1. i[1] \in PureOps
    BY DEF PureOps
  <2> QED
    BY <2>1, ComputedIs, Zenon
<1>3. TestSays(i, vs, ck) = Truthy(ValueOf(i, f.regs))
  BY <1>1, <1>2, Zenon DEF TestSays
<1>4. Truthy(ValueOf(i, f.regs)) \in BOOLEAN
  BY DEF Truthy
<1> QED
  BY <1>3, <1>4 DEF Jumping, NotTruthy

\* What a test comes to, e2 being what is emitted up to it.
Tested(n, e2, m, f, S, i, vs, ck, yes, t) ==
  \E m2 : /\ Gets(n, m, m2)
          /\ \/ Guessed(m2)
             \/ /\ ~Guesses(i, vs, ck)
                /\ Jumping(i, vs, ck, yes) => Arrives(CacheOf(e2), m2, f, S, n.label[t])
                /\ ~Jumping(i, vs, ck, yes) => Sim(e2, m2, f, S)

LEMMA TestStep ==
  ASSUME NEW n, IsSeq(n.ops), NEW e, IsEmitter(e), NEW S \in SUBSET Slots, NEW yes, NEW i, NEW xs,
         NEW ck \in BOOLEAN, NEW t, NEW e2, e2 = Then(e, <<"test", yes, i, xs, ck, t>>),
         HasOps(n, e2.ops), NEW f, NEW m, Sim(e, m, f, S), NEW vs, ValuesOf(m, xs) = vs,
         ck => e.reg = Nothing /\ e.dirty = {}
  PROVE  Tested(n, e2, m, f, S, i, vs, ck, yes, t)
<1> DEFINE op == <<"test", yes, i, xs, ck, t>>
           m2 == Exec(n, m)
           at == IF TestSays(i, vs, ck) = yes THEN n.label[t] ELSE m.at + 1
           regs == After1(m, ck)
           g == NowGuessed(m, i, vs, ck)
<1>1. e2.reg = e.reg /\ e2.dirty = e.dirty /\ e2.ops = Append(e.ops, op)
  <2>1. e2 = Then(e, op)
    OBVIOUS
  <2> HIDE DEF op
  <2> QED
    BY <2>1, ThenIs DEF Made
<1> HIDE DEF op
<1>2. OpOf(n, m) = op /\ m.at + 1 = Len(e2.ops) + 1
  <2>1. m.at = Len(e.ops) + 1 /\ HasOps(n, Append(e.ops, op))
    BY <1>1 DEF Sim
  <2> QED
    BY <1>1, <2>1, OpHere DEF OpOf, IsEmitter
<1>3. IsMachine(m) /\ Running(m) /\ Agrees(e.reg, e.dirty, m.regs, m.frame, f.regs, S)
      /\ m.args = f.args /\ m.out = f.out
  BY DEF Sim
<1>4. m2 = TestTo(n, m, yes, i, vs, ck, t)
  <2>1. OpOf(n, m) = <<"test", yes, i, xs, ck, t>>
    BY <1>2 DEF op
  <2>2. m2 = TestTo(n, m, yes, i, ValuesOf(m, xs), ck, t)
    BY <1>3, <2>1, ExecTest
  <2> QED
    BY <2>2
<1>5. m2 = With(m, at, regs, m.frame, m.args, m.out, g)
  <2> HIDE DEF m2
  <2> QED
    BY <1>4, Zenon DEF TestTo
<1>6. regs = [z \in Places |-> regs[z]] /\ m.frame = [s \in Slots |-> m.frame[s]]
  BY <1>3 DEF IsMachine, After1, Junked
<1>7. Agrees(e2.reg, e2.dirty, regs, m.frame, f.regs, S)
  <2>1. CASE ck
    <3>1. e2.reg = Nothing /\ e2.dirty = {}
      BY <1>1, <2>1
    <3>2. Agrees(e.reg, {}, m.regs, m.frame, f.regs, S)
      BY <1>3, <2>1
    <3> HIDE DEF regs
    <3>3. Agrees(Nothing, {}, regs, m.frame, f.regs, S)
      BY <3>2, AgreesNothing
    <3> QED
      BY <3>1, <3>3
  <2>2. CASE ~ck
    BY <1>1, <1>3, <2>2 DEF After1
  <2> QED
    BY <2>1, <2>2
<1>8. Gets(n, m, m2)
  BY <1>3, GetsStep
<1> HIDE DEF m2, regs, g, at
<1>9. /\ IsMachine(m2) /\ m2.at = at /\ m2.regs = regs /\ m2.frame = m.frame
      /\ m2.args = m.args /\ m2.out = m.out /\ m2.guessed = g /\ m2.end = m.end
  BY <1>5, <1>6, WithFacts
<1>10. CASE Guesses(i, vs, ck)
  <2>1. Guessed(m2)
    BY <1>9, <1>10, Zenon DEF Guessed, NowGuessed, g
  <2> QED
    BY <1>8, <2>1 DEF Tested
<1>11. CASE ~Guesses(i, vs, ck)
  <2>1. Running(m2)
    BY <1>3, <1>9, Zenon DEF Running
  <2>2. Arrives(CacheOf(e2), m2, f, S, at)
    BY <1>3, <1>7, <1>9, <2>1 DEF Arrives, CacheOf
  <2>3. Jumping(i, vs, ck, yes) => at = n.label[t]
    BY DEF at, Jumping
  <2>4. ~Jumping(i, vs, ck, yes) => at = Len(e2.ops) + 1
    BY <1>2 DEF at, Jumping
  <2> QED
    BY <1>8, <1>11, <2>2, <2>3, <2>4, ArrivesHere DEF Tested
<1> QED
  BY <1>10, <1>11

-------------------------------------------------------------------------------
\* Caches as jumps leave them for their labels.
Caches == [reg : [Regs -> Slots \cup {Empty}], dirty : SUBSET Regs]
HasSnaps(cx, e) == e.snap \in [cx.snap -> Caches]
\* No label's but that of t has changed.
SnapsBut(cx, e, e2, t) == HasSnaps(cx, e2) /\ \A u \in cx.snap : u # t => e2.snap[u] = e.snap[u]
\* The cache label t expects, once e2 is emitted.
Expects(cx, e2, t) == IF t \in cx.snap THEN e2.snap[t] ELSE [reg |-> Nothing, dirty |-> {}]
\* The labels a jump may lead to.
Expected(cx, t) == t \in cx.snap \cup cx.flush \cup {End(cx.code)}

\* m comes to label t, or goes on behind e2.
Branched(n, cx, e2, t, f, S, goes, m) ==
  \E m2 : /\ Gets(n, m, m2)
          /\ \/ Guessed(m2)
             \/ goes /\ Arrives(Expects(cx, e2, t), m2, f, S, n.label[t])
             \/ ~goes /\ Sim(e2, m2, f, S)
Branches(n, cx, e, e2, t, f, S, goes) ==
  HasOps(n, e2.ops) /\ e2.flaws = {} => \A m : Sim(e, m, f, S) => Branched(n, cx, e2, t, f, S, goes, m)

LEMMA CacheIs ==
  ASSUME NEW e, IsEmitter(e)
  PROVE  CacheOf(e) \in Caches
BY DEF IsEmitter, CacheOf, Caches

LEMMA SnapsItself ==
  ASSUME NEW cx, NEW e, HasSnaps(cx, e), NEW e2, e2.snap = e.snap, NEW t
  PROVE  SnapsBut(cx, e, e2, t)
BY DEF HasSnaps, SnapsBut

\* Prepared for label t, an emitter has what t expects, or t is no label.
LEMMA ReadyFacts ==
  ASSUME NEW cx, Parted(cx), NEW e, HasSnaps(cx, e), NEW e2, NEW t, Ready(cx, e, e2, t), IsEmitter(e2),
         NEW e3, e3.snap = e2.snap, e3.reg = e2.reg, e3.dirty = e2.dirty
  PROVE  /\ SnapsBut(cx, e, e3, t)
         /\ \A m, f, S, at : Expected(cx, t) /\ Arrives(CacheOf(e3), m, f, S, at)
                               => Arrives(Expects(cx, e3, t), m, f, S, at)
<1>1. CacheOf(e2) \in Caches /\ CacheOf(e3) = CacheOf(e2)
  BY CacheIs DEF CacheOf
<1>2. CASE t \in cx.snap
  <2>1. e2.snap = [e.snap EXCEPT ![t] = CacheOf(e2)]
    BY <1>2 DEF Ready
  <2>2. e2.snap \in [cx.snap -> Caches] /\ e2.snap[t] = CacheOf(e2) /\ \A u \in cx.snap : u # t => e2.snap[u] = e.snap[u]
    BY <1>1, <1>2, <2>1 DEF HasSnaps
  <2>3. Expects(cx, e3, t) = CacheOf(e3)
    BY <1>1, <1>2, <2>2 DEF Expects
  <2> QED
    BY <2>2, <2>3 DEF SnapsBut, HasSnaps
<1>3. CASE t \notin cx.snap
  <2>1. e2.snap = e.snap
    BY <1>3 DEF Ready
  <2>2. Expected(cx, t) => e3.reg = Nothing /\ e3.dirty = {}
    BY <1>3 DEF Ready, Expected
  <2>3. Expected(cx, t) => Expects(cx, e3, t) = CacheOf(e3)
    BY <1>3, <2>2 DEF Expects, CacheOf
  <2> QED
    BY <2>1, <2>3, SnapsItself
<1> QED
  BY <1>2, <1>3

\* What JUMP does, and what is emitted for it.
JumpForm(cx, e, e2, t) == Later(e, e2) /\ SnapsBut(cx, e, e2, t)

LEMMA PlainJumpDoes ==
  ASSUME NEW n, IsSeq(n.ops), NEW cx, Parted(cx), NEW e, IsEmitter(e), HasSnaps(cx, e), NEW t,
         NEW f, NEW S \in SUBSET Slots, NEW e2, e2 = Then(Prepare(cx, e, t), <<"jump", t>>)
  PROVE  /\ JumpForm(cx, e, e2, t)
         /\ Expected(cx, t) => \A goes : goes = TRUE => Branches(n, cx, e, e2, t, f, S, goes)
<1> DEFINE e1 == Prepare(cx, e, t)
           op == <<"jump", t>>
<1>1. Keeps(n, e, e1, f, S) /\ Ready(cx, e, e1, t)
  BY PrepareDoes
<1>2. IsEmitter(e1) /\ Later(e, e1) /\ e1.flaws = e.flaws
  BY <1>1 DEF Ready, Later
<1>3. e2 = Then(e1, op)
  OBVIOUS
<1> HIDE DEF e1, op
<1>4. Adds(e1, e2) /\ e2.reg = e1.reg /\ e2.dirty = e1.dirty /\ e2.ops = Append(e1.ops, op) /\ e2.flaws = e1.flaws
      /\ e2.snap = e1.snap /\ IsEmitter(e2)
  <2>1. e2 = Made(e1, e1.reg, e1.dirty, Append(e1.ops, op), e1.flaws) /\ Adds(e1, e2)
    BY <1>2, <1>3, ThenIs
  <2>2. e2.reg = e1.reg /\ e2.dirty = e1.dirty /\ e2.ops = Append(e1.ops, op) /\ e2.flaws = e1.flaws
    BY <2>1 DEF Made
  <2> QED
    BY <2>1, <2>2 DEF Adds, Later
<1>5. Later(e, e2)
  BY <1>2, <1>4, LaterOn DEF Adds
<1>6. /\ SnapsBut(cx, e, e2, t)
      /\ \A m, at : Expected(cx, t) /\ Arrives(CacheOf(e2), m, f, S, at) => Arrives(Expects(cx, e2, t), m, f, S, at)
  BY <1>1, <1>2, <1>4, ReadyFacts
<1>7. ASSUME Expected(cx, t), HasOps(n, e2.ops), NEW m, Sim(e, m, f, S), NEW goes, goes = TRUE
      PROVE  Branched(n, cx, e2, t, f, S, goes, m)
  <2>1. HasOps(n, e1.ops)
    BY <1>2, <1>4, <1>7, HasOpsBefore DEF Adds
  <2>2. PICK m1 : Gets(n, m, m1) /\ Sim(e1, m1, f, S)
    BY <1>1, <1>7, <2>1 DEF Keeps
  <2>3. IsMachine(m1) /\ Running(m1) /\ m1.at = Len(e1.ops) + 1 /\ m1.args = f.args /\ m1.out = f.out
        /\ Agrees(e1.reg, e1.dirty, m1.regs, m1.frame, f.regs, S)
    BY <2>2 DEF Sim
  <2>4. OpOf(n, m1) = op
    <3>1. IsSeq(e1.ops) /\ HasOps(n, Append(e1.ops, op))
      BY <1>2, <1>4, <1>7 DEF IsEmitter
    <3>2. n.ops[Len(e1.ops) + 1] = op
      BY <3>1, OpHere
    <3> QED
      BY <2>3, <3>2 DEF OpOf
  <2>5. Exec(n, m1) = With(m1, n.label[t], m1.regs, m1.frame, m1.args, m1.out, m1.guessed)
    BY <2>3, <2>4, ExecJump DEF op
  <2> DEFINE m2 == Exec(n, m1)
  <2>6. Gets(n, m1, m2)
    BY <2>3, GetsStep
  <2>7. m1.regs = [z \in Places |-> m1.regs[z]] /\ m1.frame = [s \in Slots |-> m1.frame[s]]
    BY <2>3 DEF IsMachine
  <2> HIDE DEF m2
  <2>8. /\ IsMachine(m2) /\ m2.at = n.label[t] /\ m2.regs = m1.regs /\ m2.frame = m1.frame
        /\ m2.args = m1.args /\ m2.out = m1.out /\ m2.end = m1.end
    BY <2>5, <2>7, WithFacts DEF m2
  <2>9. Arrives(CacheOf(e2), m2, f, S, n.label[t])
    <3>1. Running(m2)
      BY <2>3, <2>8, Zenon DEF Running
    <3> QED
      BY <1>4, <2>3, <2>8, <3>1 DEF Arrives, CacheOf
  <2>10. Arrives(Expects(cx, e2, t), m2, f, S, n.label[t])
    BY <1>6, <1>7, <2>9
  <2>11. Gets(n, m, m2)
    BY <2>2, <2>6, GetsOn
  <2> QED
    BY <1>7, <2>10, <2>11 DEF Branched
<1> QED
  BY <1>5, <1>6, <1>7 DEF Branches, JumpForm

-------------------------------------------------------------------------------
\* A branch behind other code.
LEMMA BranchesOn ==
  ASSUME NEW n, IsSeq(n.ops), NEW cx, NEW e, NEW e1, IsEmitter(e1), NEW e2, NEW t, NEW f, NEW S, NEW goes,
         Emits(n, e, e1, f, S, f, S), Later(e1, e2), Branches(n, cx, e1, e2, t, f, S, goes)
  PROVE  Branches(n, cx, e, e2, t, f, S, goes)
<1> SUFFICES ASSUME HasOps(n, e2.ops), e2.flaws = {}, NEW m, Sim(e, m, f, S)
             PROVE  Branched(n, cx, e2, t, f, S, goes, m)
  BY DEF Branches
<1>1. HasOps(n, e1.ops) /\ e1.flaws = {}
  BY HasOpsBefore DEF Later
<1>2. PICK m1 : Gets(n, m, m1) /\ (Guessed(m1) \/ Sim(e1, m1, f, S))
  BY <1>1 DEF Emits, Does
<1>3. CASE Guessed(m1)
  BY <1>2, <1>3 DEF Branched
<1>4. CASE Sim(e1, m1, f, S)
  <2>1. Branched(n, cx, e2, t, f, S, goes, m1)
    BY <1>4 DEF Branches
  <2>2. PICK m2 : /\ Gets(n, m1, m2)
                  /\ \/ Guessed(m2)
                     \/ goes /\ Arrives(Expects(cx, e2, t), m2, f, S, n.label[t])
                     \/ ~goes /\ Sim(e2, m2, f, S)
    BY <2>1 DEF Branched
  <2>3. Gets(n, m, m2)
    BY <1>2, <2>2, GetsOn
  <2> QED
    BY <2>2, <2>3 DEF Branched
<1> QED
  BY <1>2, <1>3, <1>4

FlushIf(e, ck) == IF ck THEN Flush(e) ELSE e

\* Before a test the cache is written back, or not.
LEMMA FlushIfDoes ==
  ASSUME NEW n, IsSeq(n.ops), NEW e, IsEmitter(e), NEW f, NEW S \in SUBSET Slots, NEW ck \in BOOLEAN,
         NEW e1, e1 = FlushIf(e, ck)
  PROVE  /\ Keeps(n, e, e1, f, S) /\ Adds(e, e1) /\ e1.flaws = e.flaws
         /\ ck => e1.reg = Nothing /\ e1.dirty = {}
<1>1. CASE ck
  <2>1. e1 = Flush(e)
    BY <1>1 DEF FlushIf
  <2>2. Flushes(n, e, Flush(e), f, S)
    BY FlushFlushes
  <2>3. Keeps(n, e, Flush(e), f, S)
    BY FlushKeeps
  <2> QED
    BY <2>1, <2>2, <2>3 DEF Flushes
<1>2. CASE ~ck
  <2>1. e1 = e
    BY <1>2 DEF FlushIf
  <2> QED
    BY <1>2, <2>1, KeepsItself, LaterItself
<1> QED
  BY <1>1, <1>2

\* Unless it guesses, a test jumps if and only if it should.
Decides(i, vs, ck, yes, goes) == ~Guesses(i, vs, ck) => (Jumping(i, vs, ck, yes) <=> goes)

\* A test of operands in registers.
LEMMA TestedOn ==
  ASSUME NEW n, IsSeq(n.ops), NEW cx, Parted(cx), NEW e, IsEmitter(e), HasSnaps(cx, e), NEW t, NEW i,
         NEW xs, NEW ss, Placed(e, xs, ss), NEW ck \in BOOLEAN, NEW yes,
         NEW f, NEW S \in SUBSET Slots, \A k \in DOMAIN ss : ss[k] \in S,
         NEW e2, e2 = Then(Prepare(cx, FlushIf(e, ck), t), <<"test", yes, i, xs, ck, t>>),
         NEW vs, vs = Values(f, ss), NEW goes \in BOOLEAN,
         Decides(i, vs, ck, yes, goes)
  PROVE  /\ JumpForm(cx, e, e2, t) /\ e2.flaws = e.flaws
         /\ Expected(cx, t) => Branches(n, cx, e, e2, t, f, S, goes)
<1> DEFINE e0 == FlushIf(e, ck)
           e1 == Prepare(cx, e0, t)
           op == <<"test", yes, i, xs, ck, t>>
<1>1. /\ Keeps(n, e, e0, f, S) /\ Adds(e, e0) /\ e0.flaws = e.flaws
      /\ ck => e0.reg = Nothing /\ e0.dirty = {}
  BY FlushIfDoes
<1>2. e2 = Then(e1, op)
  OBVIOUS
<1> HIDE DEF e0
<1>3. IsEmitter(e0) /\ Later(e, e0) /\ HasSnaps(cx, e0) /\ e0.snap = e.snap
  BY <1>1 DEF Adds, Later, HasSnaps
<1>4. Keeps(n, e0, e1, f, S) /\ Ready(cx, e0, e1, t)
  BY <1>3, PrepareDoes
<1> HIDE DEF e1
<1>5. IsEmitter(e1) /\ Later(e0, e1) /\ e1.flaws = e.flaws /\ Later(e, e1)
      /\ (ck => e1.reg = Nothing /\ e1.dirty = {})
  BY <1>1, <1>3, <1>4, LaterOn DEF Ready, Later
<1>6. Adds(e1, e2) /\ e2.reg = e1.reg /\ e2.dirty = e1.dirty /\ e2.flaws = e1.flaws /\ e2.snap = e1.snap
      /\ IsEmitter(e2)
  <2> HIDE DEF op
  <2>1. e2 = Made(e1, e1.reg, e1.dirty, Append(e1.ops, op), e1.flaws) /\ Adds(e1, e2)
    BY <1>2, <1>5, ThenIs
  <2>2. e2.reg = e1.reg /\ e2.dirty = e1.dirty /\ e2.flaws = e1.flaws
    BY <2>1 DEF Made
  <2> QED
    BY <2>1, <2>2 DEF Adds, Later
<1>7. Later(e, e2)
  BY <1>5, <1>6, LaterOn DEF Adds
<1>8. SnapsBut(cx, e0, e2, t)
      /\ \A m, g, T, at : Expected(cx, t) /\ Arrives(CacheOf(e2), m, g, T, at)
                               => Arrives(Expects(cx, e2, t), m, g, T, at)
  BY <1>3, <1>4, <1>5, <1>6, ReadyFacts
<1>9. SnapsBut(cx, e, e2, t)
  BY <1>3, <1>8 DEF SnapsBut
<1>10. ASSUME Expected(cx, t), HasOps(n, e2.ops), NEW m, Sim(e, m, f, S)
       PROVE  Branched(n, cx, e2, t, f, S, goes, m)
  <2>1. HasOps(n, e1.ops)
    BY <1>5, <1>6, <1>10, HasOpsBefore DEF Adds
  <2>2. HasOps(n, e0.ops)
    BY <1>3, <1>5, <2>1, HasOpsBefore
  <2>3. PICK m0 : Gets(n, m, m0) /\ Sim(e0, m0, f, S) /\ m0.regs = m.regs
    BY <1>1, <1>10, <2>2 DEF Keeps
  <2>4. PICK m1 : Gets(n, m0, m1) /\ Sim(e1, m1, f, S) /\ m1.regs = m0.regs
    BY <1>4, <2>1, <2>3 DEF Keeps
  <2>5. ValuesOf(m1, xs) = vs
    <3>1. ValuesOf(m, xs) = vs
      BY <1>10, PlacedValues
    <3> QED
      BY <2>3, <2>4, <3>1 DEF ValuesOf
  <2>6. Tested(n, e2, m1, f, S, i, vs, ck, yes, t)
    BY <1>2, <1>5, <1>10, <2>4, <2>5, TestStep DEF op
  <2>7. PICK m2 : /\ Gets(n, m1, m2)
                  /\ \/ Guessed(m2)
                     \/ /\ ~Guesses(i, vs, ck)
                        /\ Jumping(i, vs, ck, yes) => Arrives(CacheOf(e2), m2, f, S, n.label[t])
                        /\ ~Jumping(i, vs, ck, yes) => Sim(e2, m2, f, S)
    BY <2>6 DEF Tested
  <2>8. Gets(n, m, m2)
    BY <2>3, <2>4, <2>7, GetsOn
  <2>9. \/ Guessed(m2)
        \/ goes /\ Arrives(CacheOf(e2), m2, f, S, n.label[t])
        \/ ~goes /\ Sim(e2, m2, f, S)
    BY <2>7 DEF Decides
  <2> QED
    BY <1>8, <1>10, <2>8, <2>9 DEF Branched
<1> QED
  BY <1>5, <1>6, <1>7, <1>9, <1>10 DEF Branches, JumpForm

\* An emitter with nothing new but flaws branches as well.
LEMMA BranchesFlawed ==
  ASSUME NEW n, NEW cx, NEW e, NEW e2, NEW e3, NEW t, NEW f, NEW S, NEW goes,
         Branches(n, cx, e, e2, t, f, S, goes), e3.ops = e2.ops, e3.reg = e2.reg, e3.dirty = e2.dirty,
         e3.snap = e2.snap, e3.flaws = {} => e2.flaws = {}
  PROVE  Branches(n, cx, e, e3, t, f, S, goes)
<1> SUFFICES ASSUME HasOps(n, e3.ops), e3.flaws = {}, NEW m, Sim(e, m, f, S)
             PROVE  Branched(n, cx, e3, t, f, S, goes, m)
  BY DEF Branches
<1>1. Branched(n, cx, e2, t, f, S, goes, m)
  BY DEF Branches
<1>2. PICK m2 : /\ Gets(n, m, m2)
                /\ \/ Guessed(m2)
                   \/ goes /\ Arrives(Expects(cx, e2, t), m2, f, S, n.label[t])
                   \/ ~goes /\ Sim(e2, m2, f, S)
  BY <1>1 DEF Branched
<1>3. Expects(cx, e3, t) = Expects(cx, e2, t)
  BY DEF Expects
<1>4. Sim(e2, m2, f, S) => Sim(e3, m2, f, S)
  BY DEF Sim
<1> QED
  BY <1>2, <1>3, <1>4 DEF Branched

-------------------------------------------------------------------------------
LEMMA SnapsAfter ==
  ASSUME NEW cx, NEW e, NEW e1, e1.snap = e.snap, NEW e2, NEW t, SnapsBut(cx, e1, e2, t)
  PROVE  SnapsBut(cx, e, e2, t)
BY DEF SnapsBut

\* The test a jump makes of its operands in registers.
TestMade(cx, e, i, ck) ==
  Then(Prepare(cx, FlushIf(e, ck), i[2]), <<"test", TRUE, i, HomesOf(e, Operands(i)), ck, i[2]>>)
Strays(cx, i) == i[1] \in NoneJumps /\ i[2] \notin cx.flush \cup {End(cx.code)}

LEMMA TestOnIs ==
  ASSUME NEW cx, NEW e, NEW i, NEW ck, ck = Checked(cx, i), NEW st, st = Strays(cx, i)
  PROVE  TestOn(cx, e, i) = Flawed(TestMade(cx, e, i, ck), "noneLabel", st)
BY Zenon DEF TestOn, TestMade, Strays, FlushIf

\* What is emitted for a jump jumps when the interpreter does.
JumpsRight(n, cx, e, e2, i, f, goes) ==
  /\ JumpForm(cx, e, e2, i[2])
  /\ i[1] \in NoneJumps /\ e2.flaws = {} => i[2] \in cx.flush \cup {End(cx.code)}
  /\ Branches(n, cx, e, e2, i[2], f, cx.live[e.pc], goes)

\* PureLoaded, of tests.
LEMMA TestLoaded ==
  ASSUME NEW n, NEW cx, NEW e, NEW i, NEW f, Around(n, cx, e, i, f), i[1] \in CmpOps \cup (JumpOps \ {"JUMP"}),
         NEW e1, e1 = LoadOperands(e, Operands(i))
  PROVE  /\ Emits(n, e, e1, f, cx.live[e.pc], f, cx.live[e.pc])
         /\ e1.pc = e.pc /\ IsEmitter(e1) /\ Placed(e1, HomesOf(e1, Operands(i)), Operands(i))
         /\ \A k \in DOMAIN Operands(i) : Operands(i)[k] \in cx.live[e.pc]
<1> DEFINE op == i[1]
<1>1. op \in ArithOps \cup ImmOps \cup UnaryOps \cup CmpOps \cup (JumpOps \ {"JUMP"})
  OBVIOUS
<1> HIDE DEF op
<1>2. Emits(n, e, e1, f, cx.live[e.pc], f, cx.live[e.pc])
  BY <1>1, PureLoaded DEF op
<1>3. Placed(e1, HomesOf(e1, Operands(i)), Operands(i))
  BY <1>1, PureLoaded DEF op
<1>4. \A k \in DOMAIN Operands(i) : Operands(i)[k] \in cx.live[e.pc]
  BY <1>1, PureLoaded DEF op
<1>5. e1.pc = e.pc /\ IsEmitter(e1)
  BY <1>2 DEF Emits, Adds, Later
<1> QED
  BY <1>2, <1>3, <1>4, <1>5

LEMMA TestDoes ==
  ASSUME NEW n, NEW cx, NEW e, NEW i, NEW f, Around(n, cx, e, i, f), Parted(cx), HasSnaps(cx, e),
         i[1] \in JumpOps \ {"JUMP"}, i[1] \in NoneJumps \/ Expected(cx, i[2]),
         NEW goes \in BOOLEAN, goes = Taken(i, f), NEW e3, e3 = TestOn(cx, LoadOperands(e, Operands(i)), i)
  PROVE  JumpsRight(n, cx, e, e3, i, f, goes)
<1> DEFINE ss == Operands(i)
           vs == Values(f, ss)
           S == cx.live[e.pc]
           e1 == LoadOperands(e, ss)
           ck == Checked(cx, i)
           st == Strays(cx, i)
           xs == HomesOf(e1, ss)
           e2 == TestMade(cx, e1, i, ck)
<1>1. /\ IsSeq(n.ops) /\ IsEmitter(e) /\ S \in SUBSET Slots
  BY DEF Around, Lives
<1>2. /\ Emits(n, e, e1, f, S, f, S) /\ e1.pc = e.pc /\ IsEmitter(e1) /\ Placed(e1, xs, ss)
      /\ \A k \in DOMAIN ss : ss[k] \in S
  <2>1. e1 = LoadOperands(e, Operands(i))
    OBVIOUS
  <2> HIDE DEF e1
  <2> QED
    BY <2>1, TestLoaded
<1>3. ck \in BOOLEAN /\ st \in BOOLEAN
  BY DEF Checked, Strays
<1>4. e3 = Flawed(e2, "noneLabel", st)
  BY TestOnIs
<1>5. Adds(e, e1) /\ Later(e, e1) /\ e1.snap = e.snap /\ HasSnaps(cx, e1)
  BY <1>2 DEF Emits, Adds, HasSnaps
<1> HIDE DEF ck, st
<1>6. ~Guesses(i, vs, ck) => \A yes : yes = TRUE => (Jumping(i, vs, ck, yes) <=> goes)
  <2> SUFFICES ASSUME ~Guesses(i, vs, ck), NEW yes, yes = TRUE
               PROVE  Jumping(i, vs, ck, yes) <=> goes
    OBVIOUS
  <2>1. Jumping(i, vs, ck, yes) <=> Taken(i, f)
    BY JumpingIs
  <2> QED
    BY <2>1
<1> DEFINE yes == TRUE
<1>7. e2 = Then(Prepare(cx, FlushIf(e1, ck), i[2]), <<"test", yes, i, xs, ck, i[2]>>)
  BY DEF TestMade
<1>8. Decides(i, vs, ck, yes, goes)
  BY <1>6 DEF Decides
<1> HIDE DEF e1, xs, vs, ss, e2, S, yes
<1>9. vs = Values(f, ss)
  BY DEF vs
<1>10. /\ JumpForm(cx, e1, e2, i[2]) /\ e2.flaws = e1.flaws
       /\ Expected(cx, i[2]) => Branches(n, cx, e1, e2, i[2], f, S, goes)
  <2>1. Parted(cx) /\ goes \in BOOLEAN
    OBVIOUS
  <2> QED
    BY ONLY <1>1, <1>2, <1>3, <1>5, <1>7, <1>8, <1>9, <2>1, TestedOn
<1>11. IsEmitter(e2) /\ Later(e1, e2) /\ SnapsBut(cx, e1, e2, i[2])
  BY <1>10 DEF JumpForm, Later
<1>12. /\ Adds(e2, e3) /\ (st => e3.flaws # {})
       /\ e3.reg = e2.reg /\ e3.dirty = e2.dirty /\ e3.ops = e2.ops
  <2> DEFINE name == "noneLabel"
  <2>1. e3 = Flawed(e2, name, st)
    BY <1>4
  <2> HIDE DEF name
  <2> QED
    BY ONLY <1>3, <2>1, <1>11, FlawedIs
<1>13. e3.snap = e2.snap /\ Later(e2, e3) /\ (e3.flaws = {} => e2.flaws = {})
  BY <1>12 DEF Adds, Later
<1>14. JumpForm(cx, e, e3, i[2])
  <2>1. Later(e, e2)
    BY <1>1, <1>5, <1>11, LaterOn
  <2>2. Later(e, e3)
    BY <1>1, <1>13, <2>1, LaterOn
  <2>3. SnapsBut(cx, e, e2, i[2])
    BY <1>5, <1>11, SnapsAfter
  <2> QED
    BY <1>13, <2>2, <2>3 DEF JumpForm, SnapsBut, HasSnaps
<1>15. i[1] \in NoneJumps /\ e3.flaws = {} => i[2] \in cx.flush \cup {End(cx.code)}
  BY <1>12 DEF st, Strays
<1>16. Branches(n, cx, e, e3, i[2], f, S, goes)
  <2>1. CASE Expected(cx, i[2])
    <3>1. Branches(n, cx, e1, e3, i[2], f, S, goes)
      BY <1>10, <1>12, <1>13, <2>1, BranchesFlawed
    <3>2. Later(e1, e3)
      BY <1>2, <1>11, <1>13, LaterOn
    <3> QED
      BY <1>1, <1>2, <3>1, <3>2, BranchesOn
  <2>2. CASE ~Expected(cx, i[2])
    <3>1. e3.flaws # {}
      BY <1>15, <2>2 DEF Expected
    <3> QED
      BY <3>1 DEF Branches
  <2> QED
    BY <2>1, <2>2
<1> QED
  BY <1>14, <1>15, <1>16 DEF JumpsRight, S

\* x86_func_emit_jump: what is emitted for a jump jumps when the interpreter
\* does, and comes to its label with the cache the label expects: an empty one,
\* or the one noted for it, with every live slot as the interpreter has it.
THEOREM JumpCorrect ==
  ASSUME NEW n, NEW cx, NEW e, NEW i, NEW f, Around(n, cx, e, i, f), Parted(cx), HasSnaps(cx, e),
         i[1] \in JumpOps, i[1] \in NoneJumps \/ Expected(cx, i[2]),
         NEW goes \in BOOLEAN, goes = Taken(i, f), NEW e2, e2 = EmitJump(cx, e, i)
  PROVE  JumpsRight(n, cx, e, e2, i, f, goes)
<1>1. CASE i[1] = "JUMP"
  <2>1. e2 = Then(Prepare(cx, e, i[2]), <<"jump", i[2]>>)
    BY <1>1 DEF EmitJump
  <2>2. IsSeq(n.ops) /\ IsEmitter(e) /\ cx.live[e.pc] \in SUBSET Slots
    BY DEF Around, Lives
  <2>3. goes = TRUE /\ ~(i[1] \in NoneJumps)
    BY <1>1, TakenFacts DEF NoneJumps
  <2>4. /\ JumpForm(cx, e, e2, i[2])
        /\ Expected(cx, i[2]) => \A g : g = TRUE => Branches(n, cx, e, e2, i[2], f, cx.live[e.pc], g)
    BY <2>1, <2>2, PlainJumpDoes
  <2> QED
    BY <2>3, <2>4 DEF JumpsRight
<1>2. CASE i[1] # "JUMP"
  <2>1. e2 = TestOn(cx, LoadOperands(e, Operands(i)), i)
    BY <1>2 DEF EmitJump
  <2> QED
    BY <1>2, <2>1, TestDoes
<1> QED
  BY <1>1, <1>2

-------------------------------------------------------------------------------
\* Code that changes nothing behind a branch.
LEMMA BranchesBehind ==
  ASSUME NEW n, IsSeq(n.ops), NEW cx, NEW e, NEW e2, IsEmitter(e2), NEW e3, Later(e2, e3),
         e3.snap = e2.snap, NEW t, NEW f, NEW S, NEW goes,
         Branches(n, cx, e, e2, t, f, S, goes), Keeps(n, e2, e3, f, S)
  PROVE  Branches(n, cx, e, e3, t, f, S, goes)
<1> SUFFICES ASSUME HasOps(n, e3.ops), e3.flaws = {}, NEW m, Sim(e, m, f, S)
             PROVE  Branched(n, cx, e3, t, f, S, goes, m)
  BY DEF Branches
<1>1. HasOps(n, e2.ops) /\ e2.flaws = {}
  BY HasOpsBefore DEF Later
<1>2. Branched(n, cx, e2, t, f, S, goes, m)
  BY <1>1 DEF Branches
<1>3. PICK m2 : /\ Gets(n, m, m2)
                /\ \/ Guessed(m2)
                   \/ goes /\ Arrives(Expects(cx, e2, t), m2, f, S, n.label[t])
                   \/ ~goes /\ Sim(e2, m2, f, S)
  BY <1>2 DEF Branched
<1>4. Expects(cx, e3, t) = Expects(cx, e2, t)
  BY DEF Expects
<1>5. CASE ~goes /\ Sim(e2, m2, f, S)
  <2>1. PICK m3 : Gets(n, m2, m3) /\ Sim(e3, m3, f, S)
    BY <1>5 DEF Keeps
  <2>2. Gets(n, m, m3)
    BY <1>3, <2>1, GetsOn
  <2> QED
    BY <1>5, <2>1, <2>2 DEF Branched
<1> QED
  BY <1>3, <1>4, <1>5 DEF Branched

\* A fused test jumps when the JUMP_IF_FALSE would, and what the comparison
\* would have written nothing reads.
FusedRight(n, cx, e, e2, i, t, f, goes) ==
  /\ JumpForm(cx, e, e2, t)
  /\ e.pc + 2 \in cx.flush => e2.reg = Nothing
  /\ e2.flaws = {} => ~(i[2] \in cx.live[e.pc + 2] \cup cx.live[t])
  /\ Branches(n, cx, e, e2, t, f, cx.live[e.pc], goes)

Wanted(cx, e, i, t) == i[2] \in cx.live[e.pc + 2] \cup cx.live[t]

LEMMA BehindFusedDoes ==
  ASSUME NEW n, IsSeq(n.ops), NEW cx, NEW e, IsEmitter(e), NEW f, NEW S \in SUBSET Slots,
         NEW e1, e1 = BehindFused(cx, e)
  PROVE  Keeps(n, e, e1, f, S) /\ Adds(e, e1) /\ (e.pc + 2 \in cx.flush => e1.reg = Nothing)
<1>1. CASE e.pc + 2 \in cx.flush
  <2>1. e1 = Flush(e)
    BY <1>1 DEF BehindFused
  <2>2. Flushes(n, e, Flush(e), f, S) /\ Keeps(n, e, Flush(e), f, S)
    BY FlushFlushes, FlushKeeps
  <2> QED
    BY <2>1, <2>2 DEF Flushes
<1>2. CASE ~(e.pc + 2 \in cx.flush)
  <2>1. e1 = e
    BY <1>2 DEF BehindFused
  <2> QED
    BY <1>2, <2>1, KeepsItself, LaterItself
<1> QED
  BY <1>1, <1>2

\* try_emit_fused_cmp_jump: a comparison emitted together with the JUMP_IF_FALSE
\* behind it jumps when the two would, and nothing reads the slot the comparison
\* would have written, or a flaw is marked.
THEOREM FusedCorrect ==
  ASSUME NEW n, NEW cx, NEW e, NEW i, NEW f, Around(n, cx, e, i, f), Parted(cx), HasSnaps(cx, e),
         i[1] \in CmpOps, NEW t, Expected(cx, t), NEW goes \in BOOLEAN, goes = NotTruthy(ValueOf(i, f.regs)),
         NEW e4, e4 = FusedTo(cx, e, i, t)
  PROVE  FusedRight(n, cx, e, e4, i, t, f, goes)
<1> DEFINE ss == Operands(i)
           vs == Values(f, ss)
           S == cx.live[e.pc]
           e1 == LoadOperands(e, ss)
           no == FALSE
           xs == HomesOf(e1, ss)
           e2 == Then(Prepare(cx, e1, t), <<"test", no, i, xs, no, t>>)
           e3 == BehindFused(cx, e2)
           lost == Wanted(cx, e, i, t)
<1>1. /\ IsSeq(n.ops) /\ IsEmitter(e) /\ S \in SUBSET Slots
  BY DEF Around, Lives
<1>2. /\ Emits(n, e, e1, f, S, f, S) /\ e1.pc = e.pc /\ IsEmitter(e1) /\ Placed(e1, xs, ss)
      /\ \A k \in DOMAIN ss : ss[k] \in S
  <2>1. e1 = LoadOperands(e, Operands(i)) /\ Around(n, cx, e, i, f) /\ i[1] \in CmpOps
    OBVIOUS
  <2> HIDE DEF e1
  <2> QED
    BY <2>1, TestLoaded
<1>3. e4 = Flawed(e3, "lostValue", lost)
  BY Zenon DEF FusedTo, FusedTest, Wanted
<1>4. lost \in BOOLEAN
  BY DEF Wanted
<1>5. Adds(e, e1) /\ Later(e, e1) /\ e1.snap = e.snap /\ HasSnaps(cx, e1)
  BY <1>2 DEF Emits, Adds, HasSnaps
<1>6. no = FALSE /\ no \in BOOLEAN
  OBVIOUS
<1>7. e2 = Then(Prepare(cx, FlushIf(e1, no), t), <<"test", no, i, xs, no, t>>)
  BY DEF FlushIf
<1>8. e3 = BehindFused(cx, e2)
  OBVIOUS
<1>9. vs = Values(f, ss) /\ vs = Values(f, Operands(i))
  OBVIOUS
<1> HIDE DEF no, lost, e1, xs, e2, e3, vs, ss, S
<1>10. Decides(i, vs, no, no, goes)
  <2> SUFFICES ASSUME ~Guesses(i, vs, no)
               PROVE  Jumping(i, vs, no, no) <=> goes
    BY DEF Decides
  <2>1. Jumping(i, vs, no, no) <=> NotTruthy(ValueOf(i, f.regs))
    BY <1>6, <1>9, FusedJumpingIs
  <2> QED
    BY <2>1
<1>11. /\ JumpForm(cx, e1, e2, t) /\ e2.flaws = e1.flaws
       /\ Expected(cx, t) => Branches(n, cx, e1, e2, t, f, S, goes)
  <2>1. Parted(cx) /\ goes \in BOOLEAN
    OBVIOUS
  <2>2. no \in BOOLEAN /\ vs = Values(f, ss)
    BY <1>6, <1>9
  <2> QED
    BY ONLY <1>1, <1>2, <1>5, <1>7, <1>10, <2>1, <2>2, TestedOn
<1>12. IsEmitter(e2) /\ Later(e1, e2) /\ SnapsBut(cx, e1, e2, t) /\ e2.pc = e.pc
  BY <1>2, <1>11 DEF JumpForm, Later
<1>13. Keeps(n, e2, e3, f, S) /\ Adds(e2, e3) /\ (e.pc + 2 \in cx.flush => e3.reg = Nothing)
  BY <1>1, <1>8, <1>12, BehindFusedDoes
<1>14. IsEmitter(e3) /\ Later(e2, e3) /\ e3.snap = e2.snap
  BY <1>13 DEF Adds, Later
<1>15. /\ Adds(e3, e4) /\ (lost => e4.flaws # {})
       /\ e4.reg = e3.reg /\ e4.dirty = e3.dirty /\ e4.ops = e3.ops
  <2> DEFINE name == "lostValue"
  <2>1. e4 = Flawed(e3, name, lost)
    BY <1>3
  <2> HIDE DEF name
  <2> QED
    BY ONLY <1>4, <2>1, <1>14, FlawedIs
<1>16. e4.snap = e3.snap /\ Later(e3, e4) /\ (e4.flaws = {} => e3.flaws = {})
  BY <1>15 DEF Adds, Later
<1>17. JumpForm(cx, e, e4, t)
  <2>1. Later(e, e2)
    BY <1>1, <1>5, <1>12, LaterOn
  <2>2. Later(e, e3)
    BY <1>1, <1>14, <2>1, LaterOn
  <2>3. Later(e, e4)
    BY <1>1, <1>16, <2>2, LaterOn
  <2>4. SnapsBut(cx, e, e2, t)
    BY <1>5, <1>12, SnapsAfter
  <2> QED
    BY <1>14, <1>16, <2>3, <2>4 DEF JumpForm, SnapsBut, HasSnaps
<1>18. Branches(n, cx, e, e4, t, f, S, goes)
  <2>1. Branches(n, cx, e1, e2, t, f, S, goes)
    BY <1>11
  <2>2. Branches(n, cx, e1, e3, t, f, S, goes)
    BY <1>1, <1>12, <1>13, <1>14, <2>1, BranchesBehind
  <2>3. Branches(n, cx, e1, e4, t, f, S, goes)
    BY <1>15, <1>16, <2>2, BranchesFlawed
  <2>4. Later(e1, e3)
    BY <1>2, <1>12, <1>14, LaterOn
  <2>5. Later(e1, e4)
    BY <1>2, <1>16, <2>4, LaterOn
  <2> QED
    BY <1>1, <1>2, <2>3, <2>5, BranchesOn
<1>19. e4.flaws = {} => ~(i[2] \in cx.live[e.pc + 2] \cup cx.live[t])
  BY <1>15 DEF lost, Wanted
<1> QED
  BY <1>13, <1>15, <1>17, <1>18, <1>19 DEF FusedRight, S

-------------------------------------------------------------------------------
(* Returns.                                                                 *)
\* m has v in the first register.
Handed(e, m, f, v) == /\ IsMachine(m) /\ Running(m) /\ m.at = Len(e.ops) + 1 /\ m.out = f.out
                      /\ m.regs[0] = v
\* m has returned v.
HasReturned(m, v, out) == m.end = "returned" /\ m.value = v /\ m.out = out
Hands(n, e, e2, f, S, v) ==
  HasOps(n, e2.ops) => \A m : Sim(e, m, f, S) => \E m2 : Gets(n, m, m2) /\ Handed(e2, m2, f, v)

\* A step that sets the first register.
LEMMA HandedWith ==
  ASSUME NEW n, NEW e, NEW e2, Len(e2.ops) = Len(e.ops) + 1, NEW m, IsMachine(m), Running(m),
         m.at = Len(e.ops) + 1, NEW f, m.out = f.out, NEW v, NEW g, NEW m2,
         m2 = With(m, m.at + 1, [m.regs EXCEPT ![0] = v], m.frame, m.args, m.out, g)
  PROVE  Handed(e2, m2, f, v)
<1> DEFINE regs == [m.regs EXCEPT ![0] = v]
<1>1. m.regs = [z \in Places |-> m.regs[z]] /\ m.frame = [s \in Slots |-> m.frame[s]] /\ 0 \in Places
  BY EmptyIsNoSlot DEF IsMachine
<1>2. regs = [z \in Places |-> regs[z]] /\ regs[0] = v
  BY <1>1
<1>3. m2 = With(m, m.at + 1, regs, m.frame, m.args, m.out, g)
  OBVIOUS
<1> HIDE DEF regs
<1>4. IsMachine(m2) /\ m2.at = m.at + 1 /\ m2.regs = regs /\ m2.out = m.out /\ m2.end = m.end
  BY ONLY <1>1, <1>2, <1>3, WithFacts
<1>5. Running(m2)
  BY <1>4, Zenon DEF Running
<1> QED
  BY <1>2, <1>4, <1>5 DEF Handed

\* The operation at which a machine is.
LEMMA OpNext ==
  ASSUME NEW n, IsSeq(n.ops), NEW e, IsEmitter(e), NEW op, NEW e2, e2 = Then(e, op), HasOps(n, e2.ops),
         NEW m, m.at = Len(e.ops) + 1
  PROVE  OpOf(n, m) = op /\ Len(e2.ops) = Len(e.ops) + 1
<1>1. e2.ops = Append(e.ops, op) /\ IsSeq(e.ops)
  BY ThenIs DEF Made, IsEmitter
<1>2. n.ops[Len(e.ops) + 1] = op /\ Len(Append(e.ops, op)) = Len(e.ops) + 1
  BY <1>1, OpHere
<1> QED
  BY <1>1, <1>2 DEF OpOf

LEMMA CopyHands ==
  ASSUME NEW n, IsSeq(n.ops), NEW e, IsEmitter(e), NEW s, NEW f, NEW S \in SUBSET Slots, s \in S,
         Home(e, s) \in Regs, e.reg[Home(e, s)] = s, NEW e2, e2 = Then(e, <<"copy", 0, Home(e, s)>>)
  PROVE  Hands(n, e, e2, f, S, f.regs[s])
<1> SUFFICES ASSUME HasOps(n, e2.ops), NEW m, Sim(e, m, f, S)
             PROVE  \E m2 : Gets(n, m, m2) /\ Handed(e2, m2, f, f.regs[s])
  BY DEF Hands
<1> DEFINE y == Home(e, s)
           op == <<"copy", 0, y>>
<1>1. IsMachine(m) /\ Running(m) /\ m.at = Len(e.ops) + 1 /\ m.out = f.out
      /\ Agrees(e.reg, e.dirty, m.regs, m.frame, f.regs, S)
  BY DEF Sim
<1>2. m.regs[y] = f.regs[s]
  BY <1>1 DEF Agrees
<1>3. OpOf(n, m) = op /\ Len(e2.ops) = Len(e.ops) + 1
  <2>1. e2 = Then(e, op)
    OBVIOUS
  <2> HIDE DEF op
  <2> QED
    BY <1>1, <2>1, OpNext
<1> HIDE DEF y
<1>4. Exec(n, m) = With(m, m.at + 1, [m.regs EXCEPT ![0] = m.regs[y]], m.frame, m.args, m.out, m.guessed)
  BY <1>1, <1>3, ExecCopy
<1>5. Exec(n, m) = With(m, m.at + 1, [m.regs EXCEPT ![0] = f.regs[s]], m.frame, m.args, m.out, m.guessed)
  BY <1>2, <1>4
<1>6. Handed(e2, Exec(n, m), f, f.regs[s])
  BY <1>1, <1>3, <1>5, HandedWith
<1>7. Gets(n, m, Exec(n, m))
  BY <1>1, GetsStep
<1> QED
  BY <1>6, <1>7

LEMMA ZeroHands ==
  ASSUME NEW n, IsSeq(n.ops), NEW e, IsEmitter(e), NEW f, NEW S,
         NEW e2, e2 = Then(e, <<"zero">>)
  PROVE  Hands(n, e, e2, f, S, Num(0))
<1> SUFFICES ASSUME HasOps(n, e2.ops), NEW m, Sim(e, m, f, S)
             PROVE  \E m2 : Gets(n, m, m2) /\ Handed(e2, m2, f, Num(0))
  BY DEF Hands
<1> DEFINE op == <<"zero">>
           v == Num(0)
<1>1. IsMachine(m) /\ Running(m) /\ m.at = Len(e.ops) + 1 /\ m.out = f.out
  BY DEF Sim
<1>3. OpOf(n, m) = op /\ Len(e2.ops) = Len(e.ops) + 1
  <2>1. e2 = Then(e, op)
    OBVIOUS
  <2> HIDE DEF op
  <2> QED
    BY <1>1, <2>1, OpNext
<1>4. Exec(n, m) = With(m, m.at + 1, [m.regs EXCEPT ![0] = v], m.frame, m.args, m.out, m.guessed)
  BY <1>1, <1>3, ExecZero
<1> HIDE DEF v
<1>6. Handed(e2, Exec(n, m), f, v)
  BY <1>1, <1>3, <1>4, HandedWith
<1>7. Gets(n, m, Exec(n, m))
  BY <1>1, GetsStep
<1> QED
  BY <1>6, <1>7 DEF v

LEMMA NumberHands ==
  ASSUME NEW n, IsSeq(n.ops), NEW e, IsEmitter(e), NEW f, NEW S, NEW i, i[1] = "RETURN_NUM_IMM",
         NEW e2, e2 = Then(e, <<"set", 0, i, <<>>, FALSE>>)
  PROVE  Hands(n, e, e2, f, S, Num(i[3]))
<1> SUFFICES ASSUME HasOps(n, e2.ops), NEW m, Sim(e, m, f, S)
             PROVE  \E m2 : Gets(n, m, m2) /\ Handed(e2, m2, f, Num(i[3]))
  BY DEF Hands
<1> DEFINE no == FALSE
           xs == <<>>
           op == <<"set", 0, i, xs, no>>
           v == Num(i[3])
           vs == ValuesOf(m, xs)
<1>1. IsMachine(m) /\ Running(m) /\ m.at = Len(e.ops) + 1 /\ m.out = f.out
  BY DEF Sim
<1>2. After1(m, no) = m.regs
  BY DEF After1
<1>3. Outcome(i, vs, no) = v
  <2>1. ~(i[1] \in OnDoubles)
    BY DEF OnDoubles, ArithOps, ImmOps, UnaryOps, CmpOps, RegJumps, ImmJumps
  <2>2. ~Guesses(i, vs, no)
    BY <2>1 DEF Guesses
  <2>3. Computed(i, vs) = v
    BY ComputedFacts
  <2> HIDE DEF vs, no, v
  <2> QED
    BY <2>2, <2>3, Zenon DEF Outcome
<1>4. OpOf(n, m) = op /\ Len(e2.ops) = Len(e.ops) + 1
  <2>1. e2 = Then(e, op)
    OBVIOUS
  <2> HIDE DEF op
  <2> QED
    BY <1>1, <2>1, OpNext
<1> HIDE DEF v, no, xs
<1>5. Exec(n, m) = SetTo(m, 0, i, vs, no)
  <2>1. 0 \in Places /\ OpOf(n, m) = <<"set", 0, i, xs, no>>
    BY <1>4, EmptyIsNoSlot
  <2> QED
    BY ONLY <1>1, <2>1, ExecSet
<1> HIDE DEF vs
<1> DEFINE g == NowGuessed(m, i, vs, no)
<1>6. Exec(n, m) = With(m, m.at + 1, [m.regs EXCEPT ![0] = v], m.frame, m.args, m.out, g)
  BY <1>2, <1>3, <1>5, Zenon DEF SetTo
<1> HIDE DEF g, op
<1>7. Handed(e2, Exec(n, m), f, v)
  BY <1>1, <1>4, <1>6, HandedWith
<1>8. Gets(n, m, Exec(n, m))
  BY <1>1, GetsStep
<1> QED
  BY <1>7, <1>8 DEF v

-------------------------------------------------------------------------------
\* As Hands, unless something has gone wrong.
GivesOr(n, e, e2, f, S, v) ==
  HasOps(n, e2.ops) /\ e2.flaws = {} =>
    \A m : Sim(e, m, f, S) => \E m2 : Gets(n, m, m2) /\ (Guessed(m2) \/ Handed(e2, m2, f, v))

LEMMA HandsOn ==
  ASSUME NEW n, IsSeq(n.ops), NEW e, NEW e1, IsEmitter(e1), NEW e2, NEW f, NEW S, NEW v,
         Emits(n, e, e1, f, S, f, S), Later(e1, e2), Hands(n, e1, e2, f, S, v)
  PROVE  GivesOr(n, e, e2, f, S, v)
<1> SUFFICES ASSUME HasOps(n, e2.ops), e2.flaws = {}, NEW m, Sim(e, m, f, S)
             PROVE  \E m2 : Gets(n, m, m2) /\ (Guessed(m2) \/ Handed(e2, m2, f, v))
  BY DEF GivesOr
<1>1. HasOps(n, e1.ops) /\ e1.flaws = {}
  BY HasOpsBefore DEF Later
<1>2. PICK m1 : Gets(n, m, m1) /\ (Guessed(m1) \/ Sim(e1, m1, f, S))
  BY <1>1 DEF Emits, Does
<1>3. CASE Sim(e1, m1, f, S)
  <2>1. PICK m2 : Gets(n, m1, m2) /\ Handed(e2, m2, f, v)
    BY <1>3 DEF Hands
  <2>2. Gets(n, m, m2)
    BY <1>2, <2>1, GetsOn
  <2> QED
    BY <2>1, <2>2
<1> QED
  BY <1>2, <1>3

LEMMA ReturnedFacts ==
  ASSUME NEW i, NEW r
  PROVE  /\ i[1] = "RETURN_NUM_IMM" => Returned(i, r) = Num(i[3])
         /\ i[1] = "RETURN_NONE" => Returned(i, r) = None
         /\ i[1] \in {"RETURN", "RETURN_NUM", "RETURN_BOOL"} => Returned(i, r) = r[i[2]]
<1>1. CASE i[1] = "RETURN_NUM_IMM"
  BY <1>1 DEF Returned
<1>2. CASE i[1] = "RETURN_NONE"
  BY <1>2 DEF Returned
<1>3. CASE i[1] \in {"RETURN", "RETURN_NUM", "RETURN_BOOL"}
  <2>1. i[1] # "RETURN_NUM_IMM" /\ i[1] # "RETURN_NONE"
    BY <1>3
  <2>2. Returned(i, r) = r[i[2]]
    BY <2>1, Zenon DEF Returned
  <2> QED
    BY <1>3, <2>1, <2>2
<1> QED
  BY <1>1, <1>2, <1>3

LEMMA BoxedIs ==
  ASSUME NEW kind, NEW op, NEW v, ~Misjudged(kind, op, v)
  PROVE  /\ op # "RETURN_NONE" => Boxed(kind, v) = v
         /\ kind = "none" => Boxed(kind, v) = None
<1>1. CASE kind = "none"
  <2>1. Boxed(kind, v) = None
    BY <1>1 DEF Boxed
  <2> QED
    BY <1>1, <2>1 DEF Misjudged
<1>2. CASE kind = "any"
  <2>1. kind # "bool" /\ kind # "none" /\ kind # "num"
    BY <1>2
  <2>2. Boxed(kind, v) = v
    BY <2>1, Zenon DEF Boxed
  <2> QED
    BY <1>2, <2>2
<1>3. CASE kind # "none" /\ kind # "any"
  BY <1>3 DEF Misjudged
<1> QED
  BY <1>1, <1>2, <1>3

\* What is emitted before a return puts the value to return in place.
Delivers(n, cx, e, e2, i, f, S, v) ==
  /\ Adds(e, e2) /\ GivesOr(n, e, e2, f, S, v)
  /\ i[1] = "RETURN_NONE" /\ e2.flaws = {} => cx.kind = "none"
  /\ i[1] # "RETURN_NONE" => v = Returned(i, f.regs)

LEMMA DeliversNone ==
  ASSUME NEW n, NEW cx, NEW e, NEW i, NEW f, IsSeq(n.ops), IsEmitter(e), i[1] = "RETURN_NONE",
         NEW S \in SUBSET Slots, NEW e2, e2 = Returning(cx, e, i)
  PROVE  Delivers(n, cx, e, e2, i, f, S, Num(0))
<1> DEFINE e1 == Then(e, <<"zero">>)
           name == "noneAsZero"
           if == cx.kind # "none"
           v == Num(0)
<1>1. e2 = Flawed(e1, name, if)
  BY Zenon DEF Returning
<1>2. Hands(n, e, e1, f, S, v)
  BY ZeroHands
<1>3. Adds(e, e1) /\ IsEmitter(e1)
  BY ThenIs DEF Adds, Later
<1>4. if \in BOOLEAN /\ (~if => cx.kind = "none")
  OBVIOUS
<1> HIDE DEF e1, name, if, v
<1>5. Adds(e1, e2) /\ (if => e2.flaws # {}) /\ e2.ops = e1.ops
  BY ONLY <1>1, <1>3, <1>4, FlawedIs
<1>6. Adds(e, e2)
  BY <1>3, <1>5, AddsOn
<1>7. Hands(n, e, e2, f, S, v)
  BY <1>2, <1>5 DEF Hands, Handed
<1>8. GivesOr(n, e, e2, f, S, v)
  BY <1>7 DEF Hands, GivesOr
<1> QED
  BY <1>4, <1>5, <1>6, <1>8 DEF Delivers, v

LEMMA DeliversNumber ==
  ASSUME NEW n, NEW cx, NEW e, NEW i, NEW f, IsSeq(n.ops), IsEmitter(e), i[1] = "RETURN_NUM_IMM",
         NEW S \in SUBSET Slots, NEW e2, e2 = Returning(cx, e, i)
  PROVE  Delivers(n, cx, e, e2, i, f, S, Num(i[3]))
<1> DEFINE op == <<"set", 0, i, <<>>, FALSE>>
           v == Num(i[3])
<1>1. e2 = Then(e, op)
  BY Zenon DEF Returning
<1>2. Hands(n, e, e2, f, S, v)
  BY <1>1, NumberHands
<1>3. v = Returned(i, f.regs)
  BY ReturnedFacts
<1> HIDE DEF op, v
<1>4. Adds(e, e2)
  BY <1>1, ThenIs
<1>5. GivesOr(n, e, e2, f, S, v)
  BY <1>2 DEF Hands, GivesOr
<1> QED
  BY <1>3, <1>4, <1>5 DEF Delivers, v

LEMMA DeliversSlot ==
  ASSUME NEW n, NEW cx, NEW e, NEW i, NEW f, IsSeq(n.ops), IsEmitter(e),
         i[1] \in {"RETURN", "RETURN_NUM", "RETURN_BOOL"},
         NEW S \in SUBSET Slots, i[2] \in S, NEW e2, e2 = Returning(cx, e, i)
  PROVE  Delivers(n, cx, e, e2, i, f, S, f.regs[i[2]])
<1> DEFINE s == i[2]
           v == f.regs[s]
           e1 == Load(e, s, {})
<1>1. i[1] # "RETURN_NUM_IMM" /\ i[1] # "RETURN_NONE"
  OBVIOUS
<1>2. e2 = ReturnOn(e1, i)
  BY <1>1, Zenon DEF Returning
<1>3. Loads(n, e, e1, s, {}, f, S)
  <2>1. Regs \ {} # {}
    BY ThirdRegister
  <2> QED
    BY <2>1, LoadLoads
<1>4. e2 = Then(e1, <<"copy", 0, Home(e1, s)>>)
  BY <1>2 DEF ReturnOn
<1>5. v = Returned(i, f.regs) /\ s \in S /\ v = f.regs[s]
  BY ReturnedFacts
<1> HIDE DEF e1, s, v
<1>6. Home(e1, s) \in Regs /\ e1.reg[Home(e1, s)] = s
  BY <1>3 DEF Loads
<1>7. Emits(n, e, e1, f, S, f, S) /\ IsEmitter(e1)
  BY <1>3, LoadsEmits
<1>8. Hands(n, e1, e2, f, S, v)
  BY <1>4, <1>5, <1>6, <1>7, CopyHands
<1>9. Adds(e1, e2)
  <2> DEFINE op == <<"copy", 0, Home(e1, s)>>
  <2>1. e2 = Then(e1, op)
    BY <1>4
  <2> HIDE DEF op
  <2> QED
    BY <1>7, <2>1, ThenIs
<1>10. Adds(e, e2) /\ Later(e1, e2)
  BY <1>7, <1>9, AddsOn DEF Emits, Adds
<1>11. GivesOr(n, e, e2, f, S, v)
  BY <1>7, <1>8, <1>10, HandsOn
<1> QED
  BY <1>1, <1>5, <1>10, <1>11 DEF Delivers, s, v

\* What is emitted for a return returns what the interpreter does.
GivesBack(n, e, e2, f, S, v) ==
  HasOps(n, e2.ops) /\ e2.flaws = {} =>
    \A m : Sim(e, m, f, S) => \E m2 : Gets(n, m, m2) /\ (Guessed(m2) \/ HasReturned(m2, v, f.out))

LEMMA ReturnStep ==
  ASSUME NEW n, NEW m, NEW f, NEW e, NEW v, Handed(e, m, f, v), NEW i, i[1] \in ReturnOps,
         OpOf(n, m) = <<"return", i[1]>>, i[1] # "RETURN_NONE" => v = Returned(i, f.regs),
         i[1] = "RETURN_NONE" => n.kind = "none"
  PROVE  \E m2 : Gets(n, m, m2) /\ (Guessed(m2) \/ HasReturned(m2, Returned(i, f.regs), f.out))
<1> DEFINE m2 == Exec(n, m)
           op == i[1]
           w == Returned(i, f.regs)
<1>1. IsMachine(m) /\ Running(m) /\ m.out = f.out /\ m.regs[0] = v
  BY DEF Handed
<1>2. Gets(n, m, m2)
  BY <1>1, GetsStep
<1>3. OpOf(n, m) = <<"return", op>>
  OBVIOUS
<1>4. op = "RETURN_NONE" => w = None
  BY ReturnedFacts
<1>5. op # "RETURN_NONE" => v = w
  OBVIOUS
<1> HIDE DEF m2, op, w
<1>6. /\ m2.end = "returned" /\ m2.value = Boxed(n.kind, v) /\ m2.out = f.out
      /\ m2.guessed = (m.guessed \/ Misjudged(n.kind, op, v))
  BY ONLY <1>1, <1>3, ExecReturn DEF m2
<1>7. CASE Misjudged(n.kind, op, v)
  <2>1. Guessed(m2)
    BY <1>6, <1>7, Zenon DEF Guessed
  <2> QED
    BY <1>2, <2>1
<1>8. CASE ~Misjudged(n.kind, op, v)
  <2>1. /\ op # "RETURN_NONE" => Boxed(n.kind, v) = v
        /\ n.kind = "none" => Boxed(n.kind, v) = None
    BY <1>8, BoxedIs
  <2>2. op = "RETURN_NONE" => n.kind = "none"
    BY DEF op
  <2>3. Boxed(n.kind, v) = w
    BY <1>4, <1>5, <2>1, <2>2
  <2>4. HasReturned(m2, w, f.out)
    BY <1>6, <2>3, Zenon DEF HasReturned
  <2> QED
    BY <1>2, <2>4 DEF w
<1> QED
  BY <1>7, <1>8

-------------------------------------------------------------------------------
LEMMA Delivered ==
  ASSUME NEW n, NEW cx, NEW e, NEW i, NEW f, Around(n, cx, e, i, f), i[1] \in ReturnOps,
         NEW e2, e2 = Returning(cx, e, i)
  PROVE  \E v : Delivers(n, cx, e, e2, i, f, cx.live[e.pc], v)
<1>1. IsSeq(n.ops) /\ IsEmitter(e) /\ cx.live[e.pc] \in SUBSET Slots /\ Reads(i) \subseteq cx.live[e.pc]
  BY DEF Around, Lives
<1>2. CASE i[1] = "RETURN_NONE"
  BY <1>1, <1>2, DeliversNone
<1>3. CASE i[1] = "RETURN_NUM_IMM"
  BY <1>1, <1>3, DeliversNumber
<1>4. CASE i[1] \in {"RETURN", "RETURN_NUM", "RETURN_BOOL"}
  <2>1. i[2] \in cx.live[e.pc]
    BY <1>1, <1>4, ReadsAre
  <2> QED
    BY <1>1, <1>4, <2>1, DeliversSlot
<1> QED
  BY <1>2, <1>3, <1>4 DEF ReturnOps

\* func_emit_return and jit_box_return: machine code returns the value the
\* interpreter does, unless the kind of the result was misjudged.
THEOREM ReturnCorrect ==
  ASSUME NEW n, NEW cx, n.kind = cx.kind, NEW e, NEW i, NEW f, Around(n, cx, e, i, f), i[1] \in ReturnOps,
         NEW e2, e2 = EmitReturn(cx, e, i)
  PROVE  /\ Adds(e, e2) /\ e2.reg = Nothing
         /\ GivesBack(n, e, e2, f, cx.live[e.pc], Returned(i, f.regs))
<1> DEFINE S == cx.live[e.pc]
           e0 == Returning(cx, e, i)
           op == <<"return", i[1]>>
           e1 == Then(e0, op)
           w == Returned(i, f.regs)
<1>1. IsSeq(n.ops) /\ IsEmitter(e)
  BY DEF Around
<1>2. e2 = Cleared(e1)
  BY DEF EmitReturn
<1>3. PICK v : Delivers(n, cx, e, e0, i, f, S, v)
  BY Delivered
<1> HIDE DEF e0, S
<1>4. Adds(e, e0) /\ IsEmitter(e0)
  BY <1>3 DEF Delivers, Adds, Later
<1>5. e1 = Then(e0, op)
  OBVIOUS
<1> HIDE DEF e1
<1>6. Adds(e0, e1) /\ IsEmitter(e1)
  <2> HIDE DEF op
  <2> QED
    BY <1>4, <1>5, ThenIs DEF Adds, Later
<1>7. Adds(e1, e2) /\ e2.reg = Nothing /\ e2.ops = e1.ops
  <2>1. e2 = Made(e1, Nothing, {}, e1.ops, e1.flaws) /\ Adds(e1, e2)
    BY <1>2, <1>6, ClearedIs
  <2> QED
    BY <2>1 DEF Made
<1>8. Adds(e0, e2) /\ Adds(e, e2)
  BY <1>1, <1>4, <1>6, <1>7, AddsOn
<1>9. ASSUME HasOps(n, e2.ops), e2.flaws = {}, NEW m, Sim(e, m, f, S)
      PROVE  \E m2 : Gets(n, m, m2) /\ (Guessed(m2) \/ HasReturned(m2, w, f.out))
  <2>1. HasOps(n, e0.ops) /\ e0.flaws = {} /\ HasOps(n, e1.ops)
    BY <1>1, <1>4, <1>7, <1>8, <1>9, HasOpsBefore DEF Adds, Later
  <2>2. PICK m1 : Gets(n, m, m1) /\ (Guessed(m1) \/ Handed(e0, m1, f, v))
    BY <1>3, <1>9, <2>1 DEF Delivers, GivesOr
  <2>3. CASE Handed(e0, m1, f, v)
    <3>1. OpOf(n, m1) = op
      <4>1. m1.at = Len(e0.ops) + 1
        BY <2>3 DEF Handed
      <4> HIDE DEF op
      <4> QED
        BY <1>1, <1>4, <1>5, <2>1, <4>1, OpNext
    <3>2. i[1] # "RETURN_NONE" => v = w
      BY <1>3 DEF Delivers
    <3>3. i[1] = "RETURN_NONE" => n.kind = "none"
      BY <1>3, <2>1 DEF Delivers
    <3>4. \E m2 : Gets(n, m1, m2) /\ (Guessed(m2) \/ HasReturned(m2, Returned(i, f.regs), f.out))
      BY <2>3, <3>1, <3>2, <3>3, ReturnStep
    <3>5. PICK m2 : Gets(n, m1, m2) /\ (Guessed(m2) \/ HasReturned(m2, w, f.out))
      BY <3>4
    <3>6. Gets(n, m, m2)
      BY <2>2, <3>5, GetsOn
    <3> QED
      BY <3>5, <3>6
  <2> QED
    BY <2>2, <2>3
<1>10. GivesBack(n, e, e2, f, S, w)
  BY <1>9 DEF GivesBack
<1> QED
  BY <1>7, <1>8, <1>10 DEF S

-------------------------------------------------------------------------------
(* What is live.                                                            *)
\* Code whose jumps stay in it.
Closed(c) == Len(c) \in Nat \ {0} /\ InitiallyPure(c)

LEMMA BodyFacts ==
  ASSUME NEW c, Closed(c)
  PROVE  /\ End(c) \in Nat /\ Body(c) = 1 .. (End(c) - 1) /\ End(c) \in 1 .. End(c)
         /\ End(c) \notin Body(c) /\ \A pc \in Body(c) : pc \in 1 .. End(c) /\ pc + 1 \in 1 .. End(c)
         /\ \A pc \in 1 .. End(c) : pc # End(c) => pc \in Body(c)
         /\ \A pc \in Body(c) : Successors(c, pc) \subseteq 1 .. End(c)
<1>1. /\ End(c) \in Nat /\ Body(c) = 1 .. (End(c) - 1) /\ End(c) \in 1 .. End(c)
      /\ End(c) \notin Body(c) /\ \A pc \in Body(c) : pc \in 1 .. End(c) /\ pc + 1 \in 1 .. End(c)
      /\ \A pc \in 1 .. End(c) : pc # End(c) => pc \in Body(c)
  BY DEF Closed, End, Body
<1>2. ASSUME NEW pc \in Body(c)
      PROVE  Successors(c, pc) \subseteq 1 .. End(c)
  <2>1. OpAt(c, pc) \in JumpOps => At(c, pc)[2] \in 1 .. End(c)
    BY DEF Closed, InitiallyPure
  <2>2. pc + 1 \in 1 .. End(c)
    BY <1>1
  <2> QED
    BY <2>1, <2>2 DEF Successors
<1> QED
  BY <1>1, <1>2

\* What is live behind an instruction.
Behind(c, live, pc) == UNION {live[t] : t \in Successors(c, pc)}

\* What one more instruction looked at finds.
LEMMA SoonerIs ==
  ASSUME NEW c, Closed(c), NEW live
  PROVE  /\ LiveSooner(c, live)[End(c)] = {}
         /\ \A pc \in Body(c) :
              LiveSooner(c, live)[pc] = Reads(At(c, pc)) \cup (Behind(c, live, pc) \ Writes(At(c, pc)))
<1> DEFINE more == [pc \in 1 .. End(c) |->
                      IF pc = End(c) THEN {}
                      ELSE Reads(At(c, pc))
                           \cup ((UNION {live[t] : t \in Successors(c, pc)}) \ Writes(At(c, pc)))]
<1>1. LiveSooner(c, live) = more
  BY Zenon DEF LiveSooner
<1>2. more[End(c)] = {}
  BY BodyFacts
<1>3. ASSUME NEW pc \in Body(c)
      PROVE  more[pc] = Reads(At(c, pc)) \cup (Behind(c, live, pc) \ Writes(At(c, pc)))
  <2>1. pc \in 1 .. End(c) /\ pc # End(c)
    BY BodyFacts
  <2>2. more[pc] = Reads(At(c, pc)) \cup ((UNION {live[t] : t \in Successors(c, pc)}) \ Writes(At(c, pc)))
    BY <2>1
  <2> HIDE DEF more
  <2>3. Behind(c, live, pc) = UNION {live[t] : t \in Successors(c, pc)}
    BY DEF Behind
  <2> QED
    BY <2>2, <2>3, Zenon
<1> HIDE DEF more
<1> QED
  BY <1>1, <1>2, <1>3

\* The pcs at which slot s is live, and those it is at if it is at those of P.
LiveAt(c, live, s) == {pc \in Body(c) : s \in live[pc]}
Flow(c, s, P) == {pc \in Body(c) : \/ s \in Reads(At(c, pc))
                                   \/ s \notin Writes(At(c, pc)) /\ \E t \in Successors(c, pc) : t \in P}

LEMMA FlowMore ==
  ASSUME NEW c, NEW s, NEW P, NEW Q, P \subseteq Q
  PROVE  Flow(c, s, P) \subseteq Flow(c, s, Q)
BY DEF Flow

LEMMA SoonerFlow ==
  ASSUME NEW c, Closed(c), NEW live, live[End(c)] = {}, NEW s
  PROVE  LiveAt(c, LiveSooner(c, live), s) = Flow(c, s, LiveAt(c, live, s))
<1>1. ASSUME NEW pc \in Body(c)
      PROVE  s \in LiveSooner(c, live)[pc] <=> pc \in Flow(c, s, LiveAt(c, live, s))
  <2> DEFINE U == Behind(c, live, pc)
  <2>1. LiveSooner(c, live)[pc] = Reads(At(c, pc)) \cup (U \ Writes(At(c, pc)))
    BY SoonerIs
  <2>2. \A t \in Successors(c, pc) : s \in live[t] <=> t \in LiveAt(c, live, s)
    <3>1. \A t \in Successors(c, pc) : t \in Body(c) \/ t = End(c)
      BY BodyFacts
    <3> QED
      BY <3>1, BodyFacts DEF LiveAt
  <2>3. s \in U <=> \E t \in Successors(c, pc) : s \in live[t]
    BY DEF Behind
  <2> HIDE DEF U
  <2>4. s \in LiveSooner(c, live)[pc] <=>
          \/ s \in Reads(At(c, pc))
          \/ s \notin Writes(At(c, pc)) /\ \E t \in Successors(c, pc) : s \in live[t]
    <3>1. s \in LiveSooner(c, live)[pc] <=> s \in Reads(At(c, pc)) \/ (s \in U /\ s \notin Writes(At(c, pc)))
      BY <2>1
    <3> QED
      BY <2>3, <3>1
  <2> QED
    BY <2>2, <2>4 DEF Flow
<1> QED
  BY <1>1 DEF LiveAt, Flow

\* The pcs at which s is found to be live, h instructions ahead.
LEMMA LivingFlow ==
  ASSUME NEW c, Closed(c), NEW run, NEW k \in Nat, IsLiving(run, c, k), NEW s
  PROVE  /\ \A h \in 0 .. k : run[h][End(c)] = {}
         /\ LiveAt(c, run[0], s) = {}
         /\ \A h \in Nat : h < k => LiveAt(c, run[h + 1], s) = Flow(c, s, LiveAt(c, run[h], s))
<1>1. run[0] = [pc \in 1 .. End(c) |-> {}]
  <2>1. 0 \in 0 .. k
    OBVIOUS
  <2> QED
    BY <2>1 DEF IsLiving
<1>2. \A h \in Nat : h < k => run[h + 1] = LiveSooner(c, run[h])
  <2>1. ASSUME NEW h \in Nat, h < k
        PROVE  run[h + 1] = LiveSooner(c, run[h])
    <3>1. h + 1 \in 0 .. k /\ h + 1 # 0 /\ (h + 1) - 1 = h
      BY <2>1
    <3> QED
      BY <3>1 DEF IsLiving
  <2> QED
    BY <2>1
<1>3. \A h \in 0 .. k : run[h][End(c)] = {}
  <2>1. ASSUME NEW h \in 0 .. k
        PROVE  run[h][End(c)] = {}
    <3>1. CASE h = 0
      BY <1>1, <3>1, BodyFacts
    <3>2. CASE h # 0
      <4>1. h - 1 \in Nat /\ h - 1 < k /\ (h - 1) + 1 = h
        BY <3>2
      <4>2. run[h] = LiveSooner(c, run[h - 1])
        BY <1>2, <4>1
      <4> QED
        BY <4>2, SoonerIs
    <3> QED
      BY <3>1, <3>2
  <2> QED
    BY <2>1
<1>4. LiveAt(c, run[0], s) = {}
  BY <1>1, BodyFacts DEF LiveAt
<1>5. ASSUME NEW h \in Nat, h < k
      PROVE  LiveAt(c, run[h + 1], s) = Flow(c, s, LiveAt(c, run[h], s))
  <2>1. run[h][End(c)] = {}
    BY <1>3, <1>5
  <2> QED
    BY <1>2, <1>5, <2>1, SoonerFlow
<1> QED
  BY <1>3, <1>4, <1>5

-------------------------------------------------------------------------------
\* Sets of pcs that grow, each by what follows of the one before, grow no more
\* once they have not, and have as many pcs as there were steps before that.
LEMMA FlowGrows ==
  ASSUME NEW c, Closed(c), NEW s, NEW k \in Nat, NEW P, P[0] = {},
         \A h \in Nat : h < k => P[h + 1] = Flow(c, s, P[h])
  PROVE  \A h \in Nat : h < k =>
           /\ P[h] \subseteq P[h + 1] /\ P[h + 1] \subseteq Body(c)
           /\ P[h] = P[h + 1] \/ Cardinality(P[h + 1]) >= h + 1
<1> DEFINE T == {h \in Nat : h < k =>
                   /\ P[h] \subseteq P[h + 1] /\ P[h + 1] \subseteq Body(c)
                   /\ P[h] = P[h + 1] \/ Cardinality(P[h + 1]) >= h + 1}
<1>1. IsFiniteSet(Body(c))
  BY BodyFacts, FS_Interval
<1>2. \A h \in Nat : h < k => P[h + 1] \subseteq Body(c)
  BY DEF Flow
<1>3. \A h \in Nat : h < k => IsFiniteSet(P[h + 1]) /\ Cardinality(P[h + 1]) \in Nat
  BY <1>1, <1>2, FS_Subset, FS_CardinalityType
<1>4. 0 \in T
  <2> SUFFICES ASSUME 0 < k
               PROVE  P[0] \subseteq P[0 + 1] /\ (P[0] = P[0 + 1] \/ Cardinality(P[0 + 1]) >= 1)
    BY <1>2
  <2>1. CASE P[0 + 1] = {}
    BY <2>1
  <2>2. CASE P[0 + 1] # {}
    <3>1. Cardinality(P[0 + 1]) # 0
      BY <1>3, <2>2, FS_EmptySet
    <3> QED
      BY <1>3, <3>1
  <2> QED
    BY <2>1, <2>2
<1>5. ASSUME NEW h \in Nat, h \in T
      PROVE  h + 1 \in T
  <2> SUFFICES ASSUME h + 1 < k
               PROVE  /\ P[h + 1] \subseteq P[h + 2]
                      /\ P[h + 1] = P[h + 2] \/ Cardinality(P[h + 2]) >= h + 2
    <3>1. (h + 1) + 1 = h + 2
      OBVIOUS
    <3> QED
      BY <1>2, <3>1
  <2>1. /\ P[h] \subseteq P[h + 1]
        /\ P[h] = P[h + 1] \/ Cardinality(P[h + 1]) >= h + 1
    BY <1>5
  <2>2. P[h + 1] = Flow(c, s, P[h]) /\ P[h + 2] = Flow(c, s, P[h + 1])
    <3>1. (h + 1) + 1 = h + 2 /\ h < k
      OBVIOUS
    <3> QED
      BY <3>1
  <2>3. P[h + 1] \subseteq P[h + 2]
    BY <2>1, <2>2, FlowMore
  <2>4. CASE P[h] = P[h + 1]
    BY <2>2, <2>3, <2>4
  <2>5. CASE Cardinality(P[h + 1]) >= h + 1 /\ P[h + 1] # P[h + 2]
    <3>1. /\ IsFiniteSet(P[h + 1]) /\ Cardinality(P[h + 1]) \in Nat
          /\ IsFiniteSet(P[h + 2]) /\ Cardinality(P[h + 2]) \in Nat
      <4>1. (h + 1) + 1 = h + 2 /\ h < k /\ h + 1 \in Nat
        OBVIOUS
      <4> QED
        BY <1>3, <4>1
    <3>2. Cardinality(P[h + 1]) < Cardinality(P[h + 2])
      <4>1. Cardinality(P[h + 1]) <= Cardinality(P[h + 2])
            /\ (Cardinality(P[h + 2]) = Cardinality(P[h + 1]) => P[h + 1] = P[h + 2])
        BY <2>3, <3>1, FS_Subset
      <4> QED
        BY <2>5, <3>1, <4>1
    <3> QED
      BY <2>3, <2>5, <3>1, <3>2
  <2> QED
    BY <2>1, <2>3, <2>4, <2>5
<1> HIDE DEF T
<1>6. \A h \in Nat : h \in T
  BY ONLY <1>4, <1>5, AllNaturals
<1> QED
  BY <1>6 DEF T

\* So they have stopped growing when there are more steps than pcs.
LEMMA FlowSettles ==
  ASSUME NEW c, Closed(c), NEW s, NEW P, P[0] = {},
         \A h \in Nat : h < End(c) => P[h + 1] = Flow(c, s, P[h])
  PROVE  P[End(c)] = Flow(c, s, P[End(c)])
<1> DEFINE k == End(c)
<1>1. k \in Nat /\ k - 1 \in Nat /\ k - 1 < k /\ (k - 1) + 1 = k /\ Body(c) = 1 .. (k - 1)
  BY BodyFacts
<1>2. /\ P[k - 1] \subseteq P[k] /\ P[k] \subseteq Body(c)
      /\ P[k - 1] = P[k] \/ Cardinality(P[k]) >= k
  <2>1. \A h \in Nat : h < k =>
           /\ P[h] \subseteq P[h + 1] /\ P[h + 1] \subseteq Body(c)
           /\ P[h] = P[h + 1] \/ Cardinality(P[h + 1]) >= h + 1
    BY <1>1, FlowGrows
  <2> HIDE DEF k
  <2>2. /\ P[k - 1] \subseteq P[(k - 1) + 1] /\ P[(k - 1) + 1] \subseteq Body(c)
        /\ P[k - 1] = P[(k - 1) + 1] \/ Cardinality(P[(k - 1) + 1]) >= (k - 1) + 1
    BY <1>1, <2>1
  <2> QED
    BY <1>1, <2>2
<1>3. IsFiniteSet(Body(c)) /\ Cardinality(Body(c)) = k - 1
  <2> HIDE DEF k
  <2>1. 1 \in Int /\ k - 1 \in Int
    BY <1>1
  <2>2. Cardinality(1 .. (k - 1)) = IF 1 > k - 1 THEN 0 ELSE (k - 1) - 1 + 1
    BY <2>1, FS_Interval
  <2>3. IsFiniteSet(1 .. (k - 1))
    BY <2>1, FS_Interval
  <2> QED
    BY <1>1, <2>2, <2>3
<1>4. Cardinality(P[k]) \in Nat /\ Cardinality(P[k]) <= k - 1
  BY <1>2, <1>3, FS_Subset, FS_CardinalityType
<1>5. P[k - 1] = P[k]
  <2> HIDE DEF k
  <2> QED
    BY <1>1, <1>2, <1>4
<1>6. P[k] = Flow(c, s, P[k - 1])
  <2>1. P[(k - 1) + 1] = Flow(c, s, P[k - 1])
    BY <1>1
  <2> HIDE DEF k
  <2> QED
    BY <1>1, <2>1
<1> QED
  BY <1>5, <1>6

-------------------------------------------------------------------------------
\* What a set of live slots has to be for each pc.
LiveWell(c, live) ==
  /\ live[End(c)] = {}
  /\ \A pc \in Body(c) :
       /\ Reads(At(c, pc)) \subseteq live[pc]
       /\ \A t \in Successors(c, pc) : live[t] \subseteq live[pc] \cup Writes(At(c, pc))

\* What slot_read_before_write ought to find.  Looking along every path, as many
\* times as there are instructions is enough: what is then said to be live
\* before an instruction is all it reads, and all that is live where it may go
\* and that it does not write.  The flaws of the emitter are told by it, so a
\* slot that some path still reads is never thrown away without one.
THEOREM LiveCorrect ==
  ASSUME NEW c, Closed(c)
  PROVE  LiveWell(c, Live(c))
<1> DEFINE N == End(c)
           L == Live(c)
<1>1. N \in Nat /\ N \in 0 .. N
  BY BodyFacts
<1>2. PICK run : IsLiving(run, c, N) /\ L = run[N]
  BY <1>1, LiveIs
<1> HIDE DEF L
<1>3. L[N] = {}
  <2> HIDE DEF N
  <2>1. \A h \in 0 .. N : run[h][End(c)] = {}
    BY <1>1, <1>2, LivingFlow
  <2> QED
    BY <1>1, <1>2, <2>1 DEF N
<1>4. ASSUME NEW s
      PROVE  LiveAt(c, L, s) = Flow(c, s, LiveAt(c, L, s))
  <2> DEFINE P == [h \in 0 .. N |-> LiveAt(c, run[h], s)]
  <2>1. /\ LiveAt(c, run[0], s) = {}
        /\ \A h \in Nat : h < N => LiveAt(c, run[h + 1], s) = Flow(c, s, LiveAt(c, run[h], s))
    <3> HIDE DEF N
    <3> QED
      BY <1>1, <1>2, LivingFlow
  <2>2. \A h \in 0 .. N : P[h] = LiveAt(c, run[h], s)
    OBVIOUS
  <2> HIDE DEF P
  <2>3. P[0] = {}
    BY <1>1, <2>1, <2>2
  <2>4. \A h \in Nat : h < End(c) => P[h + 1] = Flow(c, s, P[h])
    <3>1. ASSUME NEW h \in Nat, h < N PROVE P[h + 1] = Flow(c, s, P[h])
      <4>1. h \in 0 .. N /\ h + 1 \in 0 .. N
        BY <1>1, <3>1
      <4> QED
        BY <2>1, <2>2, <3>1, <4>1
    <3> QED
      BY <3>1
  <2>5. P[End(c)] = Flow(c, s, P[End(c)])
    BY <2>3, <2>4, FlowSettles
  <2>6. P[N] = LiveAt(c, L, s)
    BY <1>1, <1>2, <2>2
  <2> QED
    BY <2>5, <2>6
<1>5. ASSUME NEW pc \in Body(c)
      PROVE  Reads(At(c, pc)) \subseteq L[pc]
  <2>1. ASSUME NEW s \in Reads(At(c, pc)) PROVE s \in L[pc]
    <3>1. pc \in Flow(c, s, LiveAt(c, L, s))
      BY DEF Flow
    <3> QED
      BY <1>4, <3>1 DEF LiveAt
  <2> QED
    BY <2>1
<1>6. ASSUME NEW pc \in Body(c), NEW t \in Successors(c, pc)
      PROVE  L[t] \subseteq L[pc] \cup Writes(At(c, pc))
  <2>1. ASSUME NEW s \in L[t], s \notin Writes(At(c, pc)) PROVE s \in L[pc]
    <3>1. t \in Body(c)
      <4>1. t \in 1 .. End(c) /\ t # End(c)
        BY <1>3, BodyFacts
      <4> QED
        BY <4>1, BodyFacts
    <3>2. t \in LiveAt(c, L, s)
      BY <3>1 DEF LiveAt
    <3>3. pc \in Flow(c, s, LiveAt(c, L, s))
      BY <2>1, <3>2 DEF Flow
    <3> QED
      BY <1>4, <3>3 DEF LiveAt
  <2> QED
    BY <2>1
<1> QED
  BY <1>3, <1>5, <1>6 DEF LiveWell, L

LEMMA LiveInSlots ==
  ASSUME NEW c, Closed(c), Regular(c)
  PROVE  \A pc \in 1 .. End(c) : Live(c)[pc] \subseteq Slots
<1> DEFINE N == End(c)
           L == Live(c)
           T(run) == {h \in Nat : h <= N => \A pc \in 1 .. N : run[h][pc] \subseteq Slots}
<1>1. N \in Nat /\ N \in 0 .. N
  BY BodyFacts
<1>2. PICK run : IsLiving(run, c, N) /\ L = run[N]
  BY <1>1, LiveIs
<1>3. run[0] = [pc \in 1 .. N |-> {}] /\ \A h \in 1 .. N : run[h] = LiveSooner(c, run[h - 1])
  <2> HIDE DEF N, L
  <2>1. 0 \in 0 .. N /\ \A h \in 1 .. N : h \in 0 .. N /\ h # 0
    BY <1>1
  <2>2. \A h \in 0 .. N : run[h] = IF h = 0 THEN [pc \in 1 .. End(c) |-> {}] ELSE LiveSooner(c, run[h - 1])
    BY <1>2 DEF IsLiving
  <2> QED
    BY <2>1, <2>2 DEF N
<1>4. 0 \in T(run)
  BY <1>3
<1>5. ASSUME NEW h \in Nat, h \in T(run)
      PROVE  h + 1 \in T(run)
  <2> SUFFICES ASSUME h + 1 <= N, NEW pc \in 1 .. N
               PROVE  run[h + 1][pc] \subseteq Slots
    OBVIOUS
  <2>1. run[h + 1] = LiveSooner(c, run[h]) /\ h <= N
    <3>1. h + 1 \in 1 .. N /\ (h + 1) - 1 = h
      BY <1>1
    <3> QED
      BY <1>1, <1>3, <3>1
  <2>2. \A t \in 1 .. N : run[h][t] \subseteq Slots
    BY <1>5, <2>1
  <2>3. CASE pc = N
    BY <2>1, <2>3, SoonerIs
  <2>4. CASE pc # N
    <3>1. pc \in Body(c)
      BY <2>4, BodyFacts
    <3>2. run[h + 1][pc] = Reads(At(c, pc)) \cup (Behind(c, run[h], pc) \ Writes(At(c, pc)))
      BY <2>1, <3>1, SoonerIs
    <3>3. Behind(c, run[h], pc) \subseteq Slots
      <4>1. Successors(c, pc) \subseteq 1 .. N
        BY <3>1, BodyFacts
      <4> QED
        BY <2>2, <4>1 DEF Behind
    <3>4. Reads(At(c, pc)) \subseteq Slots
      BY <3>1 DEF Regular
    <3> QED
      BY <3>2, <3>3, <3>4
  <2> QED
    BY <2>3, <2>4
<1>6. \A h \in Nat : h \in T(run)
  <2> DEFINE TT == T(run)
  <2>1. 0 \in TT
    BY <1>4
  <2>2. \A h \in Nat : h \in TT => h + 1 \in TT
    BY <1>5
  <2> HIDE DEF TT
  <2>3. \A h \in Nat : h \in TT
    BY ONLY <2>1, <2>2, AllNaturals
  <2> QED
    BY <2>3 DEF TT
<1> QED
  BY <1>1, <1>2, <1>6

-------------------------------------------------------------------------------
(* What is known of a function before it is emitted.                        *)
\* The jumps the emitter has seen to t.
JumpsTo(c, t) == {pc \in SeenJumps(c) : At(c, pc)[2] = t}

LEMMA JumpsToFacts ==
  ASSUME NEW c, Closed(c), NEW t
  PROVE  /\ IsFiniteSet(JumpsTo(c, t)) /\ Cardinality(JumpsTo(c, t)) \in Nat
         /\ Cardinality(JumpsTo(c, t)) = 0 => JumpsTo(c, t) = {}
         /\ Cardinality(JumpsTo(c, t)) = 1 => \A p, q \in JumpsTo(c, t) : p = q
<1>1. End(c) - 1 \in Int /\ 1 \in Int
  BY BodyFacts
<1>2. IsFiniteSet(Body(c))
  BY <1>1, FS_Interval DEF Body
<1>3. JumpsTo(c, t) \subseteq Body(c)
  BY DEF JumpsTo, SeenJumps
<1>4. IsFiniteSet(JumpsTo(c, t))
  BY <1>2, <1>3, FS_Subset
<1>5. Cardinality(JumpsTo(c, t)) \in Nat
  BY <1>4, FS_CardinalityType
<1>6. Cardinality(JumpsTo(c, t)) = 0 => JumpsTo(c, t) = {}
  BY <1>4, FS_EmptySet
<1>7. ASSUME Cardinality(JumpsTo(c, t)) = 1, NEW p \in JumpsTo(c, t), NEW q \in JumpsTo(c, t)
      PROVE  p = q
  <2>1. \E x : JumpsTo(c, t) = {x}
    BY <1>4, <1>7, FS_Singleton
  <2> QED
    BY <1>7, <2>1
<1> QED
  BY <1>4, <1>5, <1>6, <1>7

Falls(c, t) == IF t > 1 /\ OpAt(c, t - 1) \notin {"JUMP"} \cup ReturnOps THEN 1 ELSE 0

\* A label that one path alone leads to.
LEMMA OneWay ==
  ASSUME NEW c, Closed(c), NEW t \in Labels(c), ~(Predecessors(c, t) > 1)
  PROVE  /\ \A p, q \in JumpsTo(c, t) : p = q
         /\ t > 1 => OpAt(c, t - 1) \in Stops
<1> DEFINE k == Cardinality(JumpsTo(c, t))
<1>1. Predecessors(c, t) = k + Falls(c, t)
  BY DEF Predecessors, Falls, JumpsTo
<1>2. k \in Nat /\ (k = 0 => JumpsTo(c, t) = {}) /\ (k = 1 => \A p, q \in JumpsTo(c, t) : p = q)
  BY JumpsToFacts
<1>3. JumpsTo(c, t) # {}
  BY DEF Labels, JumpsTo
<1> HIDE DEF k
<1>4. Falls(c, t) \in {0, 1}
  BY DEF Falls
<1>5. k = 1 /\ Falls(c, t) = 0
  BY <1>1, <1>2, <1>3, <1>4
<1>6. t > 1 => OpAt(c, t - 1) \in Stops
  BY <1>5 DEF Falls, Stops
<1> QED
  BY <1>2, <1>5, <1>6

\* Code of instructions that can be native.
Handled(c) == \A pc \in Body(c) : OpAt(c, pc) \in Going \cup JumpOps \cup ReturnOps

\* All that matters of where the jumps go and of what is live.
Wired(cx, c) ==
  /\ Closed(c) /\ Regular(c) /\ Handled(c) /\ cx.code = c
  /\ LiveWell(c, cx.live) /\ \A pc \in 1 .. End(c) : cx.live[pc] \subseteq Slots
  /\ cx.flush \cap cx.snap = {} /\ cx.flush \cup cx.snap = cx.labels /\ cx.labels = Labels(c)
  /\ \A t \in cx.snap : /\ \A p, q \in JumpsTo(c, t) : p = q
                        /\ \A p \in JumpsTo(c, t) : ~(p > t)
                        /\ t > 1 => OpAt(c, t - 1) \in Stops
  /\ cx.jumps <=> SeenJumps(c) # {}

LEMMA ContextIs ==
  ASSUME NEW c, NEW arity
  PROVE  /\ Context(c, arity).code = c /\ Context(c, arity).arity = arity
         /\ Context(c, arity).kind = ReturnType(c) /\ Context(c, arity).live = Live(c)
         /\ Context(c, arity).labels = Labels(c)
         /\ Context(c, arity).flush = {t \in Labels(c) : JumpedBackTo(c, t) \/ Predecessors(c, t) > 1}
         /\ Context(c, arity).snap = Labels(c) \ Context(c, arity).flush
BY DEF Context

LEMMA ContextJumps ==
  ASSUME NEW c, NEW arity
  PROVE  Context(c, arity).jumps <=> SeenJumps(c) # {}
BY DEF Context

LEMMA ContextWired ==
  ASSUME NEW c, Closed(c), Regular(c), Handled(c), NEW arity, NEW cx, cx = Context(c, arity)
  PROVE  Wired(cx, c)
<1>1. /\ cx.code = c /\ cx.live = Live(c) /\ cx.labels = Labels(c)
      /\ cx.flush = {t \in Labels(c) : JumpedBackTo(c, t) \/ Predecessors(c, t) > 1}
      /\ cx.snap = Labels(c) \ cx.flush
  BY ContextIs
<1>2. cx.jumps <=> SeenJumps(c) # {}
  BY ContextJumps
<1>3. LiveWell(c, cx.live) /\ \A pc \in 1 .. End(c) : cx.live[pc] \subseteq Slots
  BY <1>1, LiveCorrect, LiveInSlots
<1>4. cx.flush \cap cx.snap = {} /\ cx.flush \cup cx.snap = cx.labels
  BY <1>1
<1>5. ASSUME NEW t \in cx.snap
      PROVE  /\ \A p, q \in JumpsTo(c, t) : p = q
             /\ \A p \in JumpsTo(c, t) : ~(p > t)
             /\ t > 1 => OpAt(c, t - 1) \in Stops
  <2>1. t \in Labels(c) /\ ~JumpedBackTo(c, t) /\ ~(Predecessors(c, t) > 1)
    BY <1>1, <1>5
  <2>2. \A p \in JumpsTo(c, t) : ~(p > t)
    BY <2>1 DEF JumpedBackTo, JumpsTo
  <2> QED
    BY <2>1, <2>2, OneWay
<1> QED
  BY <1>1, <1>2, <1>3, <1>4, <1>5 DEF Wired

\* The code around a label.
LEMMA WiredFacts ==
  ASSUME NEW cx, NEW c, Wired(cx, c)
  PROVE  /\ Parted(cx) /\ cx.flush \subseteq Body(c) /\ cx.snap \subseteq Body(c)
         /\ \A pc \in SeenJumps(c) : Expected(cx, At(c, pc)[2])
         /\ \A pc \in Body(c) : OpAt(c, pc) \notin Stops => pc + 1 \notin cx.snap
<1>1. cx.flush \subseteq Body(c) /\ cx.snap \subseteq Body(c)
  BY DEF Wired, Labels
<1>2. Closed(c)
  BY DEF Wired
<1>3. Parted(cx)
  BY <1>1, <1>2, BodyFacts DEF Parted, Wired
<1>4. ASSUME NEW pc \in SeenJumps(c)
      PROVE  Expected(cx, At(c, pc)[2])
  <2> DEFINE t == At(c, pc)[2]
  <2>1. pc \in Body(c) /\ OpAt(c, pc) \in JumpOps
    BY DEF SeenJumps
  <2>2. t \in 1 .. End(c)
    BY <1>2, <2>1 DEF Closed, InitiallyPure
  <2>3. t = End(c) \/ t \in Labels(c)
    BY <1>2, <2>2, BodyFacts DEF Labels
  <2> QED
    BY <2>3 DEF Expected, Wired
<1>5. ASSUME NEW pc \in Body(c), OpAt(c, pc) \notin Stops, pc + 1 \in cx.snap
      PROVE  FALSE
  <2>1. pc + 1 > 1 /\ (pc + 1) - 1 = pc
    <3>1. pc \in 1 .. (End(c) - 1) /\ End(c) \in Nat
      BY <1>2, <1>5, BodyFacts
    <3> HIDE DEF Stops
    <3> QED
      BY ONLY <3>1
  <2>2. OpAt(c, (pc + 1) - 1) \in Stops
    BY <1>5, <2>1 DEF Wired
  <2> QED
    BY <1>5, <2>1, <2>2
<1> QED
  BY <1>1, <1>3, <1>4, <1>5

-------------------------------------------------------------------------------
(* The emitter at a label.                                                  *)
\* An emitter on its way.
OnItsWay(cx, e) == IsEmitter(e) /\ HasSnaps(cx, e)

LEMMA EntryFacts ==
  ASSUME NEW cx, cx.arity \in Nat, cx.arity <= FrameSize
  PROVE  /\ OnItsWay(cx, Entry(cx)) /\ Entry(cx).pc = 1 /\ Entry(cx).ops = <<>> /\ Entry(cx).flaws = {}
         /\ Entry(cx).label = [pc \in 1 .. End(cx.code) |-> 0]
         /\ Entry(cx).reg = [x \in Regs |-> IF x < cx.arity THEN x ELSE Empty]
         /\ Entry(cx).dirty = {x \in Regs : x < cx.arity}
<1> DEFINE cached == {x \in Regs : x < cx.arity}
           nowhere == [reg |-> [x \in Regs |-> Empty], dirty |-> {}]
           regs == [x \in Regs |-> IF x \in cached THEN x ELSE Empty]
           label == [pc \in 1 .. End(cx.code) |-> 0]
           snap == [pc \in cx.snap |-> nowhere]
           e == Entry(cx)
<1>1. e = [reg |-> regs, dirty |-> cached, ops |-> <<>>, label |-> label, snap |-> snap, pc |-> 1, flaws |-> {}]
  BY Zenon DEF Entry
<1>2. regs \in [Regs -> Slots \cup {Empty}] /\ regs = [x \in Regs |-> IF x < cx.arity THEN x ELSE Empty]
  <2>1. \A x \in Regs : x < cx.arity => x \in Slots
    BY FrameAssumption, CacheAssumption DEF Regs, Slots
  <2> QED
    BY <2>1
<1>3. cached \subseteq Regs
  OBVIOUS
<1>4. nowhere \in Caches
  BY DEF Caches
<1> HIDE DEF nowhere
<1>5. snap \in [cx.snap -> Caches]
  BY <1>4
<1>6. \E T : <<>> \in Seq(T)
  <2>1. <<>> \in Seq(Nat)
    OBVIOUS
  <2> QED
    BY <2>1
<1> DEFINE none == <<>>
<1>7. IsSeq(none)
  BY <1>6 DEF IsSeq
<1> HIDE DEF e, regs, cached, label, snap, none
<1>8. e = [reg |-> regs, dirty |-> cached, ops |-> none, label |-> label, snap |-> snap, pc |-> 1, flaws |-> {}]
  BY <1>1 DEF none
<1>9. /\ e.reg = regs /\ e.dirty = cached /\ e.ops = none /\ e.label = label /\ e.snap = snap
      /\ e.pc = 1 /\ e.flaws = {}
  BY <1>8
<1>10. IsEmitter(e)
  BY <1>2, <1>3, <1>7, <1>8, <1>9 DEF IsEmitter
<1>11. HasSnaps(cx, e)
  BY <1>5, <1>9 DEF HasSnaps
<1> QED
  BY <1>2, <1>9, <1>10, <1>11 DEF OnItsWay, e, label, none, cached

\* An emitter once it has noted where its pc begins.
Noted(e) ==
  [reg |-> e.reg, dirty |-> e.dirty, ops |-> e.ops, label |-> [e.label EXCEPT ![e.pc] = Len(e.ops) + 1],
   snap |-> e.snap, pc |-> e.pc, flaws |-> e.flaws]

LEMMA NotedFacts ==
  ASSUME NEW e, IsEmitter(e)
  PROVE  /\ [e EXCEPT !.label[e.pc] = Len(e.ops) + 1] = Noted(e) /\ IsEmitter(Noted(e))
         /\ Noted(e).reg = e.reg /\ Noted(e).dirty = e.dirty /\ Noted(e).ops = e.ops
         /\ Noted(e).label = [e.label EXCEPT ![e.pc] = Len(e.ops) + 1]
         /\ Noted(e).snap = e.snap /\ Noted(e).pc = e.pc /\ Noted(e).flaws = e.flaws
<1> DEFINE k == Len(e.ops) + 1
           label == [e.label EXCEPT ![e.pc] = k]
<1> HIDE DEF k
<1>1. [e EXCEPT !.label[e.pc] = k] =
        [reg |-> e.reg, dirty |-> e.dirty, ops |-> e.ops, label |-> label,
         snap |-> e.snap, pc |-> e.pc, flaws |-> e.flaws]
  <2>1. e = [reg |-> e.reg, dirty |-> e.dirty, ops |-> e.ops, label |-> e.label, snap |-> e.snap,
             pc |-> e.pc, flaws |-> e.flaws]
    BY DEF IsEmitter
  <2>2. [e EXCEPT !.label[e.pc] = k] = [e EXCEPT !.label = label]
    BY <2>1
  <2> HIDE DEF label
  <2> QED
    BY <2>1, <2>2
<1>2. [e EXCEPT !.label[e.pc] = k] = Noted(e)
  BY <1>1 DEF Noted, k
<1>3. /\ Noted(e).reg = e.reg /\ Noted(e).dirty = e.dirty /\ Noted(e).ops = e.ops
      /\ Noted(e).label = [e.label EXCEPT ![e.pc] = Len(e.ops) + 1]
      /\ Noted(e).snap = e.snap /\ Noted(e).pc = e.pc /\ Noted(e).flaws = e.flaws
      /\ Noted(e) = [reg |-> Noted(e).reg, dirty |-> Noted(e).dirty, ops |-> Noted(e).ops,
                     label |-> Noted(e).label, snap |-> Noted(e).snap, pc |-> Noted(e).pc,
                     flaws |-> Noted(e).flaws]
  BY DEF Noted
<1>4. IsEmitter(Noted(e))
  BY <1>3 DEF IsEmitter
<1> QED
  BY <1>2, <1>3, <1>4 DEF k

\* Where each pc begins, this one too.
Marked(e) == [e.label EXCEPT ![e.pc] = Len(e.ops) + 1]

\* Jumped to: a label with many predecessors that is entered with a full cache.
Crammed(cx, e) == e.pc \in cx.flush /\ \E x \in Regs : e.reg[x] # Empty

LEMMA AtLabelFacts ==
  ASSUME NEW cx, NEW e, OnItsWay(cx, e), NEW a, a = AtLabel(cx, e)
  PROVE  /\ OnItsWay(cx, a) /\ a.ops = e.ops /\ a.snap = e.snap /\ a.pc = e.pc
         /\ a.label = Marked(e) /\ e.flaws \subseteq a.flaws
         /\ a.flaws = {} /\ e.pc \in cx.flush => e.reg = Nothing
         /\ e.pc \notin cx.snap => CacheOf(a) = CacheOf(e)
         /\ e.pc \in cx.snap => CacheOf(a) = e.snap[e.pc]
<1> DEFINE w == Noted(e)
           if == Crammed(cx, e)
           b == Flawed(w, "cachedLabel", if)
<1>1. IsEmitter(e) /\ e.snap \in [cx.snap -> Caches]
  BY DEF OnItsWay, HasSnaps
<1>2. /\ [e EXCEPT !.label[e.pc] = Len(e.ops) + 1] = w /\ IsEmitter(w)
      /\ w.reg = e.reg /\ w.dirty = e.dirty /\ w.ops = e.ops
      /\ w.label = [e.label EXCEPT ![e.pc] = Len(e.ops) + 1]
      /\ w.snap = e.snap /\ w.pc = e.pc /\ w.flaws = e.flaws
  BY <1>1, NotedFacts
<1>3. a = IF e.pc \notin cx.snap THEN b
          ELSE [b EXCEPT !.reg = e.snap[e.pc].reg, !.dirty = e.snap[e.pc].dirty]
  BY <1>2, Zenon DEF AtLabel, Crammed
<1>4. if \in BOOLEAN
  BY DEF Crammed
<1> HIDE DEF w, if
<1> DEFINE name == "cachedLabel"
           d == Flawed(w, name, if)
<1>5. b = d
  OBVIOUS
<1> HIDE DEF name
<1>a. IsEmitter(w)
  BY <1>2
<1>b. d = Flawed(w, name, if)
  OBVIOUS
<1> HIDE DEF d
<1>6. /\ Adds(w, d) /\ (if => d.flaws # {})
      /\ d.reg = w.reg /\ d.dirty = w.dirty /\ d.ops = w.ops
  BY ONLY <1>a, <1>b, <1>4, FlawedIs
<1> HIDE DEF b, d
<1>7. /\ IsEmitter(d) /\ d.reg = e.reg /\ d.dirty = e.dirty /\ d.ops = e.ops /\ d.snap = e.snap
      /\ d.pc = e.pc /\ d.label = Marked(e) /\ e.flaws \subseteq d.flaws
  BY <1>2, <1>6 DEF Adds, Later, Marked
<1>8. ASSUME d.flaws = {}, e.pc \in cx.flush
      PROVE  e.reg = Nothing
  <2>1. ~Crammed(cx, e)
    BY <1>6, <1>8 DEF if
  <2>2. \A x \in Regs : e.reg[x] = Empty
    BY <1>8, <2>1 DEF Crammed
  <2>3. e.reg = [x \in Regs |-> e.reg[x]]
    BY <1>1 DEF IsEmitter
  <2> QED
    BY <2>2, <2>3 DEF Nothing
<1>9. CASE e.pc \notin cx.snap
  <2>1. a = d
    BY <1>3, <1>5, <1>9
  <2> QED
    BY <1>1, <1>7, <1>8, <1>9, <2>1 DEF OnItsWay, HasSnaps, CacheOf
<1>10. CASE e.pc \in cx.snap
  <2> DEFINE s == e.snap[e.pc]
  <2>1. s \in Caches
    BY <1>1, <1>10
  <2> HIDE DEF s
  <2>2. a = [d EXCEPT !.reg = s.reg, !.dirty = s.dirty]
    BY <1>3, <1>5, <1>10 DEF s
  <2>3. a = Made(d, s.reg, s.dirty, d.ops, d.flaws)
    BY <1>7, <2>2 DEF IsEmitter, Made
  <2>4. s.reg \in [Regs -> Slots \cup {Empty}] /\ s.dirty \subseteq Regs /\ s = [reg |-> s.reg, dirty |-> s.dirty]
    BY <2>1 DEF Caches
  <2>5. /\ IsEmitter(a) /\ a.reg = s.reg /\ a.dirty = s.dirty /\ a.ops = d.ops /\ a.flaws = d.flaws
        /\ a.label = d.label /\ a.snap = d.snap /\ a.pc = d.pc
    <3>1. IsSeq(d.ops)
      BY <1>7 DEF IsEmitter
    <3> QED
      BY <1>7, <2>3, <2>4, <3>1, MadeFacts
  <2> QED
    BY <1>1, <1>7, <1>8, <1>10, <2>4, <2>5 DEF OnItsWay, HasSnaps, CacheOf, s
<1> QED
  BY <1>9, <1>10

-------------------------------------------------------------------------------
(* The turns of the loop.                                                   *)
LEMMA IsHandled ==
  ASSUME NEW c \in Seq(Instruction), Closed(c)
  PROVE  Handled(c)
<1> SUFFICES ASSUME NEW pc \in Body(c) PROVE OpAt(c, pc) \in Going \cup JumpOps \cup ReturnOps
  BY DEF Handled
<1>1. pc + 1 \in 1 .. Len(c)
  BY BodyFacts DEF End
<1>2. c[pc + 1] \in Instruction
  BY <1>1
<1>3. c[pc + 1][1] \in Opcodes
  BY <1>2, TupleFacts
<1>4. OpAt(c, pc) \notin {"FOR_INIT", "FOR_NEXT", "FOR_NEXT_LOOP", "POP_ITER"}
  BY DEF Closed, InitiallyPure
<1>5. OpAt(c, pc) = c[pc + 1][1]
  BY DEF OpAt, At
<1> QED
  BY <1>3, <1>4, <1>5 DEF Opcodes, Going, PureOps, ForOps

LEMMA SettleIs ==
  ASSUME NEW cx, NEW e, NEW i
  PROVE  /\ i[1] \in JumpOps \cup ReturnOps => Settle(cx, e, i) = e
         /\ Settle(cx, e, i) = e \/ Settle(cx, e, i) = Flush(e)
BY DEF Settle

\* The instructions behind which the next one comes, and what is emitted
\* between the two.
LEMMA SettledDoes ==
  ASSUME NEW n, NEW cx, NEW e, NEW i, NEW f, Around(n, cx, e, i, f), i[1] \in Going,
         NEW e2, e2 = EmitOne(cx, e, i)
  PROVE  DoesIt(n, cx, e, e2, i, f)
<1> DEFINE T == cx.live[e.pc + 1]
           f2 == Effect(i, f)
           e1 == Dispatch(cx, e, i)
<1>1. Emits(n, e, e1, f, cx.live[e.pc], f2, T)
  BY DispatchCorrect DEF DoesIt
<1>2. e2 = e1 \/ e2 = Flush(e1)
  BY SettleIs DEF EmitOne
<1>3. IsSeq(n.ops) /\ IsEmitter(e) /\ T \in SUBSET Slots
  BY DEF Around, Lives
<1> HIDE DEF e1, f2, T
<1>4. CASE e2 = e1
  BY <1>1, <1>4 DEF DoesIt, T, f2
<1>5. CASE e2 = Flush(e1)
  <2>1. IsEmitter(e1)
    BY <1>1 DEF Emits, Adds, Later
  <2>2. Flushes(n, e1, Flush(e1), f2, T)
    BY <1>3, <2>1, FlushFlushes
  <2>3. Emits(n, e1, e2, f2, T, f2, T)
    BY <1>5, <2>2 DEF Flushes, Emits
  <2>4. Emits(n, e, e2, f, cx.live[e.pc], f2, T)
    BY <1>1, <1>3, <2>3, EmitsOn
  <2> QED
    BY <2>4 DEF DoesIt, T, f2
<1> QED
  BY <1>2, <1>4, <1>5

\* What a turn emits, and how far it gets.
Turned(cx, a, i) ==
  IF Eliminates(cx, a.pc) THEN Eliminated(cx, a, i[2])
  ELSE IF Fuses(cx, a.pc) THEN EmitFused(cx, a, i) ELSE EmitOne(cx, a, i)
NextAt(cx, pc) == IF Fuses(cx, pc) THEN pc + 2 ELSE pc + 1

LEMMA FusesFacts ==
  ASSUME NEW cx, NEW c, Wired(cx, c), NEW pc \in Body(c), Fuses(cx, pc)
  PROVE  /\ ~Eliminates(cx, pc) /\ OpAt(c, pc) \in CmpOps /\ pc + 1 \in Body(c) /\ pc + 1 \notin cx.labels
         /\ pc + 1 \in SeenJumps(c) /\ OpAt(c, pc + 1) = "JUMP_IF_FALSE"
         /\ At(c, pc + 1)[3] = At(c, pc)[2]
<1>1. Closed(c) /\ cx.code = c /\ (cx.jumps <=> SeenJumps(c) # {})
  BY DEF Wired
<1>2. /\ OpAt(c, pc) \in CmpOps /\ pc + 1 < End(c) /\ pc + 1 \notin cx.labels
      /\ At(c, pc + 1)[1] = "JUMP_IF_FALSE" /\ At(c, pc + 1)[3] = At(c, pc)[2]
  BY <1>1, Zenon DEF Fuses
<1>3. pc \in 1 .. (End(c) - 1) /\ End(c) \in Nat /\ Body(c) = 1 .. (End(c) - 1)
  BY <1>1, BodyFacts
<1>4. pc + 1 \in Body(c)
  BY <1>2, <1>3
<1>5. OpAt(c, pc + 1) = "JUMP_IF_FALSE"
  BY <1>2 DEF OpAt
<1>6. pc + 1 \in SeenJumps(c)
  BY <1>4, <1>5 DEF SeenJumps, JumpOps, NoneJumps
<1>7. ~Eliminates(cx, pc)
  BY <1>1, <1>6, Zenon DEF Eliminates
<1> QED
  BY <1>2, <1>4, <1>5, <1>6, <1>7

LEMMA TurnIs ==
  ASSUME NEW cx, NEW c, Wired(cx, c), NEW e, e.pc \in Body(c), NEW a, a = AtLabel(cx, e), a.pc = e.pc
  PROVE  Turn(cx, e) = [Turned(cx, a, At(c, e.pc)) EXCEPT !.pc = NextAt(cx, e.pc)]
<1> DEFINE i == At(c, e.pc)
<1>1. Closed(c) /\ cx.code = c
  BY DEF Wired
<1>2. e.pc # End(c)
  BY <1>1, BodyFacts
<1>3. Turn(cx, e) = TurnOn(cx, a, i)
  BY <1>1, <1>2, Zenon DEF Turn
<1> HIDE DEF i
<1>4. CASE Fuses(cx, a.pc)
  <2>1. ~Eliminates(cx, a.pc)
    BY <1>4, FusesFacts
  <2>2. TurnOn(cx, a, i) = [EmitFused(cx, a, i) EXCEPT !.pc = a.pc + 2]
    BY <1>4, <2>1 DEF TurnOn
  <2>3. Turned(cx, a, i) = EmitFused(cx, a, i) /\ NextAt(cx, a.pc) = a.pc + 2
    BY <1>4, <2>1, Zenon DEF Turned, NextAt
  <2> QED
    BY <1>3, <2>2, <2>3 DEF i
<1>5. CASE ~Fuses(cx, a.pc) /\ Eliminates(cx, a.pc)
  <2>2. TurnOn(cx, a, i) = [Eliminated(cx, a, i[2]) EXCEPT !.pc = a.pc + 1]
    BY <1>5 DEF TurnOn
  <2>3. Turned(cx, a, i) = Eliminated(cx, a, i[2]) /\ NextAt(cx, a.pc) = a.pc + 1
    BY <1>5, Zenon DEF Turned, NextAt
  <2> QED
    BY <1>3, <2>2, <2>3 DEF i
<1>6. CASE ~Fuses(cx, a.pc) /\ ~Eliminates(cx, a.pc)
  <2>2. TurnOn(cx, a, i) = [EmitOne(cx, a, i) EXCEPT !.pc = a.pc + 1]
    BY <1>6 DEF TurnOn
  <2>3. Turned(cx, a, i) = EmitOne(cx, a, i) /\ NextAt(cx, a.pc) = a.pc + 1
    BY <1>6, Zenon DEF Turned, NextAt
  <2> QED
    BY <1>3, <2>2, <2>3 DEF i
<1> QED
  BY <1>4, <1>5, <1>6

-------------------------------------------------------------------------------
\* Where an emitter is.
LEMMA AroundHere ==
  ASSUME NEW cx, NEW c, Wired(cx, c), NEW a, IsEmitter(a), a.pc \in Body(c), NEW i, i = At(c, a.pc),
         NEW n, IsSeq(n.ops), NEW f, Is(f, Slots)
  PROVE  Around(n, cx, a, i, f)
<1>1. Closed(c) /\ Regular(c) /\ LiveWell(c, cx.live) /\ \A pc \in 1 .. End(c) : cx.live[pc] \subseteq Slots
  BY DEF Wired
<1>2. a.pc \in 1 .. End(c) /\ a.pc + 1 \in 1 .. End(c)
  BY <1>1, BodyFacts
<1>3. cx.live[a.pc] \subseteq Slots /\ cx.live[a.pc + 1] \subseteq Slots
  BY <1>1, <1>2
<1>4. Reads(i) \subseteq cx.live[a.pc] /\ \A t \in Successors(c, a.pc) : cx.live[t] \subseteq cx.live[a.pc] \cup Writes(i)
  BY <1>1 DEF LiveWell
<1>5. Writes(i) \subseteq Slots
  BY <1>1 DEF Regular
<1>6. ASSUME i[1] \notin Stops
      PROVE  cx.live[a.pc + 1] \subseteq cx.live[a.pc] \cup Writes(i)
  <2>1. OpAt(c, a.pc) = i[1]
    BY DEF OpAt
  <2>2. a.pc + 1 \in Successors(c, a.pc)
    BY <1>6, <2>1 DEF Successors, Stops
  <2> QED
    BY <1>4, <2>2
<1> QED
  BY <1>3, <1>4, <1>5, <1>6 DEF Around, Lives

LEMMA TurnedGoes ==
  ASSUME NEW cx, NEW c, Wired(cx, c), NEW a, IsEmitter(a), a.pc \in Body(c), NEW i, i = At(c, a.pc),
         NEW n, IsSeq(n.ops), NEW f, Is(f, Slots), i[1] \in Going, ~Fuses(cx, a.pc),
         NEW b, b = Turned(cx, a, i)
  PROVE  DoesIt(n, cx, a, b, i, f)
<1>1. Around(n, cx, a, i, f)
  BY AroundHere
<1>2. CASE Eliminates(cx, a.pc)
  <2>1. b = Eliminated(cx, a, i[2])
    BY <1>2, Zenon DEF Turned
  <2>2. cx.code = c
    BY DEF Wired
  <2>3. OpAt(c, a.pc) \in {"MOVE"} \cup LoadOps \cup ArithOps \cup ImmOps \cup UnaryOps \cup CmpOps
    BY <1>2, <2>2, Zenon DEF Eliminates
  <2>4. i[1] \in PureOps
    BY <2>3 DEF OpAt, PureOps, UnaryOps
  <2>5. DoesIt(n, cx, a, Eliminated(cx, a, i[2]), i, f)
    BY <1>1, <2>4, EliminatedDoes
  <2> QED
    BY <2>1, <2>5
<1>3. CASE ~Eliminates(cx, a.pc)
  <2>1. b = EmitOne(cx, a, i)
    BY <1>3, Zenon DEF Turned
  <2> QED
    BY <1>1, <2>1, SettledDoes
<1> QED
  BY <1>2, <1>3

\* Jumps and returns stand alone.
LEMMA TurnedAlone ==
  ASSUME NEW cx, NEW c, Wired(cx, c), NEW a, a.pc \in Body(c), NEW i, i = At(c, a.pc),
         i[1] \in JumpOps \cup ReturnOps
  PROVE  /\ ~Fuses(cx, a.pc) /\ ~Eliminates(cx, a.pc)
         /\ i[1] \in JumpOps => Turned(cx, a, i) = EmitJump(cx, a, i)
         /\ i[1] \in ReturnOps => Turned(cx, a, i) = EmitReturn(cx, a, i)
<1>1. cx.code = c /\ OpAt(c, a.pc) = i[1]
  BY DEF Wired, OpAt
<1>2. ~Fuses(cx, a.pc)
  <2>1. i[1] \notin CmpOps
    BY DEF JumpOps, ReturnOps, CmpOps, ImmJumps, RegJumps, NoneJumps
  <2> QED
    BY <1>1, <2>1, Zenon DEF Fuses
<1>3. ~Eliminates(cx, a.pc)
  <2>1. i[1] \notin {"MOVE"} \cup LoadOps \cup ArithOps \cup ImmOps \cup UnaryOps \cup CmpOps
    BY DEF JumpOps, ReturnOps, CmpOps, ImmJumps, RegJumps, NoneJumps, LoadOps, ArithOps, ImmOps, UnaryOps
  <2> QED
    BY <1>1, <2>1, Zenon DEF Eliminates
<1>4. Turned(cx, a, i) = EmitOne(cx, a, i)
  BY <1>2, <1>3, Zenon DEF Turned
<1>5. Turned(cx, a, i) = Dispatch(cx, a, i)
  BY <1>4, SettleIs DEF EmitOne
<1> QED
  BY <1>2, <1>3, <1>5, DispatchIs

LEMMA TurnedJumps ==
  ASSUME NEW cx, NEW c, Wired(cx, c), NEW a, OnItsWay(cx, a), a.pc \in Body(c), NEW i, i = At(c, a.pc),
         NEW n, IsSeq(n.ops), NEW f, Is(f, Slots), i[1] \in JumpOps, NEW goes \in BOOLEAN, goes = Taken(i, f),
         NEW b, b = Turned(cx, a, i)
  PROVE  JumpsRight(n, cx, a, b, i, f, goes)
<1>1. IsEmitter(a) /\ HasSnaps(cx, a)
  BY DEF OnItsWay
<1>2. Around(n, cx, a, i, f)
  BY <1>1, AroundHere
<1>3. Parted(cx) /\ \A pc \in SeenJumps(c) : Expected(cx, At(c, pc)[2])
  BY WiredFacts
<1>4. i[1] \in NoneJumps \/ Expected(cx, i[2])
  <2> SUFFICES ASSUME i[1] \notin NoneJumps PROVE Expected(cx, i[2])
    OBVIOUS
  <2>1. a.pc \in SeenJumps(c)
    BY DEF SeenJumps, OpAt
  <2> QED
    BY <1>3, <2>1
<1>5. b = EmitJump(cx, a, i)
  BY TurnedAlone
<1> QED
  BY <1>1, <1>2, <1>3, <1>4, <1>5, JumpCorrect

LEMMA TurnedReturns ==
  ASSUME NEW cx, NEW c, Wired(cx, c), NEW a, IsEmitter(a), a.pc \in Body(c), NEW i, i = At(c, a.pc),
         NEW n, IsSeq(n.ops), n.kind = cx.kind, NEW f, Is(f, Slots), i[1] \in ReturnOps,
         NEW b, b = Turned(cx, a, i)
  PROVE  Adds(a, b) /\ GivesBack(n, a, b, f, cx.live[a.pc], Returned(i, f.regs))
<1>1. Around(n, cx, a, i, f)
  BY AroundHere
<1>2. b = EmitReturn(cx, a, i)
  BY TurnedAlone
<1> QED
  BY <1>1, <1>2, ReturnCorrect

LEMMA TurnedFused ==
  ASSUME NEW cx, NEW c, Wired(cx, c), NEW a, OnItsWay(cx, a), a.pc \in Body(c), NEW i, i = At(c, a.pc),
         NEW n, IsSeq(n.ops), NEW f, Is(f, Slots), Fuses(cx, a.pc), NEW t, t = At(c, a.pc + 1)[2],
         NEW goes \in BOOLEAN, goes = NotTruthy(ValueOf(i, f.regs)), NEW b, b = Turned(cx, a, i)
  PROVE  FusedRight(n, cx, a, b, i, t, f, goes)
<1>1. IsEmitter(a) /\ HasSnaps(cx, a)
  BY DEF OnItsWay
<1>2. Around(n, cx, a, i, f)
  BY <1>1, AroundHere
<1>3. Parted(cx) /\ \A pc \in SeenJumps(c) : Expected(cx, At(c, pc)[2])
  BY WiredFacts
<1>4. ~Eliminates(cx, a.pc) /\ OpAt(c, a.pc) \in CmpOps /\ a.pc + 1 \in SeenJumps(c)
  BY FusesFacts
<1>5. Expected(cx, t) /\ i[1] \in CmpOps
  BY <1>3, <1>4 DEF OpAt
<1>6. b = FusedTo(cx, a, i, t)
  <2>1. b = EmitFused(cx, a, i)
    BY <1>4, Zenon DEF Turned
  <2>2. cx.code = c
    BY DEF Wired
  <2> QED
    BY <2>1, <2>2, Zenon DEF EmitFused
<1> QED
  BY <1>1, <1>2, <1>3, <1>5, <1>6, FusedCorrect

-------------------------------------------------------------------------------
(* What every turn leaves alone.                                            *)
\* The label a turn makes a jump to, and where the jump is in the code.
JumpAt(cx, pc) == IF Fuses(cx, pc) THEN pc + 1 ELSE pc
Targets(cx, c, pc) ==
  IF OpAt(c, JumpAt(cx, pc)) \in JumpOps THEN {At(c, JumpAt(cx, pc))[2]} ELSE {}

\* No label's cache but those of us has changed.
OthersKept(cx, a, b, us) == \A u \in cx.snap : u \notin us => b.snap[u] = a.snap[u]

\* b is what the turn at a has emitted.
Shaped(cx, c, a, b) ==
  /\ Later(a, b) /\ HasSnaps(cx, b) /\ OthersKept(cx, a, b, Targets(cx, c, a.pc))
  /\ b.flaws = {} => \A u \in Targets(cx, c, a.pc) \cap cx.snap : JumpAt(cx, a.pc) \in JumpsTo(c, u)

LEMMA AnyFrame == \E f : Is(f, Slots)
<1> DEFINE f == [regs |-> [s \in Slots |-> None], args |-> 0, iters |-> 0, out |-> 0, value |-> 0]
<1>1. f.regs \in [Slots -> Value]
  BY DEF Value
<1>2. Is(f, Slots)
  BY <1>1 DEF Is
<1> QED
  BY <1>2

LEMMA AnyNative == ASSUME NEW kind PROVE \E n : IsSeq(n.ops) /\ n.kind = kind
<1>1. PICK s : s \in Seq(Nat)
  <2>1. <<>> \in Seq(Nat)
    OBVIOUS
  <2> QED
    BY <2>1
<1>2. IsSeq(s)
  BY <1>1 DEF IsSeq
<1> DEFINE n == [ops |-> s, kind |-> kind]
<1>3. n.ops = s /\ n.kind = kind
  OBVIOUS
<1> QED
  BY <1>2, <1>3

LEMMA TurnedShape ==
  ASSUME NEW cx, NEW c, Wired(cx, c), NEW a, OnItsWay(cx, a), a.pc \in Body(c), NEW i, i = At(c, a.pc),
         NEW b, b = Turned(cx, a, i)
  PROVE  Shaped(cx, c, a, b)
<1> DEFINE us == Targets(cx, c, a.pc)
<1>1. PICK f : Is(f, Slots)
  BY AnyFrame
<1>2. PICK n : IsSeq(n.ops) /\ n.kind = cx.kind
  BY AnyNative
<1>3. IsEmitter(a) /\ HasSnaps(cx, a)
  BY DEF OnItsWay
<1>4. ASSUME Adds(a, b)
      PROVE  Later(a, b) /\ HasSnaps(cx, b) /\ OthersKept(cx, a, b, us)
  BY <1>3, <1>4 DEF Adds, HasSnaps, OthersKept
<1>5. ASSUME NEW t, JumpForm(cx, a, b, t), us = {t}
      PROVE  Later(a, b) /\ HasSnaps(cx, b) /\ OthersKept(cx, a, b, us)
  BY <1>5 DEF JumpForm, SnapsBut, OthersKept
<1>6. i[1] \in Going \cup JumpOps \cup ReturnOps /\ OpAt(c, a.pc) = i[1]
  BY DEF Wired, Handled, OpAt
<1>7. CASE Fuses(cx, a.pc)
  <2> DEFINE t == At(c, a.pc + 1)[2]
  <2>1. PICK goes \in BOOLEAN : goes = NotTruthy(ValueOf(i, f.regs))
    BY DEF NotTruthy
  <2>2. t = At(c, a.pc + 1)[2]
    OBVIOUS
  <2> HIDE DEF t
  <2>3. FusedRight(n, cx, a, b, i, t, f, goes)
    BY <1>1, <1>2, <1>7, <2>1, <2>2, TurnedFused
  <2>4. a.pc + 1 \in SeenJumps(c) /\ JumpAt(cx, a.pc) = a.pc + 1
    BY <1>7, FusesFacts DEF JumpAt
  <2>5. us = {t} /\ (a.pc + 1) \in JumpsTo(c, t)
    BY <2>2, <2>4 DEF Targets, JumpsTo, SeenJumps
  <2>6. JumpForm(cx, a, b, t)
    BY <2>3 DEF FusedRight
  <2>7. Later(a, b) /\ HasSnaps(cx, b) /\ OthersKept(cx, a, b, us)
    BY <1>5, <2>5, <2>6
  <2> HIDE DEF us
  <2> QED
    BY <2>4, <2>5, <2>7 DEF Shaped, us
<1>8. CASE i[1] \in Going /\ ~Fuses(cx, a.pc)
  <2>1. DoesIt(n, cx, a, b, i, f)
    BY <1>1, <1>2, <1>3, <1>8, TurnedGoes
  <2>2. Adds(a, b)
    BY <2>1 DEF DoesIt, Emits
  <2>3. i[1] \notin JumpOps
    BY <1>8 DEF Going, PureOps, CallOps, LoadOps, ArithOps, ImmOps, CmpOps, JumpOps, ImmJumps, RegJumps, NoneJumps
  <2>4. us = {}
    BY <1>6, <1>8, <2>3 DEF Targets, JumpAt
  <2> QED
    BY <1>4, <2>2, <2>4 DEF Shaped
<1>9. CASE i[1] \in JumpOps /\ ~Fuses(cx, a.pc)
  <2>1. PICK goes \in BOOLEAN : goes = Taken(i, f)
    BY TakenIsBoolean
  <2>2. JumpsRight(n, cx, a, b, i, f, goes)
    BY <1>1, <1>2, <1>9, <2>1, TurnedJumps
  <2>3. JumpAt(cx, a.pc) = a.pc /\ us = {i[2]}
    BY <1>6, <1>9 DEF JumpAt, Targets
  <2>4. Later(a, b) /\ HasSnaps(cx, b) /\ OthersKept(cx, a, b, us)
    BY <1>5, <2>2, <2>3 DEF JumpsRight
  <2>5. ASSUME b.flaws = {}, i[2] \in cx.snap
        PROVE  a.pc \in JumpsTo(c, i[2])
    <3>1. i[2] \notin cx.flush \cup {End(cx.code)}
      BY <2>5, WiredFacts DEF Parted
    <3>2. i[1] \notin NoneJumps
      BY <2>2, <2>5, <3>1 DEF JumpsRight
    <3> QED
      BY <1>6, <1>9, <3>2 DEF JumpsTo, SeenJumps
  <2> QED
    BY <2>3, <2>4, <2>5 DEF Shaped
<1>10. CASE i[1] \in ReturnOps /\ ~Fuses(cx, a.pc)
  <2>2. Adds(a, b)
    BY <1>1, <1>2, <1>3, <1>10, TurnedReturns
  <2>3. i[1] \notin JumpOps
    BY <1>10 DEF ReturnOps, JumpOps, ImmJumps, RegJumps, NoneJumps
  <2>4. us = {}
    BY <1>6, <1>10, <2>3 DEF Targets, JumpAt
  <2> QED
    BY <1>4, <2>2, <2>4 DEF Shaped
<1> QED
  BY <1>6, <1>7, <1>8, <1>9, <1>10

-------------------------------------------------------------------------------
LEMMA MovedFacts ==
  ASSUME NEW b, IsEmitter(b), NEW pc, NEW e2, e2 = [b EXCEPT !.pc = pc]
  PROVE  /\ IsEmitter(e2) /\ e2.pc = pc /\ e2.reg = b.reg /\ e2.dirty = b.dirty /\ e2.ops = b.ops
         /\ e2.label = b.label /\ e2.snap = b.snap /\ e2.flaws = b.flaws
<1>1. e2 = [reg |-> b.reg, dirty |-> b.dirty, ops |-> b.ops, label |-> b.label, snap |-> b.snap,
            pc |-> pc, flaws |-> b.flaws]
  BY DEF IsEmitter
<1> QED
  BY <1>1 DEF IsEmitter

\* But for the pc, e2 is b.
Moved(b, e2) == /\ e2.reg = b.reg /\ e2.dirty = b.dirty /\ e2.ops = b.ops
                /\ e2.flaws = b.flaws /\ e2.snap = b.snap

\* The turn from e to e2, by way of a and b.
Turns(cx, c, e, a, b, e2) ==
  /\ a = AtLabel(cx, e) /\ b = Turned(cx, a, At(c, e.pc)) /\ a.pc = e.pc
  /\ OnItsWay(cx, a) /\ OnItsWay(cx, e2) /\ Moved(b, e2)
  /\ e.flaws \subseteq a.flaws /\ a.flaws \subseteq e2.flaws
  /\ e2.pc = NextAt(cx, e.pc) /\ e2.pc \in (e.pc + 1) .. End(c)
  /\ e2.label = Marked(e)
  /\ Begins(e.ops, e2.ops) /\ OthersKept(cx, e, e2, Targets(cx, c, e.pc))
  /\ e2.flaws = {} => \A u \in Targets(cx, c, e.pc) \cap cx.snap : JumpAt(cx, e.pc) \in JumpsTo(c, u)

LEMMA NextIs ==
  ASSUME NEW cx, NEW c, Wired(cx, c), NEW pc \in Body(c)
  PROVE  NextAt(cx, pc) \in (pc + 1) .. End(c) /\ JumpAt(cx, pc) \in pc .. (NextAt(cx, pc) - 1)
<1>1. pc \in 1 .. (End(c) - 1) /\ End(c) \in Nat /\ Body(c) = 1 .. (End(c) - 1)
  BY BodyFacts DEF Wired
<1>2. Fuses(cx, pc) => pc + 1 \in 1 .. (End(c) - 1)
  BY <1>1, FusesFacts
<1>3. CASE Fuses(cx, pc)
  <2>1. NextAt(cx, pc) = pc + 2 /\ JumpAt(cx, pc) = pc + 1
    BY <1>3, Zenon DEF NextAt, JumpAt
  <2> QED
    BY <1>1, <1>2, <1>3, <2>1
<1>4. CASE ~Fuses(cx, pc)
  <2>1. NextAt(cx, pc) = pc + 1 /\ JumpAt(cx, pc) = pc
    BY <1>4, Zenon DEF NextAt, JumpAt
  <2> QED
    BY <1>1, <2>1
<1> QED
  BY <1>3, <1>4

LEMMA TurnFacts ==
  ASSUME NEW cx, NEW c, Wired(cx, c), NEW e, OnItsWay(cx, e), e.pc \in Body(c),
         NEW e2, e2 = Turn(cx, e)
  PROVE  \E a, b : Turns(cx, c, e, a, b, e2)
<1> DEFINE a == AtLabel(cx, e)
           i == At(c, e.pc)
           b == Turned(cx, a, i)
<1>1. a = AtLabel(cx, e) /\ i = At(c, e.pc) /\ b = Turned(cx, a, i)
  OBVIOUS
<1> HIDE DEF a, b, i
<1>2. /\ OnItsWay(cx, a) /\ a.ops = e.ops /\ a.snap = e.snap /\ a.pc = e.pc
      /\ a.label = Marked(e) /\ e.flaws \subseteq a.flaws
  <2>1. OnItsWay(cx, e) /\ a = AtLabel(cx, e)
    BY <1>1
  <2> QED
    BY ONLY <2>1, AtLabelFacts
<1>3. Shaped(cx, c, a, b)
  BY <1>1, <1>2, TurnedShape
<1>4. e2 = [b EXCEPT !.pc = NextAt(cx, e.pc)]
  BY <1>1, <1>2, TurnIs
<1>5. Later(a, b) /\ HasSnaps(cx, b) /\ OthersKept(cx, a, b, Targets(cx, c, a.pc))
  BY <1>3 DEF Shaped
<1>6. IsEmitter(b) /\ b.label = a.label /\ a.flaws \subseteq b.flaws /\ Begins(a.ops, b.ops)
  BY <1>5 DEF Later
<1>7. /\ IsEmitter(e2) /\ e2.pc = NextAt(cx, e.pc) /\ e2.reg = b.reg /\ e2.dirty = b.dirty /\ e2.ops = b.ops
      /\ e2.label = b.label /\ e2.snap = b.snap /\ e2.flaws = b.flaws
  BY <1>4, <1>6, MovedFacts
<1>8. OnItsWay(cx, e2) /\ OthersKept(cx, e, e2, Targets(cx, c, e.pc))
  BY <1>2, <1>5, <1>7 DEF OnItsWay, HasSnaps, OthersKept
<1>9. e2.pc \in (e.pc + 1) .. End(c)
  BY <1>7, NextIs
<1>10. e2.flaws = {} => \A u \in Targets(cx, c, e.pc) \cap cx.snap : JumpAt(cx, e.pc) \in JumpsTo(c, u)
  BY <1>2, <1>3, <1>7 DEF Shaped
<1>11. Turns(cx, c, e, a, b, e2)
  BY <1>1, <1>2, <1>6, <1>7, <1>8, <1>9, <1>10 DEF Turns, Moved
<1> QED
  BY <1>11

-------------------------------------------------------------------------------
(* All turns together.                                                      *)
\* E has the emitters of all turns, and nothing has gone wrong.
Course(cx, c, E) ==
  /\ Wired(cx, c) /\ cx.arity \in Nat /\ cx.arity <= FrameSize
  /\ E[0] = Entry(cx) /\ \A k \in Nat : k < End(c) => E[k + 1] = Turn(cx, E[k])
  /\ E[End(c)].flaws = {}

Begun(cx, c, e) == OnItsWay(cx, e) /\ e.pc \in 1 .. End(c) /\ DOMAIN e.label = 1 .. End(c)

\* At the end nothing more is emitted.
LEMMA CourseStep ==
  ASSUME NEW cx, NEW c, Wired(cx, c), NEW e, Begun(cx, c, e), NEW e2, e2 = Turn(cx, e)
  PROVE  /\ Begun(cx, c, e2)
         /\ e.pc = End(c) => e2 = e
         /\ e.pc # End(c) => e.pc \in Body(c) /\ \E a, b : Turns(cx, c, e, a, b, e2)
<1>1. Closed(c) /\ cx.code = c
  BY DEF Wired
<1>2. CASE e.pc = End(c)
  BY <1>1, <1>2, Zenon DEF Turn
<1>3. CASE e.pc # End(c)
  <2>1. e.pc \in Body(c)
    BY <1>1, <1>3, BodyFacts DEF Begun
  <2>2. PICK a, b : Turns(cx, c, e, a, b, e2)
    BY <2>1, TurnFacts DEF Begun
  <2>3. OnItsWay(cx, e2) /\ e2.pc \in (e.pc + 1) .. End(c) /\ e2.label = Marked(e)
    BY <2>2 DEF Turns
  <2>4. e2.pc \in 1 .. End(c)
    BY <1>1, <2>3, BodyFacts DEF Begun
  <2>5. DOMAIN e2.label = 1 .. End(c)
    BY <2>3 DEF Begun, Marked
  <2> QED
    BY <1>3, <2>1, <2>2, <2>3, <2>4, <2>5 DEF Begun
<1> QED
  BY <1>2, <1>3

\* What the emitter starts with.
EntryIs(cx, e) ==
  /\ OnItsWay(cx, e) /\ e.pc = 1 /\ e.ops = <<>> /\ DOMAIN e.label = 1 .. End(cx.code)
  /\ e.dirty = {x \in Regs : x < cx.arity}
  /\ \A x \in Regs : e.reg[x] = IF x < cx.arity THEN x ELSE Empty

LEMMA EntryFits ==
  ASSUME NEW cx, cx.arity \in Nat, cx.arity <= FrameSize
  PROVE  EntryIs(cx, Entry(cx))
<1> DEFINE e == Entry(cx)
           label == [pc \in 1 .. End(cx.code) |-> 0]
           reg == [x \in Regs |-> IF x < cx.arity THEN x ELSE Empty]
           dirty == {x \in Regs : x < cx.arity}
<1>1. /\ OnItsWay(cx, e) /\ e.pc = 1 /\ e.ops = <<>> /\ e.label = label /\ e.reg = reg /\ e.dirty = dirty
  BY EntryFacts
<1>2. DOMAIN label = 1 .. End(cx.code)
  OBVIOUS
<1>3. \A x \in Regs : reg[x] = IF x < cx.arity THEN x ELSE Empty
  OBVIOUS
<1>4. DOMAIN e.label = 1 .. End(cx.code)
  BY <1>1, <1>2, Zenon
<1>5. \A x \in Regs : e.reg[x] = IF x < cx.arity THEN x ELSE Empty
  BY <1>1, <1>3, Zenon
<1> HIDE DEF label, reg
<1> QED
  BY <1>1, <1>4, <1>5 DEF EntryIs

LEMMA CourseBegun ==
  ASSUME NEW cx, NEW c, NEW E, Course(cx, c, E)
  PROVE  \A k \in Nat : k <= End(c) => Begun(cx, c, E[k]) /\ (E[k].pc > k \/ E[k].pc = End(c))
<1> DEFINE N == End(c)
           T == {k \in Nat : k <= N => Begun(cx, c, E[k]) /\ (E[k].pc > k \/ E[k].pc = N)}
<1>1. Wired(cx, c) /\ Closed(c) /\ cx.code = c /\ N \in Nat /\ N \in 1 .. N
  <2>1. Wired(cx, c) /\ Closed(c) /\ cx.code = c
    BY DEF Course, Wired
  <2> QED
    BY <2>1, BodyFacts
<1>2. 0 \in T
  <2>1. E[0] = Entry(cx) /\ cx.arity \in Nat /\ cx.arity <= FrameSize
    BY DEF Course
  <2>2. EntryIs(cx, Entry(cx))
    BY <2>1, EntryFits
  <2>3. OnItsWay(cx, E[0]) /\ E[0].pc = 1 /\ DOMAIN E[0].label = 1 .. N /\ 1 \in 1 .. N
    BY <1>1, <2>1, <2>2 DEF EntryIs
  <2>4. Begun(cx, c, E[0]) /\ E[0].pc > 0
    BY <2>3 DEF Begun
  <2> QED
    BY <2>4
<1>3. ASSUME NEW k \in Nat, k \in T
      PROVE  k + 1 \in T
  <2> SUFFICES ASSUME k + 1 <= N
               PROVE  Begun(cx, c, E[k + 1]) /\ (E[k + 1].pc > k + 1 \/ E[k + 1].pc = N)
    OBVIOUS
  <2>1. k < N /\ k <= N
    BY <1>1
  <2>2. Begun(cx, c, E[k]) /\ (E[k].pc > k \/ E[k].pc = N)
    BY <1>3, <2>1
  <2>3. E[k + 1] = Turn(cx, E[k])
    BY <2>1 DEF Course
  <2>4. /\ Begun(cx, c, E[k + 1])
        /\ E[k].pc = N => E[k + 1] = E[k]
        /\ E[k].pc # N => E[k].pc \in Body(c) /\ \E a, b : Turns(cx, c, E[k], a, b, E[k + 1])
    BY <1>1, <2>2, <2>3, CourseStep
  <2>5. CASE E[k].pc = N
    BY <2>4, <2>5
  <2>6. CASE E[k].pc # N
    <3>1. E[k + 1].pc \in (E[k].pc + 1) .. N
      BY <2>4, <2>6 DEF Turns
    <3>2. E[k].pc \in Nat /\ E[k].pc > k
      BY <1>1, <2>2, <2>6 DEF Begun
    <3> QED
      BY <1>1, <2>4, <3>1, <3>2
  <2> QED
    BY <2>5, <2>6
<1> HIDE DEF T
<1>4. \A k \in Nat : k \in T
  BY ONLY <1>2, <1>3, AllNaturals
<1> QED
  BY <1>4 DEF T

\* From one turn to the next.
LEMMA CourseTurn ==
  ASSUME NEW cx, NEW c, NEW E, Course(cx, c, E), NEW k \in Nat, k < End(c)
  PROVE  /\ Begun(cx, c, E[k]) /\ Begun(cx, c, E[k + 1])
         /\ E[k].pc = End(c) => E[k + 1] = E[k]
         /\ E[k].pc # End(c) => E[k].pc \in Body(c) /\ \E a, b : Turns(cx, c, E[k], a, b, E[k + 1])
<1>1. Wired(cx, c) /\ Closed(c) /\ E[k + 1] = Turn(cx, E[k])
  BY DEF Course, Wired
<1>2. End(c) \in Nat
  BY <1>1, BodyFacts
<1>3. Begun(cx, c, E[k])
  BY <1>2, CourseBegun
<1> QED
  BY <1>1, <1>3, CourseStep

\* At the last turn the end is reached.
LEMMA CourseEnds ==
  ASSUME NEW cx, NEW c, NEW E, Course(cx, c, E)
  PROVE  E[End(c)].pc = End(c) /\ Begun(cx, c, E[End(c)])
<1>1. Closed(c)
  BY DEF Course, Wired
<1>2. End(c) \in Nat
  BY <1>1, BodyFacts
<1>3. Begun(cx, c, E[End(c)]) /\ (E[End(c)].pc > End(c) \/ E[End(c)].pc = End(c))
  BY <1>2, CourseBegun
<1> QED
  BY <1>2, <1>3 DEF Begun

-------------------------------------------------------------------------------
\* What is emitted stays.
Grows(e, e2) == IsEmitter(e2) /\ Begins(e.ops, e2.ops) /\ e.flaws \subseteq e2.flaws /\ ~(e.pc > e2.pc)

LEMMA CourseGrows ==
  ASSUME NEW cx, NEW c, NEW E, Course(cx, c, E), NEW j \in Nat, j <= End(c)
  PROVE  \A k \in Nat : j <= k /\ k <= End(c) => Grows(E[j], E[k])
<1> DEFINE N == End(c)
           T == {h \in Nat : j + h <= N => Grows(E[j], E[j + h])}
<1>1. N \in Nat
  BY BodyFacts DEF Course, Wired
<1>a. \A k \in Nat : k <= N => Begun(cx, c, E[k]) /\ IsEmitter(E[k]) /\ E[k].pc \in 1 .. N /\ IsSeq(E[k].ops)
  BY CourseBegun DEF Begun, OnItsWay, IsEmitter
<1>2. 0 \in T
  <2>1. IsSeq(E[j].ops) /\ IsEmitter(E[j]) /\ E[j].pc \in 1 .. N
    BY <1>a
  <2>2. Begins(E[j].ops, E[j].ops)
    BY <2>1, BeginsItself
  <2>3. Grows(E[j], E[j])
    BY <1>1, <2>1, <2>2 DEF Grows
  <2> QED
    BY <2>3
<1>3. ASSUME NEW h \in Nat, h \in T
      PROVE  h + 1 \in T
  <2> DEFINE k == j + h
  <2>0. k \in Nat /\ j + (h + 1) = k + 1
    OBVIOUS
  <2> HIDE DEF k
  <2> SUFFICES ASSUME k + 1 <= N
               PROVE  Grows(E[j], E[k + 1])
    BY <2>0
  <2>1. k < N /\ k <= N
    BY <1>1, <2>0
  <2>2. Grows(E[j], E[k])
    BY <1>3, <2>1 DEF k
  <2>3. /\ E[k].pc = N => E[k + 1] = E[k]
        /\ E[k].pc # N => \E a, b : Turns(cx, c, E[k], a, b, E[k + 1])
    BY <2>0, <2>1, CourseTurn
  <2>4. CASE E[k].pc = N
    BY <2>2, <2>3, <2>4
  <2>5. CASE E[k].pc # N
    <3>1. /\ Begins(E[k].ops, E[k + 1].ops) /\ E[k].flaws \subseteq E[k + 1].flaws
          /\ E[k + 1].pc \in (E[k].pc + 1) .. N
      BY <2>3, <2>5 DEF Turns
    <3>2. IsSeq(E[j].ops) /\ IsSeq(E[k].ops) /\ IsSeq(E[k + 1].ops) /\ IsEmitter(E[k + 1])
          /\ E[j].pc \in 1 .. N /\ E[k].pc \in 1 .. N
      BY <1>a, <2>0, <2>1
    <3>3. Begins(E[j].ops, E[k + 1].ops)
      <4>1. Len(E[k + 1].ops) \in Nat
        BY <3>2, BeginsItself
      <4> QED
        BY <2>2, <3>1, <3>2, <4>1, BeginsOn DEF Grows
    <3>4. ~(E[j].pc > E[k + 1].pc)
      BY <1>1, <2>2, <3>1, <3>2 DEF Grows
    <3> QED
      BY <2>2, <3>1, <3>2, <3>3, <3>4 DEF Grows
  <2> QED
    BY <2>4, <2>5
<1> HIDE DEF T
<1>4. \A h \in Nat : h \in T
  BY ONLY <1>2, <1>3, AllNaturals
<1>5. ASSUME NEW k \in Nat, j <= k, k <= N
      PROVE  Grows(E[j], E[k])
  <2>1. k - j \in Nat /\ j + (k - j) = k
    BY <1>5
  <2>2. k - j \in T
    BY <1>4, <2>1
  <2> QED
    BY <1>5, <2>1, <2>2 DEF T
<1> QED
  BY <1>5

\* So nothing has gone wrong at any turn, and each is behind those before it.
LEMMA CourseOn ==
  ASSUME NEW cx, NEW c, NEW E, Course(cx, c, E), NEW j \in Nat, j < End(c), E[j].pc # End(c)
  PROVE  /\ E[j].pc \in Body(c) /\ E[j].flaws = {} /\ E[j + 1].flaws = {}
         /\ \E a, b : Turns(cx, c, E[j], a, b, E[j + 1])
         /\ \A k \in Nat : j < k /\ k <= End(c) => E[k].pc \in NextAt(cx, E[j].pc) .. End(c)
<1> DEFINE N == End(c)
<1>1. N \in Nat /\ E[N].flaws = {}
  BY BodyFacts DEF Course, Wired
<1>2. E[j].pc \in Body(c) /\ \E a, b : Turns(cx, c, E[j], a, b, E[j + 1])
  BY CourseTurn
<1>3. E[j].flaws = {} /\ E[j + 1].flaws = {}
  <2>1. Grows(E[j], E[N]) /\ Grows(E[j + 1], E[N])
    BY <1>1, CourseGrows
  <2> QED
    BY <1>1, <2>1 DEF Grows
<1>4. ASSUME NEW k \in Nat, j < k, k <= N
      PROVE  E[k].pc \in NextAt(cx, E[j].pc) .. N
  <2>1. Grows(E[j + 1], E[k])
    BY <1>1, <1>4, CourseGrows
  <2>2. E[j + 1].pc = NextAt(cx, E[j].pc) /\ E[j + 1].pc \in (E[j].pc + 1) .. N
    BY <1>2 DEF Turns
  <2>3. E[k].pc \in 1 .. N
    BY <1>1, <1>4, CourseBegun DEF Begun
  <2>4. E[j].pc \in Nat
    BY <1>1, <1>2 DEF Body
  <2> QED
    BY <1>1, <2>1, <2>2, <2>3, <2>4 DEF Grows
<1> QED
  BY <1>2, <1>3, <1>4

\* Where each pc begins is not forgotten.
LEMMA CourseLabels ==
  ASSUME NEW cx, NEW c, NEW E, Course(cx, c, E), NEW j \in Nat, j < End(c), E[j].pc # End(c)
  PROVE  \A k \in Nat : j < k /\ k <= End(c) => E[k].label[E[j].pc] = Len(E[j].ops) + 1
<1> DEFINE N == End(c)
           p == E[j].pc
           T == {h \in Nat : j + 1 + h <= N => E[j + 1 + h].label[p] = Len(E[j].ops) + 1}
<1>1. N \in Nat
  BY BodyFacts DEF Course, Wired
<1>2. 0 \in T
  <2>1. E[j + 1].label = Marked(E[j])
    BY CourseOn DEF Turns
  <2>2. p \in DOMAIN E[j].label
    BY <1>1, CourseBegun DEF Begun
  <2>3. E[j + 1].label[p] = Len(E[j].ops) + 1
    BY <2>1, <2>2 DEF Marked
  <2> QED
    BY <2>3
<1>3. ASSUME NEW h \in Nat, h \in T
      PROVE  h + 1 \in T
  <2> DEFINE k == j + 1 + h
  <2>0. k \in Nat /\ j + 1 + (h + 1) = k + 1 /\ j < k
    OBVIOUS
  <2> HIDE DEF k
  <2> SUFFICES ASSUME k + 1 <= N
               PROVE  E[k + 1].label[p] = Len(E[j].ops) + 1
    BY <2>0
  <2>1. k < N /\ k <= N
    BY <1>1, <2>0
  <2>2. E[k].label[p] = Len(E[j].ops) + 1
    BY <1>3, <2>1 DEF k
  <2>3. CASE E[k].pc = N
    <3>1. E[k + 1] = E[k]
      BY <2>0, <2>1, <2>3, CourseTurn
    <3> QED
      BY <2>2, <3>1
  <2>4. CASE E[k].pc # N
    <3>1. E[k + 1].label = Marked(E[k])
      BY <2>0, <2>1, <2>4, CourseTurn DEF Turns
    <3>2. E[k].pc \in NextAt(cx, p) .. N /\ p \in Body(c)
      BY <2>0, <2>1, CourseOn
    <3>3. NextAt(cx, p) \in (p + 1) .. N
      BY <3>2, NextIs DEF Course
    <3>4. p \in 1 .. N /\ p # E[k].pc
      BY <1>1, <3>2, <3>3 DEF Body
    <3>5. DOMAIN E[k].label = 1 .. N
      BY <2>0, <2>1, CourseBegun DEF Begun
    <3> HIDE DEF p
    <3> QED
      BY <2>2, <3>1, <3>4, <3>5 DEF Marked
  <2> QED
    BY <2>3, <2>4
<1> HIDE DEF T
<1>4. \A h \in Nat : h \in T
  BY ONLY <1>2, <1>3, AllNaturals
<1>5. ASSUME NEW k \in Nat, j < k, k <= N
      PROVE  E[k].label[p] = Len(E[j].ops) + 1
  <2>1. k - (j + 1) \in Nat /\ j + 1 + (k - (j + 1)) = k
    BY <1>5
  <2>2. k - (j + 1) \in T
    BY <1>4, <2>1
  <2> QED
    BY <1>5, <2>1, <2>2 DEF T
<1> QED
  BY <1>5

-------------------------------------------------------------------------------
\* The cache a jump leaves for its label stays as it is.
LEMMA CourseSnaps ==
  ASSUME NEW cx, NEW c, NEW E, Course(cx, c, E), NEW j \in Nat, j < End(c), E[j].pc # End(c),
         NEW u \in Targets(cx, c, E[j].pc) \cap cx.snap
  PROVE  \A k \in Nat : j < k /\ k <= End(c) => E[k].snap[u] = E[j + 1].snap[u]
<1> DEFINE N == End(c)
           p == E[j].pc
           T == {h \in Nat : j + 1 + h <= N => E[j + 1 + h].snap[u] = E[j + 1].snap[u]}
<1>0. Wired(cx, c) /\ Closed(c)
  BY DEF Course, Wired
<1>1. N \in Nat
  BY <1>0, BodyFacts
<1>2. 0 \in T
  OBVIOUS
<1>3. ASSUME NEW h \in Nat, h \in T
      PROVE  h + 1 \in T
  <2> DEFINE k == j + 1 + h
  <2>0. k \in Nat /\ j + 1 + (h + 1) = k + 1 /\ j < k
    OBVIOUS
  <2> HIDE DEF k
  <2> SUFFICES ASSUME k + 1 <= N
               PROVE  E[k + 1].snap[u] = E[j + 1].snap[u]
    BY <2>0
  <2>1. k < N /\ k <= N
    BY <1>1, <2>0
  <2>2. E[k].snap[u] = E[j + 1].snap[u]
    BY <1>3, <2>1 DEF k
  <2>3. CASE E[k].pc = N
    <3>1. E[k + 1] = E[k]
      BY <2>0, <2>1, <2>3, CourseTurn
    <3> QED
      BY <2>2, <3>1
  <2>4. CASE E[k].pc # N
    <3> DEFINE q == E[k].pc
    <3>1. q \in NextAt(cx, p) .. N /\ p \in Body(c)
      BY <2>0, <2>1, CourseOn
    <3>2. q \in Body(c) /\ E[k + 1].flaws = {} /\ \E a, b : Turns(cx, c, E[k], a, b, E[k + 1])
      BY <2>0, <2>1, <2>4, CourseOn
    <3>3. E[j + 1].flaws = {} /\ \E a, b : Turns(cx, c, E[j], a, b, E[j + 1])
      BY CourseOn
    <3>4. JumpAt(cx, p) \in JumpsTo(c, u)
      BY <3>3 DEF Turns
    <3>5. u \notin Targets(cx, c, q)
      <4> SUFFICES ASSUME u \in Targets(cx, c, q)
                   PROVE  FALSE
        OBVIOUS
      <4>1. JumpAt(cx, q) \in JumpsTo(c, u)
        BY <3>2 DEF Turns
      <4>2. JumpAt(cx, p) = JumpAt(cx, q)
        BY <1>0, <3>4, <4>1 DEF Wired
      <4>3. JumpAt(cx, p) \in p .. (NextAt(cx, p) - 1) /\ NextAt(cx, p) \in (p + 1) .. N
        BY <1>0, <3>1, NextIs
      <4>4. JumpAt(cx, q) \in q .. (NextAt(cx, q) - 1) /\ NextAt(cx, q) \in (q + 1) .. N
        BY <1>0, <3>2, NextIs
      <4> HIDE DEF p, q
      <4> QED
        BY ONLY <1>1, <3>1, <4>2, <4>3, <4>4
    <3>6. E[k + 1].snap[u] = E[k].snap[u]
      BY <3>2, <3>5 DEF Turns, OthersKept
    <3> QED
      BY <2>2, <3>6
  <2> QED
    BY <2>3, <2>4
<1> HIDE DEF T
<1>4. \A h \in Nat : h \in T
  BY ONLY <1>2, <1>3, AllNaturals
<1>5. ASSUME NEW k \in Nat, j < k, k <= N
      PROVE  E[k].snap[u] = E[j + 1].snap[u]
  <2>1. k - (j + 1) \in Nat /\ j + 1 + (k - (j + 1)) = k
    BY <1>5
  <2>2. k - (j + 1) \in T
    BY <1>4, <2>1
  <2> QED
    BY <1>5, <2>1, <2>2 DEF T
<1> QED
  BY <1>5

-------------------------------------------------------------------------------
\* Turn k is at pc.
TurnAt(E, c, k, pc) == k \in Nat /\ k < End(c) /\ E[k].pc = pc

\* pc has been emitted, by a turn of its own or together with the one before.
Covered(cx, c, E, pc) ==
  \/ \E k : TurnAt(E, c, k, pc)
  \/ pc - 1 \in Body(c) /\ Fuses(cx, pc - 1)

LEMMA CourseCovers ==
  ASSUME NEW cx, NEW c, NEW E, Course(cx, c, E)
  PROVE  \A pc \in Body(c) : Covered(cx, c, E, pc)
<1> DEFINE N == End(c)
           T == {k \in Nat : k <= N => \A pc \in Body(c) : pc < E[k].pc => Covered(cx, c, E, pc)}
<1>0. Wired(cx, c) /\ Closed(c)
  BY DEF Course, Wired
<1>1. N \in Nat /\ Body(c) = 1 .. (N - 1)
  BY <1>0, BodyFacts
<1>2. 0 \in T
  <2>1. EntryIs(cx, E[0])
    BY EntryFits DEF Course
  <2>2. E[0].pc = 1
    BY <2>1 DEF EntryIs
  <2> QED
    BY <1>1, <2>2
<1>3. ASSUME NEW k \in Nat, k \in T
      PROVE  k + 1 \in T
  <2> SUFFICES ASSUME k + 1 <= N, NEW pc \in Body(c), pc < E[k + 1].pc
               PROVE  Covered(cx, c, E, pc)
    OBVIOUS
  <2>1. k < N /\ k <= N
    BY <1>1
  <2>2. \A s \in Body(c) : s < E[k].pc => Covered(cx, c, E, s)
    BY <1>3, <2>1
  <2>3. CASE E[k].pc = N
    <3>1. E[k + 1] = E[k]
      BY <2>1, <2>3, CourseTurn
    <3> QED
      BY <2>2, <3>1
  <2>4. CASE E[k].pc # N
    <3> DEFINE q == E[k].pc
    <3>1. q \in Body(c) /\ E[k + 1].pc = NextAt(cx, q)
      BY <2>1, <2>4, CourseOn DEF Turns
    <3>2. TurnAt(E, c, k, q)
      BY <2>1 DEF TurnAt
    <3>3. Covered(cx, c, E, q)
      BY <3>2 DEF Covered
    <3>4. pc \in Nat /\ q \in Nat
      BY <1>1, <3>1
    <3>5. CASE Fuses(cx, q)
      <4>1. pc < q + 2
        BY <3>1, <3>5 DEF NextAt
      <4>2. pc = q + 1 => Covered(cx, c, E, pc)
        BY <3>1, <3>4, <3>5 DEF Covered
      <4> HIDE DEF q
      <4>3. pc < q \/ pc = q \/ pc = q + 1
        BY <3>4, <4>1
      <4> QED
        BY <2>2, <3>3, <4>2, <4>3 DEF q
    <3>6. CASE ~Fuses(cx, q)
      <4>1. pc < q + 1
        BY <3>1, <3>6 DEF NextAt
      <4> HIDE DEF q
      <4>2. pc < q \/ pc = q
        BY <3>4, <4>1
      <4> QED
        BY <2>2, <3>3, <4>2 DEF q
    <3> QED
      BY <3>5, <3>6
  <2> QED
    BY <2>3, <2>4
<1> HIDE DEF T
<1>4. \A k \in Nat : k \in T
  BY ONLY <1>2, <1>3, AllNaturals
<1>5. N \in T /\ E[N].pc = N
  BY <1>1, <1>4, CourseEnds
<1> QED
  BY <1>1, <1>5 DEF T

\* A label has a turn of its own.
LEMMA LabelCovered ==
  ASSUME NEW cx, NEW c, NEW E, Course(cx, c, E), NEW t \in cx.snap \cup cx.flush
  PROVE  \E k : TurnAt(E, c, k, t)
<1>1. Wired(cx, c) /\ t \in cx.labels
  BY DEF Course, Wired
<1>2. t \in Body(c)
  BY <1>1, WiredFacts
<1>3. Covered(cx, c, E, t)
  BY <1>2, CourseCovers
<1>4. ~(t - 1 \in Body(c) /\ Fuses(cx, t - 1))
  <2> SUFFICES ASSUME t - 1 \in Body(c), Fuses(cx, t - 1)
               PROVE  FALSE
    OBVIOUS
  <2>1. (t - 1) + 1 \notin cx.labels
    BY <1>1, FusesFacts
  <2>2. t \in Nat
    BY <1>1, <1>2 DEF Body
  <2>3. (t - 1) + 1 = t
    BY <2>2
  <2> QED
    BY <1>1, <2>1, <2>3
<1> QED
  BY <1>3, <1>4 DEF Covered

-------------------------------------------------------------------------------
(* The finished code.                                                       *)
\* What returns none at the end.
AtEnd == <<<<"zero">>, <<"return", "RETURN_NONE">>>>

LEMMA JoinBegins ==
  ASSUME NEW s, IsSeq(s), NEW t, IsSeq(t)
  PROVE  IsSeq(s \o t) /\ Begins(s, s \o t)
<1>1. PICK S : s \in Seq(S)
  BY DEF IsSeq
<1>2. PICK T : t \in Seq(T)
  BY DEF IsSeq
<1>3. s \in Seq(S \cup T) /\ t \in Seq(S \cup T)
  BY <1>1, <1>2
<1>4. s \o t \in Seq(S \cup T) /\ Len(s) \in Nat /\ Len(t) \in Nat /\ Len(s \o t) = Len(s) + Len(t)
      /\ \A k \in 1 .. Len(s) : (s \o t)[k] = s[k]
  BY <1>3
<1> QED
  BY <1>4 DEF IsSeq, Begins

LEMMA AtEndIs == IsSeq(AtEnd)
<1> DEFINE x == <<"zero">>
           y == <<"return", "RETURN_NONE">>
<1>1. AtEnd = <<x, y>>
  BY DEF AtEnd
<1> HIDE DEF x, y
<1>2. <<x, y>> \in Seq({x, y})
  OBVIOUS
<1> QED
  BY <1>1, <1>2 DEF IsSeq

LEMMA FinishedIs ==
  ASSUME NEW cx, NEW e, IsSeq(e.ops), NEW n, n = Finished(cx, e)
  PROVE  /\ IsSeq(n.ops) /\ HasOps(n, e.ops) /\ n.kind = cx.kind /\ n.flaws = e.flaws
         /\ n.label = [e.label EXCEPT ![End(cx.code)] = Len(e.ops) + 1]
         /\ n.unset = cx.live[1] \ (0 .. (cx.arity - 1))
<1> DEFINE ops == e.ops \o AtEnd
           label == [e.label EXCEPT ![End(cx.code)] = Len(e.ops) + 1]
           unset == cx.live[1] \ (0 .. (cx.arity - 1))
<1>1. n = [ops |-> ops, label |-> label, kind |-> cx.kind, flaws |-> e.flaws, unset |-> unset]
  BY Zenon DEF Finished, AtEnd
<1>2. IsSeq(ops) /\ Begins(e.ops, ops)
  BY AtEndIs, JoinBegins
<1> HIDE DEF ops, label, unset
<1>3. n.ops = ops /\ n.label = label /\ n.kind = cx.kind /\ n.flaws = e.flaws /\ n.unset = unset
  BY <1>1
<1> QED
  BY <1>2, <1>3 DEF label, unset, HasOps

\* n is the code of all turns together.
Laid(cx, c, E, n) == Course(cx, c, E) /\ n = Finished(cx, E[End(c)])

\* What a turn has done of it.
LEMMA TurnLaid ==
  ASSUME NEW cx, NEW c, NEW E, NEW n, Laid(cx, c, E, n), NEW pc \in Body(c), NEW k, TurnAt(E, c, k, pc)
  PROVE  /\ IsSeq(n.ops) /\ n.kind = cx.kind /\ HasOps(n, E[k + 1].ops) /\ E[k + 1].flaws = {}
         /\ n.label[pc] = Len(E[k].ops) + 1
         /\ OnItsWay(cx, E[k]) /\ OnItsWay(cx, E[k + 1])
         /\ \E a, b : Turns(cx, c, E[k], a, b, E[k + 1])
<1> DEFINE N == End(c)
<1>1. Course(cx, c, E) /\ n = Finished(cx, E[N]) /\ Closed(c) /\ cx.code = c
  BY DEF Laid, Course, Wired
<1>2. N \in Nat /\ N \notin Body(c)
  BY <1>1, BodyFacts
<1>3. k \in Nat /\ k < N /\ E[k].pc = pc /\ pc # N
  BY <1>2 DEF TurnAt
<1>4. /\ E[k + 1].flaws = {} /\ \E a, b : Turns(cx, c, E[k], a, b, E[k + 1])
      /\ E[N].label[pc] = Len(E[k].ops) + 1
  BY <1>1, <1>2, <1>3, CourseOn, CourseLabels
<1>5. OnItsWay(cx, E[k]) /\ OnItsWay(cx, E[k + 1]) /\ OnItsWay(cx, E[N]) /\ DOMAIN E[N].label = 1 .. N
  BY <1>1, <1>2, <1>3, CourseBegun DEF Begun
<1>6. IsSeq(E[k + 1].ops) /\ IsSeq(E[N].ops)
  BY <1>5 DEF OnItsWay, IsEmitter
<1>7. /\ IsSeq(n.ops) /\ HasOps(n, E[N].ops) /\ n.kind = cx.kind
      /\ n.label = [E[N].label EXCEPT ![N] = Len(E[N].ops) + 1]
  BY <1>1, <1>6, FinishedIs
<1>8. Begins(E[k + 1].ops, E[N].ops)
  BY <1>1, <1>2, <1>3, CourseGrows DEF Grows
<1>9. HasOps(n, E[k + 1].ops)
  <2>1. Len(n.ops) \in Nat
    BY <1>7, BeginsItself
  <2> QED
    BY <1>6, <1>7, <1>8, <2>1, BeginsOn DEF HasOps
<1>10. n.label[pc] = E[N].label[pc]
  BY <1>3, <1>7
<1> QED
  BY <1>4, <1>5, <1>7, <1>9, <1>10

\* The machine is at pc, where a turn began.
Reached(cx, c, E, pc, m, f) ==
  \E k : TurnAt(E, c, k, pc) /\ Sim(AtLabel(cx, E[k]), m, f, cx.live[pc])

\* It comes to be there, or to the end of the code.
Comes(cx, c, E, n, pc, m, f) ==
  \E m2 : /\ Gets(n, m, m2)
          /\ Guessed(m2) \/ pc = End(c) \/ Reached(cx, c, E, pc, m2, f)

-------------------------------------------------------------------------------
(* From turn to turn as it runs.                                            *)
\* For the slots of S, and for what is seen, f2 is f.
AlikeFor(f, f2, S) == f2.args = f.args /\ f2.out = f.out /\ \A s \in S : f2.regs[s] = f.regs[s]

LEMMA ArrivesLess ==
  ASSUME NEW cache, NEW m, NEW f, NEW S, NEW at, Arrives(cache, m, f, S, at), NEW f2,
         NEW S2, S2 \subseteq S, AlikeFor(f, f2, S2)
  PROVE  Arrives(cache, m, f2, S2, at)
<1>1. Agrees(cache.reg, cache.dirty, m.regs, m.frame, f.regs, S) /\ \A s \in S2 : f2.regs[s] = f.regs[s]
  BY DEF Arrives, AlikeFor
<1>2. Agrees(cache.reg, cache.dirty, m.regs, m.frame, f2.regs, S2)
  BY <1>1, AgreesLess
<1> QED
  BY <1>2 DEF Arrives, AlikeFor

LEMMA AlikeItself ==
  ASSUME NEW f, NEW S
  PROVE  AlikeFor(f, f, S)
BY DEF AlikeFor

\* Behind the code of a turn.
LEMMA FallsOn ==
  ASSUME NEW cx, NEW c, NEW E, NEW n, Laid(cx, c, E, n), NEW pc \in Body(c), NEW k, TurnAt(E, c, k, pc),
         NEW b, Moved(b, E[k + 1]), NEW t, t = E[k + 1].pc, t \notin cx.snap, t # End(c),
         NEW m, NEW f, NEW S, Sim(b, m, f, S), NEW f2, cx.live[t] \subseteq S, AlikeFor(f, f2, cx.live[t])
  PROVE  Reached(cx, c, E, t, m, f2)
<1> DEFINE N == End(c)
           e2 == E[k + 1]
           a2 == AtLabel(cx, e2)
<1>1. Course(cx, c, E) /\ N \in Nat /\ k \in Nat /\ k < N
  BY BodyFacts DEF Laid, Course, Wired, TurnAt
<1>2. k + 1 < N
  <2>1. E[N].pc = N
    BY <1>1, CourseEnds
  <2>2. k + 1 # N
    BY <2>1
  <2> QED
    BY <1>1, <2>2
<1>3. TurnAt(E, c, k + 1, t)
  BY <1>1, <1>2 DEF TurnAt
<1>4. OnItsWay(cx, e2)
  BY TurnLaid
<1> HIDE DEF e2
<1>5. a2.ops = e2.ops /\ CacheOf(a2) = CacheOf(e2)
  <2>1. e2.pc \notin cx.snap
    BY DEF e2
  <2> QED
    BY <1>4, <2>1, AtLabelFacts
<1>6. Arrives(CacheOf(b), m, f, S, Len(b.ops) + 1)
  BY ArrivesHere
<1>7. Arrives(CacheOf(b), m, f2, cx.live[t], Len(b.ops) + 1)
  BY <1>6, ArrivesLess
<1>8. CacheOf(b) = CacheOf(a2) /\ b.ops = a2.ops
  BY <1>5 DEF Moved, CacheOf, e2
<1>9. Sim(a2, m, f2, cx.live[t])
  BY <1>7, <1>8, ArrivesHere
<1> QED
  BY <1>3, <1>9 DEF Reached, e2

\* A jump does not lead to where it is.
Aside(cx, pc, t) == t \in cx.snap => JumpAt(cx, pc) # t

\* At the label of a jump.
LEMMA LabelReached ==
  ASSUME NEW cx, NEW c, NEW E, NEW n, Laid(cx, c, E, n), NEW pc \in Body(c), NEW k, TurnAt(E, c, k, pc),
         NEW b, Moved(b, E[k + 1]), NEW t \in Targets(cx, c, pc), t \in cx.snap \cup cx.flush, Aside(cx, pc, t),
         NEW m, NEW f, NEW S, Arrives(Expects(cx, b, t), m, f, S, n.label[t]),
         NEW f2, cx.live[t] \subseteq S, AlikeFor(f, f2, cx.live[t])
  PROVE  Reached(cx, c, E, t, m, f2)
<1> DEFINE N == End(c)
<1>1. /\ Course(cx, c, E) /\ Wired(cx, c) /\ Closed(c) /\ N \in Nat /\ k \in Nat /\ k < N /\ E[k].pc = pc
      /\ N \notin Body(c) /\ pc \in Nat
  BY BodyFacts DEF Laid, Course, Wired, TurnAt, Body
<1>2. PICK k2 : TurnAt(E, c, k2, t)
  BY <1>1, LabelCovered
<1>3. t \in Body(c) /\ t \in Nat /\ t # N
  <2>1. t \in Body(c)
    BY <1>1, WiredFacts
  <2> QED
    BY <1>1, <2>1 DEF Body
<1>4. /\ n.label[t] = Len(E[k2].ops) + 1 /\ OnItsWay(cx, E[k2]) /\ E[k2 + 1].flaws = {}
      /\ \E a3, b3 : Turns(cx, c, E[k2], a3, b3, E[k2 + 1])
  BY <1>2, <1>3, TurnLaid
<1> DEFINE e2 == E[k2]
           a2 == AtLabel(cx, e2)
<1>5. a2.flaws = {} /\ e2.pc = t
  BY <1>2, <1>4 DEF Turns, TurnAt
<1>6. OnItsWay(cx, e2)
  BY <1>4
<1> HIDE DEF e2
<1>7. /\ a2.ops = e2.ops
      /\ t \in cx.flush => e2.reg = Nothing
      /\ t \notin cx.snap => CacheOf(a2) = CacheOf(e2)
      /\ t \in cx.snap => CacheOf(a2) = e2.snap[t]
  BY <1>5, <1>6, AtLabelFacts
<1> DEFINE cache == Expects(cx, b, t)
<1>8. Arrives(cache, m, f2, cx.live[t], n.label[t])
  BY ArrivesLess
<1>9. Sim(a2, m, f2, cx.live[t])
  <2>1. CASE t \in cx.snap
    <3>1. pc # N
      BY <1>1
    <3>2. /\ E[k + 1].flaws = {} /\ \E a3, b3 : Turns(cx, c, E[k], a3, b3, E[k + 1])
      BY <1>1, <3>1, CourseOn
    <3>3. JumpAt(cx, pc) \in JumpsTo(c, t)
      BY <1>1, <2>1, <3>2 DEF Turns
    <3>4. ~(JumpAt(cx, pc) > t) /\ JumpAt(cx, pc) # t
      BY <1>1, <2>1, <3>3 DEF Wired, Aside
    <3>5. JumpAt(cx, pc) \in pc .. (NextAt(cx, pc) - 1) /\ NextAt(cx, pc) \in (pc + 1) .. N
      BY <1>1, NextIs
    <3>6. pc < t
      BY <1>1, <1>3, <3>4, <3>5
    <3>7. k2 \in Nat /\ k2 < N
      BY <1>2 DEF TurnAt
    <3>8. k < k2
      <4> SUFFICES ASSUME k2 <= k
                   PROVE  FALSE
        BY <1>1, <3>7
      <4>1. Grows(E[k2], E[k])
        BY <1>1, <3>7, CourseGrows
      <4>2. ~(t > pc)
        BY <1>1, <1>5, <4>1 DEF Grows, e2
      <4> QED
        BY <1>1, <1>3, <3>6, <4>2
    <3>9. e2.snap[t] = E[k + 1].snap[t]
      BY <1>1, <2>1, <3>1, <3>7, <3>8, CourseSnaps DEF e2
    <3>10. cache = CacheOf(a2)
      BY <1>7, <2>1, <3>9 DEF Expects, Moved
    <3> HIDE DEF cache
    <3> QED
      BY <1>4, <1>7, <1>8, <3>10, ArrivesHere DEF e2
  <2>2. CASE t \notin cx.snap
    <3>1. e2.reg = Nothing /\ CacheOf(a2) = CacheOf(e2)
      BY <1>7, <2>2
    <3>2. a2.reg = Nothing
      BY <3>1 DEF CacheOf
    <3>3. cache = [reg |-> Nothing, dirty |-> {}]
      BY <2>2 DEF Expects
    <3>4. cache.reg = Nothing
      BY <3>3
    <3>5. \A s \in cx.live[t] : s \in Slots
      BY <1>1, <1>3, BodyFacts DEF Wired
    <3>6. Agrees(a2.reg, a2.dirty, m.regs, m.frame, f2.regs, cx.live[t])
      <4>1. a2.dirty \subseteq Regs
        <5>1. OnItsWay(cx, a2)
          BY <1>6, AtLabelFacts
        <5> QED
          BY <5>1 DEF OnItsWay, IsEmitter
      <4>2. \A x \in Regs : Nothing[x] = Empty
        BY DEF Nothing
      <4>3. \A s \in cx.live[t] : m.frame[s] = f2.regs[s]
        <5>1. Agrees(Nothing, {}, m.regs, m.frame, f2.regs, cx.live[t])
          BY <1>8, <3>3 DEF Arrives
        <5> QED
          BY <5>1 DEF Agrees
      <4> QED
        BY <3>2, <3>5, <4>1, <4>2, <4>3, EmptyIsNoSlot DEF Agrees
    <3> QED
      BY <1>4, <1>7, <1>8, <3>6 DEF Arrives, Sim, e2
  <2> QED
    BY <2>1, <2>2
<1> QED
  BY <1>2, <1>9 DEF Reached, e2

-------------------------------------------------------------------------------
\* What was emitted for a turn is in the finished code.
LEMMA TurnPlaced ==
  ASSUME NEW cx, NEW c, NEW E, NEW n, Laid(cx, c, E, n), NEW pc \in Body(c), NEW k, TurnAt(E, c, k, pc)
  PROVE  \E a, b : /\ Turns(cx, c, E[k], a, b, E[k + 1]) /\ a = AtLabel(cx, E[k]) /\ a.pc = pc
                   /\ b = Turned(cx, a, At(c, pc)) /\ OnItsWay(cx, a) /\ IsEmitter(a)
                   /\ Moved(b, E[k + 1]) /\ HasOps(n, b.ops) /\ b.flaws = {}
<1>1. E[k].pc = pc
  BY DEF TurnAt
<1>2. PICK a, b : Turns(cx, c, E[k], a, b, E[k + 1])
  BY TurnLaid
<1>3. HasOps(n, E[k + 1].ops) /\ E[k + 1].flaws = {}
  BY TurnLaid
<1>4. /\ a = AtLabel(cx, E[k]) /\ a.pc = pc /\ b = Turned(cx, a, At(c, pc)) /\ OnItsWay(cx, a)
      /\ Moved(b, E[k + 1])
  BY <1>1, <1>2 DEF Turns
<1>5. HasOps(n, b.ops) /\ b.flaws = {} /\ IsEmitter(a)
  BY <1>3, <1>4 DEF Moved, OnItsWay
<1> QED
  BY <1>2, <1>4, <1>5

\* An instruction that neither jumps nor returns.
LEMMA GoesOn ==
  ASSUME NEW cx, NEW c, NEW E, NEW n, Laid(cx, c, E, n), NEW pc \in Body(c), NEW k, TurnAt(E, c, k, pc),
         NEW i, i = At(c, pc), i[1] \in Going, ~Fuses(cx, pc),
         NEW f, Is(f, Slots), NEW m, Sim(AtLabel(cx, E[k]), m, f, cx.live[pc])
  PROVE  Comes(cx, c, E, n, pc + 1, m, Effect(i, f))
<1>0. Wired(cx, c)
  BY DEF Laid, Course
<1>1. Wired(cx, c) /\ Closed(c) /\ IsSeq(n.ops)
  <2>1. IsSeq(n.ops)
    BY TurnLaid
  <2> QED
    BY <1>0, <2>1 DEF Wired
<1>2. PICK a, b : /\ Turns(cx, c, E[k], a, b, E[k + 1]) /\ a = AtLabel(cx, E[k]) /\ a.pc = pc
                  /\ b = Turned(cx, a, At(c, pc)) /\ OnItsWay(cx, a) /\ IsEmitter(a)
                  /\ Moved(b, E[k + 1]) /\ HasOps(n, b.ops) /\ b.flaws = {}
  BY TurnPlaced
<1>3. DoesIt(n, cx, a, b, i, f)
  <2>1. a.pc \in Body(c) /\ i = At(c, a.pc) /\ b = Turned(cx, a, i) /\ ~Fuses(cx, a.pc)
    BY <1>2
  <2> QED
    BY <1>1, <1>2, <2>1, TurnedGoes
<1>4. Does(n, a, b, f, cx.live[pc], Effect(i, f), cx.live[pc + 1])
  BY <1>2, <1>3 DEF DoesIt, Emits
<1>5. PICK m2 : Gets(n, m, m2) /\ (Guessed(m2) \/ Sim(b, m2, Effect(i, f), cx.live[pc + 1]))
  BY <1>2, <1>4 DEF Does
<1>6. E[k + 1].pc = pc + 1
  <2>1. E[k].pc = pc
    BY DEF TurnAt
  <2> QED
    BY <1>2, <2>1 DEF Turns, NextAt
<1>7. pc + 1 \notin cx.snap
  <2>1. i[1] \notin Stops
    BY DEF Going, Stops, PureOps, CallOps, ReturnOps, LoadOps, ArithOps, ImmOps, CmpOps
  <2>2. OpAt(c, pc) \notin Stops
    BY <2>1 DEF OpAt
  <2> QED
    BY <1>1, <2>2, WiredFacts
<1>8. CASE Guessed(m2) \/ pc + 1 = End(c)
  BY <1>5, <1>8 DEF Comes
<1>9. CASE Sim(b, m2, Effect(i, f), cx.live[pc + 1]) /\ pc + 1 # End(c)
  <2> DEFINE t == pc + 1
             f2 == Effect(i, f)
  <2>1. AlikeFor(f2, f2, cx.live[t])
    BY AlikeItself
  <2>2. t = E[k + 1].pc /\ t \notin cx.snap /\ t # End(c) /\ Sim(b, m2, f2, cx.live[t])
    BY <1>6, <1>7, <1>9
  <2> HIDE DEF t, f2
  <2>3. Reached(cx, c, E, t, m2, f2)
    BY <1>2, <2>1, <2>2, FallsOn
  <2> QED
    BY <1>5, <2>3 DEF Comes, t, f2
<1> QED
  BY <1>5, <1>8, <1>9

\* At the label of a jump, or at the end.
LEMMA LandsAt ==
  ASSUME NEW cx, NEW c, NEW E, NEW n, Laid(cx, c, E, n), NEW pc \in Body(c), NEW k, TurnAt(E, c, k, pc),
         NEW b, Moved(b, E[k + 1]), NEW t \in Targets(cx, c, pc), Expected(cx, t), Aside(cx, pc, t),
         NEW m, NEW f, NEW S, Arrives(Expects(cx, b, t), m, f, S, n.label[t]),
         NEW f2, cx.live[t] \subseteq S, AlikeFor(f, f2, cx.live[t])
  PROVE  t = End(c) \/ Reached(cx, c, E, t, m, f2)
<1>1. cx.code = c
  BY DEF Laid, Course, Wired
<1>2. t \in cx.snap \cup cx.flush \/ t = End(c)
  BY <1>1 DEF Expected
<1>3. CASE t \in cx.snap \cup cx.flush
  BY <1>3, LabelReached
<1> QED
  BY <1>2, <1>3

LEMMA JumpsOn ==
  ASSUME NEW cx, NEW c, NEW E, NEW n, Laid(cx, c, E, n), NEW pc \in Body(c), NEW k, TurnAt(E, c, k, pc),
         NEW i, i = At(c, pc), i[1] \in JumpOps, Aside(cx, pc, i[2]),
         NEW f, Is(f, Slots), NEW m, Sim(AtLabel(cx, E[k]), m, f, cx.live[pc])
  PROVE  Comes(cx, c, E, n, NextPc(i, pc, f), m, f)
<1>0. Wired(cx, c)
  BY DEF Laid, Course
<1>1. Wired(cx, c) /\ Closed(c) /\ IsSeq(n.ops) /\ cx.code = c
  <2>1. IsSeq(n.ops)
    BY TurnLaid
  <2> QED
    BY <1>0, <2>1 DEF Wired
<1>2. PICK a, b : /\ Turns(cx, c, E[k], a, b, E[k + 1]) /\ a = AtLabel(cx, E[k]) /\ a.pc = pc
                  /\ b = Turned(cx, a, At(c, pc)) /\ OnItsWay(cx, a) /\ IsEmitter(a)
                  /\ Moved(b, E[k + 1]) /\ HasOps(n, b.ops) /\ b.flaws = {}
  BY TurnPlaced
<1> DEFINE goes == Taken(i, f)
           t == i[2]
<1>3. goes \in BOOLEAN
  BY TakenIsBoolean
<1>3a. goes = Taken(i, f)
  OBVIOUS
<1> HIDE DEF goes
<1>4. JumpsRight(n, cx, a, b, i, f, goes)
  <2>1. a.pc \in Body(c) /\ i = At(c, a.pc) /\ b = Turned(cx, a, i)
    BY <1>2
  <2> QED
    BY <1>1, <1>2, <1>3, <1>3a, <2>1, TurnedJumps
<1>5. Branches(n, cx, a, b, t, f, cx.live[pc], goes)
  BY <1>2, <1>4 DEF JumpsRight
<1>6. PICK m2 : /\ Gets(n, m, m2)
                /\ \/ Guessed(m2)
                   \/ goes /\ Arrives(Expects(cx, b, t), m2, f, cx.live[pc], n.label[t])
                   \/ ~goes /\ Sim(b, m2, f, cx.live[pc])
  BY <1>2, <1>5 DEF Branches, Branched
<1>7. ~Fuses(cx, pc) /\ E[k + 1].pc = pc + 1
  <2>1. ~Fuses(cx, a.pc)
    <3>1. a.pc \in Body(c) /\ i = At(c, a.pc)
      BY <1>2
    <3> QED
      BY <1>1, <3>1, TurnedAlone
  <2>2. ~Fuses(cx, pc) /\ E[k].pc = pc
    BY <1>2, <2>1 DEF TurnAt
  <2> QED
    BY <1>2, <2>2 DEF Turns, NextAt
<1>8. t \in Targets(cx, c, pc) /\ Expected(cx, t)
  <2>1. t \in Targets(cx, c, pc)
    BY <1>7 DEF Targets, JumpAt, OpAt
  <2>2. CASE i[1] \in NoneJumps
    <3>1. t \in cx.flush \cup {End(cx.code)}
      BY <1>2, <1>4, <2>2 DEF JumpsRight
    <3> QED
      BY <2>1, <3>1 DEF Expected
  <2>3. CASE i[1] \notin NoneJumps
    <3>1. pc \in SeenJumps(c)
      BY <2>3 DEF SeenJumps, OpAt
    <3>2. Expected(cx, At(c, pc)[2])
      BY <1>1, <3>1, WiredFacts
    <3> QED
      BY <2>1, <3>2
  <2> QED
    BY <2>2, <2>3
<1>9. \A u \in Successors(c, pc) : cx.live[u] \subseteq cx.live[pc]
  <2>1. Writes(i) = {}
    <3>1. ~(i[1] \in PureOps \cup CallOps)
      BY DEF JumpOps, ImmJumps, RegJumps, NoneJumps, PureOps, CallOps, LoadOps, ArithOps, ImmOps, CmpOps
    <3> QED
      BY <3>1, WritesAre
  <2> QED
    BY <1>1, <2>1 DEF Wired, LiveWell
<1>10. CASE Guessed(m2)
  BY <1>6, <1>10 DEF Comes
<1>11. CASE goes /\ Arrives(Expects(cx, b, t), m2, f, cx.live[pc], n.label[t])
  <2>1. NextPc(i, pc, f) = t
    <3>1. i[1] \notin ForOps
      BY DEF ForOps, JumpOps, ImmJumps, RegJumps, NoneJumps
    <3> QED
      BY <1>3a, <1>11, <3>1 DEF NextPc, Target
  <2>2. cx.live[t] \subseteq cx.live[pc]
    <3>1. t \in Successors(c, pc)
      BY DEF Successors, OpAt
    <3> QED
      BY <1>9, <3>1
  <2>3. AlikeFor(f, f, cx.live[t])
    BY AlikeItself
  <2>4. Aside(cx, pc, t)
    OBVIOUS
  <2> HIDE DEF t
  <2>5. t = End(c) \/ Reached(cx, c, E, t, m2, f)
    BY <1>2, <1>8, <1>11, <2>2, <2>3, <2>4, LandsAt
  <2> QED
    BY <1>6, <2>1, <2>5 DEF Comes
<1>12. CASE ~goes /\ Sim(b, m2, f, cx.live[pc])
  <2> DEFINE u == pc + 1
  <2>1. NextPc(i, pc, f) = u /\ i[1] # "JUMP"
    <3>1. i[1] # "JUMP"
      BY <1>3a, <1>12, TakenFacts
    <3> QED
      BY <1>3a, <1>12, <3>1 DEF NextPc
  <2>2. cx.live[u] \subseteq cx.live[pc] /\ u \notin cx.snap
    <3>1. i[1] \notin {"JUMP"} \cup ReturnOps
      BY <2>1 DEF ReturnOps, JumpOps, ImmJumps, RegJumps, NoneJumps
    <3>2. u \in Successors(c, pc)
      BY <3>1 DEF Successors, OpAt
    <3>3. OpAt(c, pc) \notin Stops
      BY <3>1 DEF OpAt, Stops
    <3> QED
      BY <1>1, <1>9, <3>2, <3>3, WiredFacts
  <2>3. AlikeFor(f, f, cx.live[u])
    BY AlikeItself
  <2>4. u = E[k + 1].pc
    BY <1>7
  <2> HIDE DEF u
  <2>5. u = End(c) \/ Reached(cx, c, E, u, m2, f)
    BY <1>2, <1>12, <2>2, <2>3, <2>4, FallsOn
  <2> QED
    BY <1>6, <2>1, <2>5 DEF Comes
<1> QED
  BY <1>6, <1>10, <1>11, <1>12

-------------------------------------------------------------------------------
\* It has come to return v.
Ends(n, m, v, out) == \E m2 : Gets(n, m, m2) /\ (Guessed(m2) \/ HasReturned(m2, v, out))

LEMMA ReturnsNow ==
  ASSUME NEW cx, NEW c, NEW E, NEW n, Laid(cx, c, E, n), NEW pc \in Body(c), NEW k, TurnAt(E, c, k, pc),
         NEW i, i = At(c, pc), i[1] \in ReturnOps,
         NEW f, Is(f, Slots), NEW m, Sim(AtLabel(cx, E[k]), m, f, cx.live[pc])
  PROVE  Ends(n, m, Returned(i, f.regs), f.out)
<1>0. Wired(cx, c)
  BY DEF Laid, Course
<1>1. IsSeq(n.ops) /\ n.kind = cx.kind
  BY TurnLaid
<1>2. PICK a, b : /\ Turns(cx, c, E[k], a, b, E[k + 1]) /\ a = AtLabel(cx, E[k]) /\ a.pc = pc
                  /\ b = Turned(cx, a, At(c, pc)) /\ OnItsWay(cx, a) /\ IsEmitter(a)
                  /\ Moved(b, E[k + 1]) /\ HasOps(n, b.ops) /\ b.flaws = {}
  BY TurnPlaced
<1>3. GivesBack(n, a, b, f, cx.live[pc], Returned(i, f.regs))
  <2>1. a.pc \in Body(c) /\ i = At(c, a.pc) /\ b = Turned(cx, a, i)
    BY <1>2
  <2> QED
    BY <1>0, <1>1, <1>2, <2>1, TurnedReturns
<1> QED
  BY <1>2, <1>3 DEF GivesBack, Ends

\* A comparison fused with the JUMP_IF_FALSE behind it.
LEMMA FusedOn ==
  ASSUME NEW cx, NEW c, NEW E, NEW n, Laid(cx, c, E, n), NEW pc \in Body(c), NEW k, TurnAt(E, c, k, pc),
         NEW i, i = At(c, pc), Fuses(cx, pc), NEW i2, i2 = At(c, pc + 1),
         NEW f, Is(f, Slots), NEW m, Sim(AtLabel(cx, E[k]), m, f, cx.live[pc]),
         NEW f2, f2 = Effect(i, f)
  PROVE  Comes(cx, c, E, n, NextPc(i2, pc + 1, f2), m, f2)
<1>0. Wired(cx, c)
  BY DEF Laid, Course
<1>1. Wired(cx, c) /\ Closed(c) /\ IsSeq(n.ops) /\ cx.code = c
  <2>1. IsSeq(n.ops)
    BY TurnLaid
  <2> QED
    BY <1>0, <2>1 DEF Wired
<1>2. PICK a, b : /\ Turns(cx, c, E[k], a, b, E[k + 1]) /\ a = AtLabel(cx, E[k]) /\ a.pc = pc
                  /\ b = Turned(cx, a, At(c, pc)) /\ OnItsWay(cx, a) /\ IsEmitter(a)
                  /\ Moved(b, E[k + 1]) /\ HasOps(n, b.ops) /\ b.flaws = {}
  BY TurnPlaced
<1>3. /\ i[1] \in CmpOps /\ pc + 1 \in Body(c) /\ pc + 1 \in SeenJumps(c)
      /\ i2[1] = "JUMP_IF_FALSE" /\ i2[3] = i[2]
  BY <1>1, FusesFacts DEF OpAt
<1> DEFINE goes == NotTruthy(ValueOf(i, f.regs))
           t == i2[2]
           u == pc + 2
<1>4. goes \in BOOLEAN
  BY DEF NotTruthy
<1>4a. goes = NotTruthy(ValueOf(i, f.regs))
  OBVIOUS
<1> HIDE DEF goes
<1>5. FusedRight(n, cx, a, b, i, t, f, goes)
  <2>1. a.pc \in Body(c) /\ i = At(c, a.pc) /\ b = Turned(cx, a, i) /\ Fuses(cx, a.pc)
        /\ t = At(c, a.pc + 1)[2]
    BY <1>2
  <2> HIDE DEF t
  <2> QED
    BY <1>1, <1>2, <1>4, <1>4a, <2>1, TurnedFused
<1>6. /\ i[2] \notin cx.live[u] /\ i[2] \notin cx.live[t]
      /\ Branches(n, cx, a, b, t, f, cx.live[pc], goes)
  BY <1>2, <1>5 DEF FusedRight
<1>7. PICK m2 : /\ Gets(n, m, m2)
                /\ \/ Guessed(m2)
                   \/ goes /\ Arrives(Expects(cx, b, t), m2, f, cx.live[pc], n.label[t])
                   \/ ~goes /\ Sim(b, m2, f, cx.live[pc])
  BY <1>2, <1>6 DEF Branches, Branched
<1>8. Wrote(f, f2, i[2], ValueOf(i, f.regs)) /\ f.regs = [s \in Slots |-> f.regs[s]] /\ i[2] \in Slots
  <2>1. Around(n, cx, a, i, f)
    <3>1. a.pc \in Body(c) /\ i = At(c, a.pc)
      BY <1>2
    <3> QED
      BY <1>1, <1>2, <3>1, AroundHere
  <2>2. i[1] \in PureOps
    BY <1>3 DEF PureOps
  <2> QED
    BY <2>1, <2>2, PureAround
<1>9. goes = Taken(i2, f2)
  <2>1. f2.regs[i2[3]] = ValueOf(i, f.regs)
    BY <1>3, <1>8 DEF Wrote
  <2>2. Taken(i2, f2) = NotTruthy(f2.regs[i2[3]])
    BY <1>3, TakenFacts
  <2> QED
    BY <1>4a, <2>1, <2>2
<1>10. \A S \in SUBSET Slots : i[2] \notin S => AlikeFor(f, f2, S)
  BY <1>8 DEF Wrote, AlikeFor
<1>11. \A v \in Successors(c, pc + 1) : i[2] \notin cx.live[v] =>
          cx.live[v] \subseteq cx.live[pc] /\ cx.live[v] \subseteq Slots
  <2>1. Writes(i2) = {}
    <3>1. ~(i2[1] \in PureOps \cup CallOps)
      BY <1>3 DEF PureOps, CallOps, LoadOps, ArithOps, ImmOps, CmpOps
    <3> QED
      BY <3>1, WritesAre
  <2>2. Writes(i) = {i[2]}
    <3>1. i[1] \in PureOps \cup CallOps
      BY <1>3 DEF PureOps
    <3> QED
      BY <3>1, WritesAre
  <2>3. pc + 1 \in Successors(c, pc)
    <3>1. OpAt(c, pc) \notin {"JUMP"} \cup ReturnOps
      BY <1>3 DEF OpAt, CmpOps, ReturnOps
    <3> QED
      BY <3>1 DEF Successors
  <2>4. cx.live[pc + 1] \subseteq cx.live[pc] \cup {i[2]}
    BY <1>1, <2>2, <2>3 DEF Wired, LiveWell
  <2>5. \A v \in Successors(c, pc + 1) : cx.live[v] \subseteq cx.live[pc + 1]
    BY <1>1, <1>3, <2>1 DEF Wired, LiveWell
  <2>6. \A v \in Successors(c, pc + 1) : cx.live[v] \subseteq Slots
    BY <1>1, <1>3, BodyFacts DEF Wired
  <2> QED
    BY <2>4, <2>5, <2>6
<1>12. t \in Successors(c, pc + 1) /\ u \in Successors(c, pc + 1)
  <2>1. OpAt(c, pc + 1) = "JUMP_IF_FALSE" /\ At(c, pc + 1)[2] = t
    BY <1>3 DEF OpAt
  <2>2. OpAt(c, pc + 1) \in JumpOps /\ OpAt(c, pc + 1) \notin {"JUMP"} \cup ReturnOps
    BY <2>1 DEF JumpOps, ReturnOps
  <2>3. (pc + 1) + 1 = u
    BY DEF Body
  <2> HIDE DEF t, u
  <2> QED
    BY <2>1, <2>2, <2>3 DEF Successors
<1>13. E[k + 1].pc = u
  <2>1. E[k].pc = pc
    BY DEF TurnAt
  <2> QED
    BY <1>2, <2>1 DEF Turns, NextAt
<1>14. CASE Guessed(m2)
  BY <1>7, <1>14 DEF Comes
<1>15. CASE goes /\ Arrives(Expects(cx, b, t), m2, f, cx.live[pc], n.label[t])
  <2>1. NextPc(i2, pc + 1, f2) = t
    <3>1. i2[1] \notin ForOps
      BY <1>3 DEF ForOps
    <3> QED
      BY <1>9, <1>15, <3>1 DEF NextPc, Target
  <2>2. t \in Targets(cx, c, pc) /\ Expected(cx, t)
    <3>1. OpAt(c, pc + 1) \in JumpOps
      BY <1>3 DEF OpAt, JumpOps
    <3>2. t \in Targets(cx, c, pc)
      BY <3>1 DEF Targets, JumpAt
    <3> QED
      BY <1>1, <1>3, <3>2, WiredFacts
  <2>3. Aside(cx, pc, t)
    <3>1. OpAt(c, pc + 1) \in JumpOps \ {"JUMP"}
      BY <1>3 DEF OpAt, JumpOps
    <3>2. At(c, pc + 1)[2] # pc + 1
      BY <1>1, <1>3, <3>1 DEF Wired, Regular
    <3> QED
      BY <3>2 DEF Aside, JumpAt
  <2>4. AlikeFor(f, f2, cx.live[t]) /\ cx.live[t] \subseteq cx.live[pc]
    BY <1>6, <1>10, <1>11, <1>12
  <2> HIDE DEF t
  <2>5. t = End(c) \/ Reached(cx, c, E, t, m2, f2)
    BY <1>2, <1>15, <2>2, <2>3, <2>4, LandsAt
  <2> QED
    BY <1>7, <2>1, <2>5 DEF Comes
<1>16. CASE ~goes /\ Sim(b, m2, f, cx.live[pc])
  <2>1. NextPc(i2, pc + 1, f2) = u
    <3>1. (pc + 1) + 1 = u
      BY DEF Body
    <3> HIDE DEF u
    <3> QED
      BY <1>9, <1>16, <3>1 DEF NextPc
  <2>2. u \notin cx.snap
    <3>1. OpAt(c, pc + 1) \notin Stops
      BY <1>3 DEF OpAt, Stops, ReturnOps
    <3>2. (pc + 1) + 1 = u
      BY DEF Body
    <3> QED
      BY <1>1, <1>3, <3>1, <3>2, WiredFacts
  <2>3. AlikeFor(f, f2, cx.live[u]) /\ cx.live[u] \subseteq cx.live[pc]
    BY <1>6, <1>10, <1>11, <1>12
  <2> HIDE DEF u
  <2>4. u = End(c) \/ Reached(cx, c, E, u, m2, f2)
    BY <1>2, <1>13, <1>16, <2>2, <2>3, FallsOn
  <2> QED
    BY <1>7, <2>1, <2>4 DEF Comes
<1> QED
  BY <1>7, <1>14, <1>15, <1>16

-------------------------------------------------------------------------------
(* The interpreter, step by step.                                           *)
\* What an instruction writes is a value.
LEMMA WrittenIs ==
  ASSUME NEW r \in [Slots -> Value], NEW i \in Instruction, i[1] \in PureOps, Reads(i) \subseteq Slots
  PROVE  ValueOf(i, r) \in Value
<1>1. /\ None \in Value /\ \A k \in Int : Num(k) \in Value
      /\ \A b \in BOOLEAN : Bool(b) \in Value
  BY DEF Value
<1>2. i[3] \in Int /\ i[4] \in Int /\ \A s \in Reads(i) : r[s] \in Value
  BY TupleFacts
<1>3. CASE i[1] = "MOVE"
  <2>1. r[i[3]] \in Value
    BY <1>2, <1>3, ReadsAre
  <2> QED
    BY <1>3, <2>1, ValueFacts
<1>4. CASE i[1] \in LoadOps
  <2>1. CASE i[1] \in {"LOAD_NUM_IMM", "LOAD_NUM"}
    BY <1>1, <1>2, <2>1, ValueFacts
  <2>2. CASE i[1] = "LOAD_BOOL"
    <3>1. ValueOf(i, r) = Bool(i[3] = 1) /\ (i[3] = 1) \in BOOLEAN
      BY <2>2, ValueFacts
    <3> QED
      BY <1>1, <3>1
  <2>3. CASE i[1] = "LOAD_NONE"
    BY <1>1, <2>3, ValueFacts
  <2> QED
    BY <1>4, <2>1, <2>2, <2>3 DEF LoadOps
<1>5. CASE i[1] \in ArithOps
  <2>1. r[i[3]] \in Value /\ r[i[4]] \in Value
    BY <1>2, <1>5, ReadsAre
  <2> QED
    BY <1>5, <2>1, ValueFacts, ArithIsValue
<1>6. CASE i[1] \in ImmOps
  <2>1. r[i[3]] \in Value
    BY <1>2, <1>6, ReadsAre
  <2> QED
    BY <1>1, <1>2, <1>6, <2>1, ValueFacts, ArithIsValue
<1>7. CASE i[1] = "NEG"
  <2>1. r[i[3]] \in Value
    BY <1>2, <1>7, ReadsAre
  <2>2. "SUB" \in ArithOps
    BY DEF ArithOps
  <2> QED
    BY <1>1, <1>7, <2>1, <2>2, ValueFacts, ArithIsValue
<1>8. CASE i[1] \in {"INC", "DEC"}
  <2>1. r[i[2]] \in Value
    BY <1>2, <1>8, ReadsAre
  <2>2. "SUB" \in ArithOps /\ "ADD" \in ArithOps
    BY DEF ArithOps
  <2> QED
    BY <1>1, <1>8, <2>1, <2>2, ValueFacts, ArithIsValue
<1>9. CASE i[1] \in CmpOps
  <2>1. ValueOf(i, r) = Bool(Holds(CmpRel(i[1]), r[i[3]], r[i[4]]))
    BY <1>9, ValueFacts
  <2>2. \A rel, v, w : Holds(rel, v, w) \in BOOLEAN
    BY HoldsIsBoolean
  <2> QED
    BY <1>1, <2>1, <2>2
<1> QED
  BY <1>3, <1>4, <1>5, <1>6, <1>7, <1>8, <1>9 DEF PureOps

\* A frame stays one.
LEMMA FrameKept ==
  ASSUME NEW i \in Instruction, i[1] \in Going \cup JumpOps \cup ReturnOps,
         Reads(i) \cup Writes(i) \subseteq Slots, NEW f, Is(f, Slots)
  PROVE  Is(Effect(i, f), Slots)
<1> DEFINE r == f.regs
<1>1. r \in [Slots -> Value]
  BY DEF Is
<1>2. CASE i[1] \in PureOps
  <2> DEFINE v == ValueOf(i, r)
             regs == [r EXCEPT ![i[2]] = v]
  <2>1. v \in Value
    BY <1>1, <1>2, WrittenIs
  <2> HIDE DEF v
  <2>2. regs \in [Slots -> Value]
    BY <1>1, <2>1
  <2>3. Effect(i, f) = Write(f, i[2], v)
    BY <1>2, PureFacts DEF v
  <2>4. Effect(i, f) = [regs |-> regs, args |-> f.args, iters |-> f.iters, out |-> f.out, value |-> f.value]
    BY <2>3, WriteForm
  <2> HIDE DEF regs
  <2> QED
    BY <2>2, <2>4 DEF Is
<1>3. CASE i[1] \in {"CALL_1", "CALL_2"}
  <2> DEFINE s == Passed(i, r)
             v == CallResult(s)
             out == Append(f.out, <<"call", s>>)
             regs == [r EXCEPT ![i[2]] = v]
  <2>1. r[i[4]] \in Value
    <3>1. i[4] \in Reads(i)
      BY <1>3, ReadsAre
    <3> QED
      BY <1>1, <3>1
  <2>2. s[1] = r[i[4]]
    BY <1>3 DEF Passed
  <2>3. Num(10) \in Value /\ "ADD" \in ArithOps
    BY DEF Value, ArithOps
  <2> HIDE DEF s
  <2>4. v \in Value
    BY <2>1, <2>2, <2>3, ArithIsValue DEF CallResult
  <2> HIDE DEF v
  <2>5. regs \in [Slots -> Value]
    BY <1>1, <2>4
  <2>6. Effect(i, f) = [regs |-> regs, args |-> f.args, iters |-> f.iters, out |-> out, value |-> f.value]
    BY <1>3, UserForm DEF s, v
  <2> HIDE DEF regs, out
  <2> QED
    BY <2>5, <2>6 DEF Is
<1>4. CASE i[1] = "CALL_BUILTIN"
  <2> DEFINE regs == [r EXCEPT ![i[2]] = None]
             out == Append(f.out, <<"out", f.args>>)
             none == <<>>
  <2>1. regs \in [Slots -> Value]
    BY <1>1 DEF Value
  <2>2. Effect(i, f) = [regs |-> regs, args |-> none, iters |-> f.iters, out |-> out, value |-> f.value]
    BY <1>4, BuiltinForm
  <2> HIDE DEF regs, out, none
  <2> QED
    BY <2>1, <2>2 DEF Is
<1>5. CASE i[1] = "PUSH_ARG"
  <2> DEFINE args == Append(f.args, r[i[2]])
  <2>1. Effect(i, f) = [regs |-> r, args |-> args, iters |-> f.iters, out |-> f.out, value |-> f.value]
    BY <1>5, PushForm
  <2> HIDE DEF args, r
  <2> QED
    BY <1>1, <2>1 DEF Is
<1>6. CASE i[1] \in JumpOps
  <2>1. Effect(i, f) = f
    BY <1>6 DEF Effect
  <2> QED
    BY <2>1
<1>7. CASE i[1] \in ReturnOps
  <2> DEFINE v == Returned(i, r)
  <2>1. ~(i[1] \in JumpOps) /\ ~(i[1] \in ForOps) /\ ~(i[1] \in CallOps)
    BY <1>7 DEF JumpOps, ImmJumps, RegJumps, NoneJumps, ForOps, CallOps, ReturnOps
  <2>2. Effect(i, f) = [f EXCEPT !.value = v]
    BY <1>7, <2>1, Zenon DEF Effect
  <2> HIDE DEF v
  <2>3. Effect(i, f) = [regs |-> f.regs, args |-> f.args, iters |-> f.iters, out |-> f.out, value |-> v]
    BY <2>2 DEF Is
  <2> QED
    BY <1>1, <2>3 DEF Is
<1> QED
  BY <1>2, <1>3, <1>4, <1>5, <1>6, <1>7 DEF Going, CallOps

\* Where it goes from an instruction, and whether it ends.
Goon(i, pc, f) == NextPc(i, pc, f) = pc + 1 /\ EndedBy(i, f) = ""

LEMMA StraightOn ==
  ASSUME NEW i, i[1] \in Going, NEW pc, NEW f
  PROVE  Goon(i, pc, f)
<1>1. /\ i[1] \notin ReturnOps /\ i[1] \notin ForOps /\ i[1] \notin RegJumps /\ i[1] \notin ImmJumps
      /\ i[1] \notin {"JUMP", "JUMP_IF_FALSE", "JUMP_IF_NONE", "JUMP_IF_NOT_NONE", "FOR_NEXT", "FOR_NEXT_LOOP"}
  BY DEF Going, PureOps, CallOps, LoadOps, ArithOps, ImmOps, CmpOps, ReturnOps, ForOps, RegJumps, ImmJumps
<1>2. EndedBy(i, f) = ""
  BY <1>1 DEF EndedBy
<1>3. ~Taken(i, f)
  BY <1>1, Zenon DEF Taken
<1> QED
  BY <1>2, <1>3 DEF Goon, NextPc

-------------------------------------------------------------------------------
\* One step of the interpreter.
LEMMA AdvanceIs ==
  ASSUME NEW c, Closed(c), NEW M, Running(M), M.pc \in Body(c), NEW i, i = At(c, M.pc),
         NEW M2, M2 = Advance(c, M)
  PROVE  /\ M2.pc = NextPc(i, M.pc, M.frame) /\ M2.frame = Effect(i, M.frame)
         /\ M2.end = EndedBy(i, M.frame)
<1>1. InCode(c, M.pc)
  BY BodyFacts DEF InCode, Body, End
<1>2. M2 = Step(c, M)
  BY <1>1, Zenon DEF Advance, Running
<1>3. c[M.pc + 1] = i
  BY DEF At
<1>4. M2 = [pc |-> NextPc(i, M.pc, M.frame), end |-> EndedBy(i, M.frame), frame |-> Effect(i, M.frame)]
  BY <1>2, <1>3, Zenon DEF Step
<1> QED
  BY <1>4

LEMMA AdvanceNot ==
  ASSUME NEW c, Closed(c), NEW M, ~Running(M) \/ M.pc = End(c)
  PROVE  Advance(c, M) = M
<1>1. CASE ~Running(M)
  BY <1>1, Zenon DEF Advance, Running
<1>2. CASE M.pc = End(c)
  <2>1. ~InCode(c, M.pc)
    BY <1>2, BodyFacts DEF InCode, End
  <2> QED
    BY <2>1, Zenon DEF Advance
<1> QED
  BY <1>1, <1>2

\* A JUMP to itself.
Stuck(c, pc) == pc \in Body(c) /\ OpAt(c, pc) = "JUMP" /\ At(c, pc)[2] = pc

\* Between the two instructions that have been emitted as one.
Halfway(cx, c, E, pc, m, f2) ==
  \E q \in Body(c) : \E f : /\ pc = q + 1 /\ Fuses(cx, q) /\ Is(f, Slots)
                            /\ Reached(cx, c, E, q, m, f) /\ f2 = Effect(At(c, q), f)

\* The native code, started at m0, comes to where the interpreter is at M.
Begot(n, m0, M) == \E m : Gets(n, m0, m) /\ HasReturned(m, M.frame.value, M.frame.out)
Tracks(cx, c, E, n, m0, M) ==
  \/ \E m : Gets(n, m0, m) /\ Guessed(m)
  \/ /\ Running(M)
     /\ \/ M.pc = End(c)
        \/ Stuck(c, M.pc)
        \/ Is(M.frame, Slots) /\ \E m : Gets(n, m0, m) /\ Reached(cx, c, E, M.pc, m, M.frame)
        \/ Is(M.frame, Slots) /\ \E m : Gets(n, m0, m) /\ Halfway(cx, c, E, M.pc, m, M.frame)
  \/ ~Running(M) /\ Begot(n, m0, M)

LEMMA ComesTracks ==
  ASSUME NEW cx, NEW c, NEW E, NEW n, NEW m0, NEW m, Gets(n, m0, m), NEW M, Running(M), Is(M.frame, Slots),
         Comes(cx, c, E, n, M.pc, m, M.frame)
  PROVE  Tracks(cx, c, E, n, m0, M)
<1>1. PICK m2 : Gets(n, m, m2) /\ (Guessed(m2) \/ M.pc = End(c) \/ Reached(cx, c, E, M.pc, m2, M.frame))
  BY DEF Comes
<1>2. Gets(n, m0, m2)
  BY <1>1, GetsOn
<1> QED
  BY <1>1, <1>2 DEF Tracks

\* What else there is to know of an instruction of the body.
LEMMA BodyInstruction ==
  ASSUME NEW c \in Seq(Instruction), Closed(c), Regular(c), NEW pc \in Body(c), NEW i, i = At(c, pc)
  PROVE  /\ i \in Instruction /\ i[1] \in Going \cup JumpOps \cup ReturnOps
         /\ Reads(i) \cup Writes(i) \subseteq Slots
         /\ i[1] \in JumpOps \ {"JUMP"} => i[2] # pc
<1>1. pc + 1 \in 1 .. Len(c)
  BY BodyFacts DEF End
<1>2. i \in Instruction
  BY <1>1 DEF At
<1>3. i[1] \in Going \cup JumpOps \cup ReturnOps
  BY IsHandled DEF Handled, OpAt
<1> QED
  BY <1>2, <1>3 DEF Regular, OpAt

\* A jump leaves the frame as it is and does not end.
LEMMA JumpFrame ==
  ASSUME NEW i, i[1] \in JumpOps, NEW f
  PROVE  Effect(i, f) = f /\ EndedBy(i, f) = ""
<1>1. i[1] \notin ReturnOps /\ i[1] \notin ForOps
  BY DEF JumpOps, ImmJumps, RegJumps, NoneJumps, ReturnOps, ForOps
<1> QED
  BY <1>1 DEF Effect, EndedBy

LEMMA ReturnFrame ==
  ASSUME NEW i, i[1] \in ReturnOps, NEW f, Is(f, Slots), NEW g, g = Effect(i, f)
  PROVE  g.value = Returned(i, f.regs) /\ g.out = f.out /\ EndedBy(i, f) = "returned"
<1> DEFINE v == Returned(i, f.regs)
<1>1. ~(i[1] \in JumpOps) /\ ~(i[1] \in ForOps) /\ ~(i[1] \in CallOps)
  BY DEF JumpOps, ImmJumps, RegJumps, NoneJumps, ForOps, CallOps, ReturnOps
<1>2. g = [f EXCEPT !.value = v]
  BY <1>1, Zenon DEF Effect
<1> HIDE DEF v
<1>3. g.value = v /\ g.out = f.out
  BY <1>2 DEF Is
<1>4. EndedBy(i, f) = "returned"
  BY DEF EndedBy
<1> QED
  BY <1>3, <1>4 DEF v

-------------------------------------------------------------------------------
\* The interpreter steps where a turn began.
LEMMA TracksReached ==
  ASSUME NEW cx, NEW c \in Seq(Instruction), NEW E, NEW n, Laid(cx, c, E, n), NEW m0, NEW m, Gets(n, m0, m),
         NEW M, Running(M), Is(M.frame, Slots), M.pc \in Body(c), ~Stuck(c, M.pc),
         Reached(cx, c, E, M.pc, m, M.frame), NEW M2, M2 = Advance(c, M)
  PROVE  Tracks(cx, c, E, n, m0, M2)
<1> DEFINE pc == M.pc
           f == M.frame
           i == At(c, pc)
<1>0. Wired(cx, c)
  BY DEF Laid, Course
<1>1. Closed(c) /\ Regular(c)
  BY <1>0 DEF Wired
<1>2. PICK k : TurnAt(E, c, k, pc) /\ Sim(AtLabel(cx, E[k]), m, f, cx.live[pc])
  BY DEF Reached
<1>3. M2.pc = NextPc(i, pc, f) /\ M2.frame = Effect(i, f) /\ M2.end = EndedBy(i, f)
  BY <1>1, AdvanceIs
<1>4. /\ i \in Instruction /\ i[1] \in Going \cup JumpOps \cup ReturnOps
      /\ Reads(i) \cup Writes(i) \subseteq Slots
      /\ i[1] \in JumpOps \ {"JUMP"} => i[2] # pc
  BY <1>1, BodyInstruction
<1>5. Is(Effect(i, f), Slots)
  BY <1>4, FrameKept
<1>6. Is(f, Slots) /\ pc \in Body(c)
  OBVIOUS
<1>6a. i = At(c, pc)
  OBVIOUS
<1> DEFINE f2 == Effect(i, f)
<1>6b. f2 = Effect(i, f)
  OBVIOUS
<1> HIDE DEF i, f2
<1>7. CASE i[1] \in Going /\ ~Fuses(cx, pc)
  <2>1. Comes(cx, c, E, n, pc + 1, m, f2)
    BY <1>2, <1>6, <1>6a, <1>6b, <1>7, GoesOn
  <2>2. Goon(i, pc, f)
    BY <1>7, StraightOn
  <2>3. M2.pc = pc + 1 /\ M2.frame = f2 /\ Running(M2)
    BY <1>3, <1>6b, <2>2, Zenon DEF Goon, Running
  <2>4. Comes(cx, c, E, n, M2.pc, m, M2.frame) /\ Is(M2.frame, Slots)
    BY <1>5, <1>6b, <2>1, <2>3
  <2> QED
    BY <2>3, <2>4, ComesTracks
<1>8. CASE Fuses(cx, pc)
  <2>1. i[1] \in Going
    <3>1. i[1] \in CmpOps
      BY <1>0, <1>6, <1>6a, <1>8, FusesFacts DEF OpAt
    <3> QED
      BY <3>1 DEF Going, PureOps
  <2>2. Goon(i, pc, f)
    BY <2>1, StraightOn
  <2>3. M2.pc = pc + 1 /\ M2.frame = f2 /\ Running(M2)
    BY <1>3, <1>6b, <2>2, Zenon DEF Goon, Running
  <2>4. f2 = Effect(At(c, pc), f) /\ Reached(cx, c, E, pc, m, f)
    BY <1>6a, <1>6b
  <2> HIDE DEF pc, f
  <2>5. Halfway(cx, c, E, M2.pc, m, M2.frame)
    BY <1>6, <1>8, <2>3, <2>4 DEF Halfway
  <2>6. Is(M2.frame, Slots)
    BY <1>5, <1>6b, <2>3
  <2> QED
    BY <2>3, <2>5, <2>6 DEF Tracks
<1>9. CASE i[1] \in JumpOps
  <2>1. ~Fuses(cx, pc)
    <3> DEFINE a == [pc |-> pc]
    <3>1. a.pc = pc
      OBVIOUS
    <3> HIDE DEF a
    <3>2. a.pc \in Body(c) /\ i = At(c, a.pc) /\ i[1] \in JumpOps \cup ReturnOps
      BY <1>6, <1>6a, <1>9, <3>1
    <3>3. ~Fuses(cx, a.pc)
      BY <1>0, <3>2, TurnedAlone
    <3> QED
      BY <3>1, <3>3
  <2>2. i[2] # pc
    BY <1>4, <1>6, <1>6a, <1>9 DEF Stuck, OpAt
  <2>3. Aside(cx, pc, i[2])
    BY <2>1, <2>2 DEF Aside, JumpAt
  <2>4. Comes(cx, c, E, n, NextPc(i, pc, f), m, f)
    BY <1>2, <1>6, <1>6a, <1>9, <2>3, JumpsOn
  <2>5. Effect(i, f) = f /\ EndedBy(i, f) = ""
    BY <1>9, JumpFrame
  <2>6. M2.pc = NextPc(i, pc, f) /\ M2.frame = f /\ Running(M2)
    BY <1>3, <2>5, Zenon DEF Running
  <2>7. Comes(cx, c, E, n, M2.pc, m, M2.frame) /\ Is(M2.frame, Slots)
    BY <1>6, <2>4, <2>6
  <2> QED
    BY <2>6, <2>7, ComesTracks
<1>10. CASE i[1] \in ReturnOps
  <2>1. Ends(n, m, Returned(i, f.regs), f.out)
    BY <1>2, <1>6, <1>6a, <1>10, ReturnsNow
  <2>2. f2.value = Returned(i, f.regs) /\ f2.out = f.out /\ EndedBy(i, f) = "returned"
    BY <1>6, <1>6b, <1>10, ReturnFrame
  <2>3. ~Running(M2)
    BY <1>3, <2>2 DEF Running
  <2>4. PICK m2 : Gets(n, m, m2) /\ (Guessed(m2) \/ HasReturned(m2, Returned(i, f.regs), f.out))
    BY <2>1 DEF Ends
  <2>5. Gets(n, m0, m2)
    BY <2>4, GetsOn
  <2>6. M2.frame.value = Returned(i, f.regs) /\ M2.frame.out = f.out
    BY <1>3, <1>6b, <2>2
  <2> QED
    BY <2>3, <2>4, <2>5, <2>6 DEF Tracks, Begot
<1> QED
  BY <1>4, <1>7, <1>8, <1>9, <1>10

\* It steps between two instructions emitted as one.
LEMMA TracksHalfway ==
  ASSUME NEW cx, NEW c \in Seq(Instruction), NEW E, NEW n, Laid(cx, c, E, n), NEW m0, NEW m, Gets(n, m0, m),
         NEW M, Running(M), Is(M.frame, Slots), Halfway(cx, c, E, M.pc, m, M.frame),
         NEW M2, M2 = Advance(c, M)
  PROVE  Tracks(cx, c, E, n, m0, M2)
<1>0. Wired(cx, c)
  BY DEF Laid, Course
<1>1. Closed(c)
  BY <1>0 DEF Wired
<1>a. PICK q \in Body(c) : \E f : /\ M.pc = q + 1 /\ Fuses(cx, q) /\ Is(f, Slots)
                                  /\ Reached(cx, c, E, q, m, f) /\ M.frame = Effect(At(c, q), f)
  BY DEF Halfway
<1>2. PICK f : /\ M.pc = q + 1 /\ Fuses(cx, q) /\ Is(f, Slots)
               /\ Reached(cx, c, E, q, m, f) /\ M.frame = Effect(At(c, q), f)
  BY <1>a
<1>3. PICK k : TurnAt(E, c, k, q) /\ Sim(AtLabel(cx, E[k]), m, f, cx.live[q])
  BY <1>2 DEF Reached
<1> DEFINE i2 == At(c, q + 1)
           f2 == M.frame
<1>4. q + 1 \in Body(c) /\ i2[1] = "JUMP_IF_FALSE"
  BY <1>0, <1>2, FusesFacts DEF OpAt
<1>5. Comes(cx, c, E, n, NextPc(i2, q + 1, f2), m, f2)
  BY <1>2, <1>3, FusedOn
<1>6. M2.pc = NextPc(i2, q + 1, f2) /\ M2.frame = Effect(i2, f2) /\ M2.end = EndedBy(i2, f2)
  BY <1>1, <1>2, <1>4, AdvanceIs
<1>7. Effect(i2, f2) = f2 /\ EndedBy(i2, f2) = ""
  <2>1. i2[1] \in JumpOps
    BY <1>4 DEF JumpOps
  <2> HIDE DEF i2, f2
  <2> QED
    BY <2>1, JumpFrame
<1>8. M2.pc = NextPc(i2, q + 1, f2) /\ M2.frame = f2 /\ Running(M2)
  BY <1>6, <1>7, Zenon DEF Running
<1>9. Comes(cx, c, E, n, M2.pc, m, M2.frame) /\ Is(M2.frame, Slots)
  BY <1>5, <1>8
<1> QED
  BY <1>8, <1>9, ComesTracks

\* x86_64_emit_function: the interpreter goes on by one instruction and the
\* machine code keeps up.  It comes to where the interpreter is, with the same
\* arguments and calls and every live slot the same; or the interpreter is
\* halfway between two instructions emitted as one, at the end of the code or
\* caught in a JUMP to itself; or the machine took a value for one of another
\* kind.
THEOREM StepCorrect ==
  ASSUME NEW cx, NEW c \in Seq(Instruction), NEW E, NEW n, Laid(cx, c, E, n), NEW m0,
         NEW M, Tracks(cx, c, E, n, m0, M), NEW M2, M2 = Advance(c, M)
  PROVE  Tracks(cx, c, E, n, m0, M2)
<1>0. Wired(cx, c)
  BY DEF Laid, Course
<1>1. Closed(c)
  BY <1>0 DEF Wired
<1>2. CASE \E m : Gets(n, m0, m) /\ Guessed(m)
  BY <1>2 DEF Tracks
<1>3. CASE ~Running(M) /\ Begot(n, m0, M)
  <2>1. M2 = M
    BY <1>1, <1>3, AdvanceNot
  <2> QED
    BY <1>3, <2>1 DEF Tracks
<1>4. CASE Running(M) /\ M.pc = End(c)
  <2>1. M2 = M
    BY <1>1, <1>4, AdvanceNot
  <2> QED
    BY <1>4, <2>1 DEF Tracks
<1>5. CASE Running(M) /\ Stuck(c, M.pc)
  <2> DEFINE i == At(c, M.pc)
  <2>1. M.pc \in Body(c) /\ i[1] = "JUMP" /\ i[2] = M.pc
    BY <1>5 DEF Stuck, OpAt
  <2>2. M2.pc = NextPc(i, M.pc, M.frame) /\ M2.end = EndedBy(i, M.frame)
    BY <1>1, <1>5, <2>1, AdvanceIs
  <2> HIDE DEF i
  <2>3. i[1] \in JumpOps /\ i[1] \notin ForOps
    BY <2>1 DEF JumpOps, ForOps
  <2>4. EndedBy(i, M.frame) = ""
    BY <2>3, JumpFrame
  <2>5. NextPc(i, M.pc, M.frame) = M.pc
    <3>1. Taken(i, M.frame)
      BY <2>1, TakenFacts
    <3> QED
      BY <2>1, <2>3, <3>1 DEF NextPc, Target
  <2>6. Running(M2) /\ M2.pc = M.pc
    BY <2>2, <2>4, <2>5, Zenon DEF Running
  <2> QED
    BY <1>5, <2>6 DEF Tracks
<1>6. CASE /\ Running(M) /\ M.pc # End(c) /\ ~Stuck(c, M.pc) /\ Is(M.frame, Slots)
           /\ \E m : Gets(n, m0, m) /\ Reached(cx, c, E, M.pc, m, M.frame)
  <2>1. PICK m : Gets(n, m0, m) /\ Reached(cx, c, E, M.pc, m, M.frame)
    BY <1>6
  <2>2. PICK k : TurnAt(E, c, k, M.pc)
    BY <2>1 DEF Reached
  <2>3. M.pc \in 1 .. End(c)
    <3>1. End(c) \in Nat /\ Course(cx, c, E)
      BY <1>1, BodyFacts DEF Laid
    <3> QED
      BY <2>2, <3>1, CourseBegun DEF TurnAt, Begun
  <2>4. M.pc \in Body(c)
    BY <1>1, <1>6, <2>3, BodyFacts
  <2> QED
    BY <1>6, <2>1, <2>4, TracksReached
<1>7. CASE /\ Running(M) /\ Is(M.frame, Slots)
           /\ \E m : Gets(n, m0, m) /\ Halfway(cx, c, E, M.pc, m, M.frame)
  <2>1. PICK m : Gets(n, m0, m) /\ Halfway(cx, c, E, M.pc, m, M.frame)
    BY <1>7
  <2> QED
    BY <1>7, <2>1, TracksHalfway
<1> QED
  BY <1>2, <1>3, <1>4, <1>5, <1>6, <1>7 DEF Tracks

-------------------------------------------------------------------------------
(* How it begins.                                                           *)
LEMMA ContextCourse ==
  ASSUME NEW c \in Seq(Instruction), Closed(c), Regular(c), NEW arity \in Nat, arity <= FrameSize,
         NEW cx, cx = Context(c, arity), NEW n, n = NativeOf(c, arity), n.flaws = {}
  PROVE  \E E : Laid(cx, c, E, n)
<1>1. Wired(cx, c)
  <2>1. Handled(c)
    BY IsHandled
  <2> QED
    BY <2>1, ContextWired
<1>2. cx.code = c /\ cx.arity = arity
  BY ContextIs
<1>3. End(c) \in Nat
  BY BodyFacts
<1>4. PICK E : IsEmission(E, cx, End(c)) /\ EmittedCode(cx) = E[End(c)]
  BY <1>2, <1>3, EmittedCodeIs
<1>5. E[0] = Entry(cx) /\ \A k \in Nat : k < End(c) => E[k + 1] = Turn(cx, E[k])
  <2>1. \A h \in 0 .. End(c) : E[h] = IF h = 0 THEN Entry(cx) ELSE Turn(cx, E[h - 1])
    BY <1>4 DEF IsEmission
  <2>2. E[0] = Entry(cx)
    BY <1>3, <2>1
  <2>3. ASSUME NEW k \in Nat, k < End(c)
        PROVE  E[k + 1] = Turn(cx, E[k])
    <3>1. k + 1 \in 0 .. End(c) /\ k + 1 # 0 /\ (k + 1) - 1 = k
      BY <1>3, <2>3
    <3> QED
      BY <2>1, <3>1
  <2> QED
    BY <2>2, <2>3
<1>6. n = Finished(cx, E[End(c)])
  BY <1>4, Zenon DEF NativeOf, Assembled
<1>8. E[End(c)].flaws = {}
  <2> DEFINE ops == E[End(c)].ops \o AtEnd
             label == [E[End(c)].label EXCEPT ![End(cx.code)] = Len(E[End(c)].ops) + 1]
             unset == cx.live[1] \ (0 .. (cx.arity - 1))
  <2>1. n = [ops |-> ops, label |-> label, kind |-> cx.kind, flaws |-> E[End(c)].flaws, unset |-> unset]
    BY <1>6, Zenon DEF Finished, AtEnd
  <2> HIDE DEF ops, label, unset
  <2> QED
    BY <2>1
<1>9. Course(cx, c, E)
  BY <1>1, <1>2, <1>5, <1>8 DEF Course
<1> QED
  BY <1>6, <1>9 DEF Laid

\* The machine that starts.
LEMMA BootFacts ==
  ASSUME NEW args, NEW m, m = Boot(args)
  PROVE  /\ IsMachine(m) /\ Running(m) /\ m.at = 1 /\ m.args = <<>> /\ m.out = <<>>
         /\ \A x \in Regs : x < Len(args) => m.regs[x] = args[x + 1]
<1> DEFINE regs == [x \in Regs \cup {Scratch} |-> IF x < Len(args) THEN args[x + 1] ELSE Junk]
           frame == [s \in Slots |-> Junk]
           none == <<>>
           ending == ""
<1>1. m = [at |-> 1, regs |-> regs, frame |-> frame, args |-> none, out |-> none, end |-> ending,
           value |-> None, guessed |-> FALSE]
  BY Zenon DEF Boot
<1>2. regs = [x \in Places |-> regs[x]]
  BY DEF Places
<1>3. frame = [s \in Slots |-> frame[s]]
  OBVIOUS
<1>4. \A x \in Regs : x < Len(args) => regs[x] = args[x + 1]
  OBVIOUS
<1> HIDE DEF regs, frame, none, ending
<1>5. /\ m.at = 1 /\ m.regs = regs /\ m.frame = frame /\ m.args = none /\ m.out = none
      /\ m.end = ending
  BY <1>1
<1>6. IsMachine(m)
  BY <1>1, <1>2, <1>3 DEF IsMachine
<1>7. Running(m)
  BY <1>5, Zenon DEF Running, ending
<1> QED
  BY <1>4, <1>5, <1>6, <1>7 DEF none

\* The arguments are in the first slots.
Given(args, regs) == \A s \in Slots : s < Len(args) => regs[s] = args[s + 1]

LEMMA StartFacts ==
  ASSUME NEW regs \in [Slots -> Value], NEW M, M = Start(1, regs)
  PROVE  /\ Running(M) /\ M.pc = 1 /\ Is(M.frame, Slots)
         /\ M.frame.regs = regs /\ M.frame.args = <<>> /\ M.frame.out = <<>>
<1> DEFINE none == <<>>
           ending == ""
           f == [regs |-> regs, args |-> none, iters |-> none, out |-> none, value |-> None]
<1>1. M = [pc |-> 1, end |-> ending, frame |-> f]
  BY Zenon DEF Start
<1> HIDE DEF none, ending
<1>2. f.regs = regs /\ f.args = none /\ f.out = none /\ Is(f, Slots)
  BY DEF Is
<1> HIDE DEF f
<1>3. M.pc = 1 /\ M.end = ending /\ M.frame = f
  BY <1>1
<1>4. Running(M)
  BY <1>3, Zenon DEF Running, ending
<1> QED
  BY <1>2, <1>3, <1>4 DEF none

\* Jumped to from itself alone.
LEMMA StuckAtOnce ==
  ASSUME NEW cx, NEW c, Wired(cx, c), 1 \in cx.snap
  PROVE  Stuck(c, 1)
<1>1. Closed(c) /\ Regular(c) /\ 1 \in Labels(c) /\ \A p \in JumpsTo(c, 1) : ~(p > 1)
  BY DEF Wired
<1>2. PICK p \in SeenJumps(c) : At(c, p)[2] = 1
  BY <1>1 DEF Labels
<1>3. p \in Body(c) /\ OpAt(c, p) \in JumpOps /\ p \in JumpsTo(c, 1)
  BY <1>2 DEF SeenJumps, JumpsTo
<1>4. p = 1
  BY <1>1, <1>3, BodyFacts
<1>5. OpAt(c, 1) = "JUMP"
  BY <1>1, <1>2, <1>3, <1>4 DEF Regular
<1> QED
  BY <1>2, <1>3, <1>4, <1>5 DEF Stuck

LEMMA TracksStart ==
  ASSUME NEW cx, NEW c, NEW E, NEW n, Laid(cx, c, E, n), n.unset = {}, NEW args, cx.arity = Len(args),
         Len(args) <= CacheRegs, NEW regs \in [Slots -> Value], Given(args, regs)
  PROVE  Tracks(cx, c, E, n, Boot(args), Start(1, regs))
<1> DEFINE M == Start(1, regs)
           m == Boot(args)
           e == E[0]
           a == AtLabel(cx, e)
           L == Len(args)
<1>1. Course(cx, c, E) /\ n = Finished(cx, E[End(c)])
  BY DEF Laid
<1>2. Wired(cx, c) /\ L \in Nat /\ L <= FrameSize /\ e = Entry(cx)
  BY <1>1 DEF Course
<1>3. Closed(c) /\ cx.code = c
  BY <1>2 DEF Wired
<1>4. /\ Running(M) /\ M.pc = 1 /\ Is(M.frame, Slots)
      /\ M.frame.regs = regs /\ M.frame.args = <<>> /\ M.frame.out = <<>>
  BY StartFacts
<1>5. /\ IsMachine(m) /\ Running(m) /\ m.at = 1 /\ m.args = <<>> /\ m.out = <<>>
      /\ \A x \in Regs : x < L => m.regs[x] = args[x + 1]
  BY BootFacts
<1>6. EntryIs(cx, e)
  BY <1>1, <1>2, EntryFits DEF Course
<1>7. /\ OnItsWay(cx, e) /\ e.pc = 1 /\ e.ops = <<>>
      /\ e.dirty = {x \in Regs : x < L}
      /\ \A x \in Regs : e.reg[x] = IF x < L THEN x ELSE Empty
  BY <1>6 DEF EntryIs
<1> HIDE DEF M, m, e
<1>8. CASE 1 = End(c)
  BY <1>4, <1>8 DEF Tracks, M
<1>9. CASE 1 \in cx.snap
  <2>1. Stuck(c, M.pc)
    BY <1>2, <1>4, <1>9, StuckAtOnce
  <2> QED
    BY <1>4, <2>1 DEF Tracks, M
<1>10. CASE 1 # End(c) /\ 1 \notin cx.snap
  <2>1. 1 \in Body(c) /\ End(c) \in Nat
    <3>1. End(c) \in Nat /\ End(c) \in 1 .. End(c)
      BY <1>3, BodyFacts
    <3>2. 1 \in 1 .. End(c)
      BY <3>1
    <3> QED
      BY <1>3, <1>10, <3>1, <3>2, BodyFacts
  <2>2. TurnAt(E, c, 0, 1)
    <3>1. End(c) > 0
      BY <2>1 DEF Body
    <3> QED
      BY <1>7, <3>1 DEF TurnAt, e
  <2>3. a.ops = e.ops /\ CacheOf(a) = CacheOf(e)
    <3>1. e.pc \notin cx.snap
      BY <1>7, <1>10
    <3> QED
      BY <1>7, <3>1, AtLabelFacts
  <2> DEFINE S == cx.live[1]
  <2>4. S \subseteq Slots /\ \A s \in S : s \in 0 .. (L - 1)
    <3>1. S \subseteq Slots
      BY <1>2, <1>3, <2>1, BodyFacts DEF Wired
    <3>2. IsSeq(E[End(c)].ops)
      BY <1>1, CourseEnds DEF Begun, OnItsWay, IsEmitter
    <3>3. n.unset = S \ (0 .. (cx.arity - 1))
      BY <1>1, <3>2, FinishedIs
    <3>4. S \ (0 .. (L - 1)) = {}
      BY <3>3
    <3> QED
      BY <3>1, <3>4
  <2>5. Agrees(e.reg, e.dirty, m.regs, m.frame, regs, S)
    <3>1. ASSUME NEW x \in Regs, e.reg[x] \in S
          PROVE  m.regs[x] = regs[e.reg[x]]
      <4>1. x < L
        BY <1>7, <2>4, <3>1, EmptyIsNoSlot
      <4>2. e.reg[x] = x /\ x \in Slots
        BY <1>7, <2>4, <3>1, <4>1
      <4>3. m.regs[x] = args[x + 1] /\ regs[x] = args[x + 1]
        BY <1>5, <4>1, <4>2 DEF Given
      <4> QED
        BY <4>2, <4>3
    <3>2. ASSUME NEW s \in S, \A x \in e.dirty : e.reg[x] # s
          PROVE  m.frame[s] = regs[s]
      <4>1. s \in 0 .. (L - 1)
        BY <2>4, <3>2
      <4>2. s \in Regs /\ s < L
        BY <1>2, <4>1, CacheAssumption DEF Regs
      <4>3. s \in e.dirty /\ e.reg[s] = s
        BY <1>7, <4>2
      <4> QED
        BY <3>2, <4>3
    <3> QED
      BY <3>1, <3>2 DEF Agrees
  <2>6. Sim(e, m, M.frame, S)
    <3>1. m.at = Len(e.ops) + 1
      BY <1>5, <1>7
    <3> QED
      BY <1>4, <1>5, <2>5, <3>1 DEF Sim
  <2>7. Arrives(CacheOf(e), m, M.frame, S, Len(e.ops) + 1)
    BY <2>6, ArrivesHere
  <2>8. Sim(a, m, M.frame, S)
    <3> DEFINE g == M.frame
    <3> HIDE DEF g, S, a
    <3>1. Arrives(CacheOf(a), m, g, S, Len(a.ops) + 1)
      BY <2>3, <2>7 DEF g, S, a
    <3> QED
      BY <3>1, ArrivesHere DEF g, a, S
  <2>9. Reached(cx, c, E, M.pc, m, M.frame)
    BY <1>4, <2>2, <2>8 DEF Reached, e
  <2>10. Gets(n, m, m)
    BY GetsNowhere
  <2> QED
    BY <1>4, <2>9, <2>10 DEF Tracks, M, m
<1> QED
  BY <1>8, <1>9, <1>10

-------------------------------------------------------------------------------
(* A machine that has guessed stays one that has.                           *)
HasGuess(m) == "guessed" \in DOMAIN m
Sticks(m, w) == (HasGuess(m) => HasGuess(w)) /\ (HasGuess(m) /\ Guessed(m) => Guessed(w))

LEMMA SticksOn ==
  ASSUME NEW m, NEW w, NEW x, Sticks(m, w), Sticks(w, x)
  PROVE  Sticks(m, x)
BY DEF Sticks

LEMMA SticksPut ==
  ASSUME NEW m, NEW v
  PROVE  /\ Sticks(m, [m EXCEPT !.at = v]) /\ Sticks(m, [m EXCEPT !.regs = v])
         /\ Sticks(m, [m EXCEPT !.frame = v]) /\ Sticks(m, [m EXCEPT !.args = v])
         /\ Sticks(m, [m EXCEPT !.out = v]) /\ Sticks(m, [m EXCEPT !.end = v])
         /\ Sticks(m, [m EXCEPT !.value = v])
BY DEF Sticks, HasGuess, Guessed

LEMMA SticksGuess ==
  ASSUME NEW m, NEW b
  PROVE  Sticks(m, [m EXCEPT !.guessed = @ \/ b])
<1> DEFINE v == m.guessed \/ b
           w == [m EXCEPT !.guessed = v]
<1>1. Guessed(m) => v = TRUE
  BY Zenon DEF Guessed
<1> HIDE DEF v
<1>2. HasGuess(m) => HasGuess(w) /\ w.guessed = v
  BY DEF HasGuess
<1> HIDE DEF w
<1>3. Sticks(m, w)
  BY <1>1, <1>2, Zenon DEF Sticks, Guessed
<1> QED
  BY <1>3, Zenon DEF w, v

LEMMA SticksClobbered ==
  ASSUME NEW m
  PROVE  Sticks(m, Clobbered(m))
<1> DEFINE v == [x \in DOMAIN m.regs |-> Junk]
<1>1. Clobbered(m) = [m EXCEPT !.regs = v]
  BY DEF Clobbered
<1> HIDE DEF v
<1>2. Sticks(m, [m EXCEPT !.regs = v])
  BY SticksPut
<1> QED
  BY <1>1, <1>2

LEMMA ExecSticks ==
  ASSUME NEW n, NEW m
  PROVE  Sticks(m, Exec(n, m))
<1> DEFINE o == n.ops[m.at]
           a == m.at + 1
           next == [m EXCEPT !.at = a]
           clear == Clobbered(next)
           y == IF o[5] THEN clear ELSE next
<1>1. Sticks(m, next)
  <2> HIDE DEF a
  <2> QED
    BY SticksPut
<1>2. Sticks(m, clear)
  <2> HIDE DEF next
  <2> QED
    BY <1>1, SticksClobbered, SticksOn
<1>3. Sticks(m, y)
  <2> HIDE DEF clear, next, o
  <2> QED
    BY <1>1, <1>2
<1>4. CASE o[1] = "store"
  <2> DEFINE v == [next.frame EXCEPT ![o[3]] = m.regs[o[2]]]
  <2>1. Exec(n, m) = [next EXCEPT !.frame = v]
    BY <1>4, Zenon DEF Exec
  <2> HIDE DEF next, v
  <2> QED
    BY <1>1, <2>1, SticksPut, SticksOn
<1>5. CASE o[1] = "load"
  <2> DEFINE v == [next.regs EXCEPT ![o[2]] = m.frame[o[3]]]
  <2>1. o[1] # "store"
    BY <1>5
  <2>2. Exec(n, m) = [next EXCEPT !.regs = v]
    BY <1>5, <2>1, Zenon DEF Exec
  <2> HIDE DEF next, v
  <2> QED
    BY <1>1, <2>2, SticksPut, SticksOn
<1>6. CASE o[1] = "copy"
  <2> DEFINE v == [next.regs EXCEPT ![o[2]] = m.regs[o[3]]]
  <2>1. o[1] # "store" /\ o[1] # "load"
    BY <1>6
  <2>2. Exec(n, m) = [next EXCEPT !.regs = v]
    BY <1>6, <2>1, Zenon DEF Exec
  <2> HIDE DEF next, v
  <2> QED
    BY <1>1, <2>2, SticksPut, SticksOn
<1>7. CASE o[1] = "zero"
  <2> DEFINE v == [next.regs EXCEPT ![0] = Num(0)]
  <2>1. o[1] # "store" /\ o[1] # "load" /\ o[1] # "copy"
    BY <1>7
  <2>2. Exec(n, m) = [next EXCEPT !.regs = v]
    BY <1>7, <2>1, Zenon DEF Exec
  <2> HIDE DEF next, v
  <2> QED
    BY <1>1, <2>2, SticksPut, SticksOn
<1>8. CASE o[1] = "set"
  <2> DEFINE vs == [k \in DOMAIN o[4] |-> m.regs[o[4][k]]]
             v == [y.regs EXCEPT ![o[2]] = Outcome(o[3], vs, o[5])]
             z == [y EXCEPT !.regs = v]
             b == Guesses(o[3], vs, o[5])
  <2>1. o[1] # "store" /\ o[1] # "load" /\ o[1] # "copy" /\ o[1] # "zero"
    BY <1>8
  <2>2. Exec(n, m) = [z EXCEPT !.guessed = @ \/ b]
    BY <1>8, <2>1, Zenon DEF Exec
  <2>3. Sticks(m, z)
    <3> HIDE DEF y, v
    <3> QED
      BY <1>3, SticksPut, SticksOn
  <2> HIDE DEF z, b
  <2>4. Sticks(z, Exec(n, m))
    BY <2>2, SticksGuess
  <2> QED
    BY <2>3, <2>4, SticksOn
<1>9. CASE o[1] = "test"
  <2> DEFINE vs == [k \in DOMAIN o[4] |-> m.regs[o[4][k]]]
             says == Outcome(o[3], vs, o[5])
             taken == IF o[3][1] \in CmpOps THEN Truthy(says) ELSE says
             v == IF taken = o[2] THEN n.label[o[6]] ELSE y.at
             z == [y EXCEPT !.at = v]
             b == Guesses(o[3], vs, o[5])
  <2>1. o[1] # "store" /\ o[1] # "load" /\ o[1] # "copy" /\ o[1] # "zero" /\ o[1] # "set"
    BY <1>9
  <2>2. Exec(n, m) = [z EXCEPT !.guessed = @ \/ b]
    BY <1>9, <2>1, Zenon DEF Exec
  <2>3. Sticks(m, z)
    <3> HIDE DEF y, v
    <3> QED
      BY <1>3, SticksPut, SticksOn
  <2> HIDE DEF z, b
  <2>4. Sticks(z, Exec(n, m))
    BY <2>2, SticksGuess
  <2> QED
    BY <2>3, <2>4, SticksOn
<1>10. CASE o[1] = "jump"
  <2> DEFINE v == n.label[o[2]]
  <2>1. o[1] # "store" /\ o[1] # "load" /\ o[1] # "copy" /\ o[1] # "zero" /\ o[1] # "set" /\ o[1] # "test"
    BY <1>10
  <2>2. Exec(n, m) = [m EXCEPT !.at = v]
    BY <1>10, <2>1, Zenon DEF Exec
  <2> HIDE DEF v
  <2>3. Sticks(m, [m EXCEPT !.at = v])
    BY SticksPut
  <2> QED
    BY <2>2, <2>3
<1>11. CASE o[1] = "call"
  <2> DEFINE args == [k \in 1 .. o[2] |-> m.regs[k - 1]]
             v == [clear.regs EXCEPT ![0] = CallResult(args)]
             z == [clear EXCEPT !.regs = v]
             w == Append(z.out, <<"call", args>>)
  <2>1. /\ o[1] # "store" /\ o[1] # "load" /\ o[1] # "copy" /\ o[1] # "zero" /\ o[1] # "set" /\ o[1] # "test"
        /\ o[1] # "jump"
    BY <1>11
  <2>2. Exec(n, m) = [z EXCEPT !.out = w]
    BY <1>11, <2>1, Zenon DEF Exec
  <2>3. Sticks(m, z)
    <3> HIDE DEF clear, v
    <3> QED
      BY <1>2, SticksPut, SticksOn
  <2> HIDE DEF z, w
  <2> QED
    BY <2>2, <2>3, SticksPut, SticksOn
<1>12. CASE o[1] = "push"
  <2> DEFINE v == Append(clear.args, m.frame[o[2]])
  <2>1. /\ o[1] # "store" /\ o[1] # "load" /\ o[1] # "copy" /\ o[1] # "zero" /\ o[1] # "set" /\ o[1] # "test"
        /\ o[1] # "jump" /\ o[1] # "call"
    BY <1>12
  <2>2. Exec(n, m) = [clear EXCEPT !.args = v]
    BY <1>12, <2>1, Zenon DEF Exec
  <2> HIDE DEF clear, v
  <2> QED
    BY <1>2, <2>2, SticksPut, SticksOn
<1>13. CASE o[1] = "builtin"
  <2> DEFINE v == [clear.frame EXCEPT ![o[2]] = None]
             y1 == [clear EXCEPT !.frame = v]
             none == <<>>
             z == [y1 EXCEPT !.args = none]
             w == Append(z.out, <<"out", m.args>>)
  <2>1. /\ o[1] # "store" /\ o[1] # "load" /\ o[1] # "copy" /\ o[1] # "zero" /\ o[1] # "set" /\ o[1] # "test"
        /\ o[1] # "jump" /\ o[1] # "call" /\ o[1] # "push"
    BY <1>13
  <2>2. Exec(n, m) = [z EXCEPT !.out = w]
    BY <1>13, <2>1, Zenon DEF Exec
  <2>3. Sticks(m, y1)
    <3> HIDE DEF clear, v
    <3> QED
      BY <1>2, SticksPut, SticksOn
  <2>4. Sticks(m, z)
    <3> HIDE DEF y1, none
    <3> QED
      BY <2>3, SticksPut, SticksOn
  <2> HIDE DEF z, w
  <2> QED
    BY <2>2, <2>4, SticksPut, SticksOn
<1>14. CASE /\ o[1] # "store" /\ o[1] # "load" /\ o[1] # "copy" /\ o[1] # "zero" /\ o[1] # "set"
            /\ o[1] # "test" /\ o[1] # "jump" /\ o[1] # "call" /\ o[1] # "push" /\ o[1] # "builtin"
  <2> DEFINE v == Boxed(n.kind, m.regs[0])
             returned == "returned"
             y1 == [m EXCEPT !.end = returned]
             z == [y1 EXCEPT !.value = v]
             b == Misjudged(n.kind, o[2], m.regs[0])
  <2>1. Exec(n, m) = [z EXCEPT !.guessed = @ \/ b]
    BY <1>14, Zenon DEF Exec
  <2>2. Sticks(m, y1)
    <3> HIDE DEF returned
    <3> QED
      BY SticksPut
  <2>3. Sticks(m, z)
    <3> HIDE DEF y1, v
    <3> QED
      BY <2>2, SticksPut, SticksOn
  <2> HIDE DEF z, b
  <2>4. Sticks(z, Exec(n, m))
    BY <2>1, SticksGuess
  <2> QED
    BY <2>3, <2>4, SticksOn
<1> HIDE DEF o
<1> QED
  BY <1>4, <1>5, <1>6, <1>7, <1>8, <1>9, <1>10, <1>11, <1>12, <1>13, <1>14

LEMMA RunSticks ==
  ASSUME NEW n, NEW m
  PROVE  \A k \in Nat : Sticks(m, RunFor(n, m, k))
<1> DEFINE T == {k \in Nat : Sticks(m, RunFor(n, m, k))}
<1>1. 0 \in T
  <2>1. RunFor(n, m, 0) = m
    BY RunForSteps
  <2> QED
    BY <2>1 DEF Sticks
<1>2. ASSUME NEW k \in Nat, k \in T PROVE k + 1 \in T
  <2> DEFINE w == RunFor(n, m, k)
  <2>1. RunFor(n, m, k + 1) = Advanced(n, w)
    BY RunForSteps
  <2>2. Advanced(n, w) = Exec(n, w) \/ Advanced(n, w) = w
    BY Zenon DEF Advanced
  <2>3. Sticks(m, w)
    BY <1>2
  <2> HIDE DEF w
  <2>4. Sticks(w, Exec(n, w))
    BY ExecSticks
  <2>5. Sticks(m, Advanced(n, w))
    BY <2>2, <2>3, <2>4, SticksOn
  <2> QED
    BY <2>1, <2>5
<1> HIDE DEF T
<1>3. \A k \in Nat : k \in T
  BY ONLY <1>1, <1>2, AllNaturals
<1> QED
  BY <1>3 DEF T
-------------------------------------------------------------------------------
(* A machine that has returned stays as it is.                              *)
LEMMA RunForIdle ==
  ASSUME NEW n, NEW m, ~Running(m)
  PROVE  \A k \in Nat : RunFor(n, m, k) = m
<1> DEFINE T == {k \in Nat : RunFor(n, m, k) = m}
<1>1. 0 \in T
  BY RunForSteps
<1>2. ASSUME NEW k \in Nat, k \in T PROVE k + 1 \in T
  <2>1. Advanced(n, m) = m
    BY Zenon DEF Advanced, Running
  <2>2. RunFor(n, m, k + 1) = Advanced(n, RunFor(n, m, k))
    BY RunForSteps
  <2> QED
    BY <1>2, <2>1, <2>2
<1> HIDE DEF T
<1>3. \A k \in Nat : k \in T
  BY ONLY <1>1, <1>2, AllNaturals
<1> QED
  BY <1>3 DEF T

\* Ten operations at a time are as many operations.
LEMMA NativeRunFor ==
  ASSUME NEW n, NEW args, NEW k \in Nat
  PROVE  NativeRun(n, args, k) = RunFor(n, Boot(args), 10 * k)
<1> DEFINE m == Boot(args)
<1>1. PICK run : IsTenRun(run, n, m, k) /\ NativeRun(n, args, k) = run[k]
  BY NativeRunIs
<1> HIDE DEF m
<1> DEFINE T == {h \in Nat : h <= k => run[h] = RunFor(n, m, 10 * h)}
<1>2. 0 \in T
  <2>1. run[0] = m
    <3>1. 0 \in 0 .. k
      OBVIOUS
    <3>2. run[0] = IF 0 = 0 THEN m ELSE TenMore(n, run[0 - 1])
      BY <1>1, <3>1 DEF IsTenRun
    <3> QED
      BY <3>2
  <2>2. RunFor(n, m, 0) = m
    BY RunForSteps
  <2> QED
    BY <2>1, <2>2
<1>3. ASSUME NEW h \in Nat, h \in T PROVE h + 1 \in T
  <2> SUFFICES ASSUME h + 1 <= k PROVE run[h + 1] = RunFor(n, m, 10 * (h + 1))
    OBVIOUS
  <2> DEFINE w == RunFor(n, m, 10 * h)
  <2>1. run[h + 1] = TenMore(n, run[h])
    <3>1. h + 1 \in 0 .. k /\ h + 1 # 0 /\ (h + 1) - 1 = h
      OBVIOUS
    <3> QED
      BY <1>1, <3>1 DEF IsTenRun
  <2>2. run[h] = w
    <3>1. h <= k
      OBVIOUS
    <3> QED
      BY <1>3, <3>1
  <2>3. RunFor(n, m, 10 * (h + 1)) = RunFor(n, w, 10)
    <3>1. 10 * h \in Nat /\ 10 \in Nat /\ 10 * (h + 1) = 10 * h + 10
      OBVIOUS
    <3> QED
      BY <3>1, RunForSum
  <2> HIDE DEF w
  <2>4. TenMore(n, w) = RunFor(n, w, 10)
    <3>1. CASE Running(w)
      BY <3>1, Zenon DEF TenMore, Running
    <3>2. CASE ~Running(w)
      <4>1. TenMore(n, w) = w
        BY <3>2, Zenon DEF TenMore, Running
      <4>2. RunFor(n, w, 10) = w
        BY <3>2, RunForIdle
      <4> QED
        BY <4>1, <4>2
    <3> QED
      BY <3>1, <3>2
  <2> QED
    BY <2>1, <2>2, <2>3, <2>4
<1> HIDE DEF T
<1>4. \A h \in Nat : h \in T
  BY ONLY <1>2, <1>3, AllNaturals
<1>5. run[k] = RunFor(n, m, 10 * k)
  BY <1>4 DEF T
<1> QED
  BY <1>1, <1>5 DEF m
-------------------------------------------------------------------------------
(* However long the interpreter runs, the native code keeps up.             *)
LEMMA TracksAlways ==
  ASSUME NEW cx, NEW c \in Seq(Instruction), NEW E, NEW n, Laid(cx, c, E, n), NEW m0,
         NEW M, Tracks(cx, c, E, n, m0, M), NEW fuel \in Nat
  PROVE  Tracks(cx, c, E, n, m0, After(c, M, fuel))
<1>1. PICK run : IsRun(run, c, M, fuel)
  BY RunExists
<1>2. run[0] = M /\ (\A h \in 1 .. fuel : run[h] = Advance(c, run[h - 1])) /\ After(c, M, fuel) = run[fuel]
  BY <1>1 DEF IsRun
<1> DEFINE T == {h \in Nat : h <= fuel => Tracks(cx, c, E, n, m0, run[h])}
<1>3. 0 \in T
  BY <1>2
<1>4. ASSUME NEW h \in Nat, h \in T PROVE h + 1 \in T
  <2> SUFFICES ASSUME h + 1 <= fuel PROVE Tracks(cx, c, E, n, m0, run[h + 1])
    OBVIOUS
  <2>1. h + 1 \in 1 .. fuel /\ (h + 1) - 1 = h /\ h <= fuel
    OBVIOUS
  <2>2. run[h + 1] = Advance(c, run[h])
    BY <1>2, <2>1
  <2>3. Tracks(cx, c, E, n, m0, run[h])
    BY <1>4, <2>1
  <2> QED
    BY <2>2, <2>3, StepCorrect
<1> HIDE DEF T
<1>5. \A h \in Nat : h \in T
  BY ONLY <1>3, <1>4, AllNaturals
<1>6. Tracks(cx, c, E, n, m0, run[fuel])
  BY <1>5 DEF T
<1> QED
  BY <1>2, <1>6

-------------------------------------------------------------------------------
(* What a run shows.                                                        *)
LEMMA BootHasGuess ==
  ASSUME NEW args
  PROVE  HasGuess(Boot(args))
<1> DEFINE m == Boot(args)
<1>1. IsMachine(m)
  BY BootFacts
<1> HIDE DEF m
<1>2. DOMAIN m = {"at", "regs", "frame", "args", "out", "end", "value", "guessed"}
  BY <1>1 DEF IsMachine
<1> QED
  BY <1>2 DEF HasGuess, m

\* What the interpreter shows, if it has returned.
ReturnedFrom(M, o) == ~Running(M) /\ o = [out |-> M.frame.out, end |-> "returned", value |-> M.frame.value]

LEMMA RunReturned ==
  ASSUME NEW c, NEW regs, NEW fuel, NEW o, o = Run(c, 1, regs, fuel), o.end = "returned",
         NEW M, M = After(c, Start(1, regs), fuel)
  PROVE  ReturnedFrom(M, o)
<1> DEFINE e == Ending(c, M)
           out == M.frame.out
           value == M.frame.value
           returned == "returned"
<1>1. o = [out |-> out, end |-> e, value |-> value]
  BY DEF Run
<1> HIDE DEF out, value, e, returned
<1>2. e = returned
  BY <1>1 DEF returned
<1>3. ~Running(M)
  <2>1. SUFFICES ASSUME Running(M) PROVE FALSE
    OBVIOUS
  <2>2. e = "out of fuel" \/ e = "ran past the end"
    BY <2>1, Zenon DEF e, Ending, Running
  <2> QED
    BY <1>2, <2>2 DEF returned
<1> QED
  BY <1>1, <1>2, <1>3, Zenon DEF ReturnedFrom, out, value, returned

\* A machine that has returned the same is seen as the same.
LEMMA ReturnedSame ==
  ASSUME NEW m, NEW M, HasReturned(m, M.frame.value, M.frame.out), NEW o, ReturnedFrom(M, o)
  PROVE  Observed(m) = o /\ ~Running(m)
<1> DEFINE returned == "returned"
<1>1. m.end = returned /\ m.value = M.frame.value /\ m.out = M.frame.out
  BY Zenon DEF HasReturned
<1>2. o = [out |-> M.frame.out, end |-> returned, value |-> M.frame.value]
  BY Zenon DEF ReturnedFrom
<1> HIDE DEF returned
<1>3. Observed(m) = o
  BY <1>1, <1>2 DEF Observed
<1>4. m.end = "returned"
  BY <1>1 DEF returned
<1>5. ~Running(m)
  BY <1>4 DEF Running
<1> QED
  BY <1>3, <1>5

\* x86_64_emit_function and the calls of vm.c: machine code does what the
\* interpreter does with the code it was made of.  Take any function, any
\* arguments and any run of it in the interpreter: if the interpreter returns,
\* so does the machine code, the same value after the same calls with the same
\* arguments, whatever is in the slots beyond the arguments.  Excepted are code
\* in which a flaw was marked as it was emitted, code that may read a slot
\* nobody has written, and runs that took a value for one of another kind.
THEOREM NativeCorrect ==
  ASSUME NEW c \in Seq(Instruction), c # <<>>, InitiallyPure(c), Regular(c),
         NEW args \in Seq(Value), Len(args) <= CacheRegs, Len(args) <= FrameSize,
         NEW regs \in [Slots -> Value], Given(args, regs),
         NEW n, n = NativeOf(c, Len(args)), n.flaws = {}, n.unset = {}, NEW fuel \in Nat
  PROVE  \E k \in Nat : \A more \in Nat :
            more >= k => SameAs(NativeRun(n, args, more), Run(c, 1, regs, fuel))
<1> DEFINE L == Len(args)
           cx == Context(c, L)
           M == After(c, Start(1, regs), fuel)
           o == Run(c, 1, regs, fuel)
           m0 == Boot(args)
<1>1. Closed(c) /\ L \in Nat
  BY DEF Closed
<1>2. PICK E : Laid(cx, c, E, n)
  BY <1>1, ContextCourse
<1>3. cx.arity = L
  BY <1>1, ContextIs
<1>4. Tracks(cx, c, E, n, m0, M)
  <2>1. Tracks(cx, c, E, n, m0, Start(1, regs))
    <3> HIDE DEF cx
    <3> QED
      BY <1>2, <1>3, TracksStart
  <2> HIDE DEF cx, m0
  <2> QED
    BY <1>2, <2>1, TracksAlways
<1>5. HasGuess(m0)
  BY BootHasGuess
<1>6. \A more \in Nat : NativeRun(n, args, more) = RunFor(n, m0, 10 * more)
  BY NativeRunFor
<1>7. o.end = "returned" => ReturnedFrom(M, o)
  BY RunReturned
<1> HIDE DEF L, cx, M, o, m0
<1>8. SUFFICES \E k \in Nat : \A more \in Nat : more >= k => SameAs(RunFor(n, m0, 10 * more), o)
  BY <1>6 DEF o
<1>9. CASE o.end # "returned"
  <2>1. \A w : SameAs(w, o)
    BY <1>9 DEF SameAs
  <2>2. 0 \in Nat
    OBVIOUS
  <2> QED
    BY <2>1, <2>2
<1>10. CASE o.end = "returned"
  <2>1. ReturnedFrom(M, o) /\ ~Running(M)
    BY <1>7, <1>10 DEF ReturnedFrom
  <2>2. PICK m : Gets(n, m0, m) /\ (Guessed(m) \/ HasReturned(m, M.frame.value, M.frame.out))
    BY <1>4, <2>1 DEF Tracks, Begot
  <2>3. PICK k \in Nat : RunFor(n, m0, k) = m
    BY <2>2 DEF Gets
  <2>4. HasGuess(m)
    BY <1>5, <2>3, RunSticks DEF Sticks
  <2>5. ASSUME NEW j \in Nat
        PROVE  SameAs(RunFor(n, m, j), o)
    <3> DEFINE w == RunFor(n, m, j)
    <3>1. CASE Guessed(m)
      <4>1. Guessed(w)
        BY <2>4, <3>1, RunSticks DEF Sticks
      <4> HIDE DEF w
      <4>2. SameAs(w, o)
        BY <4>1, Zenon DEF SameAs, Guessed
      <4> QED
        BY <4>2 DEF w
    <3>2. CASE HasReturned(m, M.frame.value, M.frame.out)
      <4>1. Observed(m) = o /\ ~Running(m)
        BY <2>1, <3>2, ReturnedSame
      <4>2. w = m
        BY <4>1, RunForIdle
      <4> HIDE DEF w
      <4>3. SameAs(w, o)
        BY <4>1, <4>2, Zenon DEF SameAs
      <4> QED
        BY <4>3 DEF w
    <3> QED
      BY <2>2, <3>1, <3>2
  <2>6. ASSUME NEW more \in Nat, more >= k
        PROVE  SameAs(RunFor(n, m0, 10 * more), o)
    <3>1. 10 * more - k \in Nat /\ k + (10 * more - k) = 10 * more
      BY <2>6
    <3>2. RunFor(n, m0, k + (10 * more - k)) = RunFor(n, RunFor(n, m0, k), 10 * more - k)
      BY <3>1, RunForSum
    <3>3. RunFor(n, m0, 10 * more) = RunFor(n, m, 10 * more - k)
      BY <2>3, <3>1, <3>2
    <3> QED
      BY <2>5, <3>1, <3>3
  <2> QED
    BY <2>6
<1> QED
  BY <1>9, <1>10

-------------------------------------------------------------------------------
(* Module Assembly.                                                         *)

\* Code once it is native is code the passes left, and what the JIT made of it.
NativeInv == /\ ChunkType
             /\ stage = "native" => Compiled(code) /\ native = NativeOf(code, Len(Params))

LEMMA NativeInvCorrect == AssemblySpec => []NativeInv
<1>1. PassesInit => NativeInv
  <2>1. PassesInit => stage = "generated" /\ ChunkType
    BY DEF PassesInit, ChunkType
  <2>2. "generated" # "native"
    OBVIOUS
  <2> QED
    BY <2>1, <2>2 DEF NativeInv
<1>2. NativeInv /\ [Passes \/ Assemble]_<<chunk, native>> => NativeInv'
  <2> SUFFICES ASSUME NativeInv, [Passes \/ Assemble]_<<chunk, native>>
               PROVE  NativeInv'
    OBVIOUS
  <2>1. CASE Passes
    <3>1. ChunkType'
      BY <2>1, PassesStay DEF Passes, NativeInv
    <3>2. stage' \in {"threaded", "compact"}
      BY <2>1 DEF Passes, Thread, Shrink
    <3> QED
      BY <3>1, <3>2 DEF NativeInv
  <2>2. CASE Assemble
    <3>1. code' = code /\ entry' = entry /\ Compiled(code) /\ native' = NativeOf(code, Len(Params))
      BY <2>2 DEF Assemble
    <3> QED
      BY <3>1 DEF NativeInv, ChunkType
  <2>3. CASE UNCHANGED <<chunk, native>>
    BY <2>3 DEF NativeInv, ChunkType, chunk
  <2> QED
    BY <2>1, <2>2, <2>3
<1> QED
  BY <1>1, <1>2, PTL DEF AssemblySpec

\* A machine that has stopped stays as it is.
LEMMA NativeRunStays ==
  ASSUME NEW n, NEW args, NEW k \in Nat, NEW more \in Nat, NEW m,
         m = NativeRun(n, args, k), ~Running(m)
  PROVE  NativeRun(n, args, k + more) = m
<1> DEFINE m0 == Boot(args)
<1>1. NativeRun(n, args, k) = RunFor(n, m0, 10 * k)
  BY NativeRunFor
<1>2. NativeRun(n, args, k + more) = RunFor(n, m0, 10 * (k + more))
  <2>1. k + more \in Nat
    OBVIOUS
  <2> HIDE DEF m0
  <2> QED
    BY <2>1, NativeRunFor DEF m0
<1> HIDE DEF m0
<1>3. 10 * k \in Nat /\ 10 * more \in Nat /\ 10 * (k + more) = 10 * k + 10 * more
  OBVIOUS
<1>4. RunFor(n, m0, 10 * k + 10 * more) = RunFor(n, RunFor(n, m0, 10 * k), 10 * more)
  BY <1>3, RunForSum
<1>5. RunFor(n, m, 10 * more) = m
  BY <1>3, RunForIdle
<1> QED
  BY <1>1, <1>2, <1>3, <1>4, <1>5

\* Whatever has been written in it, a frame has values in its registers, and the
\* arguments in the first of them.
LEMMA FrameFacts ==
  ASSUME NEW in \in Inputs
  PROVE  /\ Frame(in) \in [Slots -> Value] /\ ArgsOf(in) \in Seq(Value)
         /\ Len(ArgsOf(in)) = Len(Params) /\ Given(ArgsOf(in), Frame(in))
<1>1. Len(Params) \in 0 .. 2 /\ Params = [k \in 1 .. Len(Params) |-> Params[k]]
  BY AssemblyAssumption
<1>2. ASSUME NEW k \in 1 .. Len(Params) PROVE in[Params[k]] \in Value
  <2>1. Params[k] \in Range(Params)
    <3>1. k \in DOMAIN Params
      BY <1>1
    <3> QED
      BY <3>1 DEF Range
  <2>2. IsValue(in[Params[k]])
    BY <2>1, AssemblyAssumption
  <2>3. \A v : IsValue(v) => v \in Value
    BY DEF IsValue, Value
  <2> QED
    BY <2>2, <2>3
<1>3. Left \in Value
  BY DEF Left, Value
<1>4. ArgsOf(in) \in Seq(Value) /\ Len(ArgsOf(in)) = Len(Params)
      /\ \A k \in 1 .. Len(Params) : ArgsOf(in)[k] = in[Params[k]]
  BY <1>1, <1>2 DEF ArgsOf
<1>5. ASSUME NEW s \in Slots, s < Len(Params) PROVE s + 1 \in 1 .. Len(Params)
  BY <1>1, <1>5, FrameAssumption DEF Slots
<1>6. Frame(in) \in [Slots -> Value]
  BY <1>2, <1>3, <1>5 DEF Frame
<1>7. ASSUME NEW s \in Slots, s < Len(Params) PROVE Frame(in)[s] = ArgsOf(in)[s + 1]
  BY <1>4, <1>5, <1>7 DEF Frame
<1> QED
  BY <1>4, <1>6, <1>7 DEF Given

\* NativeAgrees: whatever code the generator hands over, once it is threaded and
\* compact and jit_analyze has accepted it, a call of the machine code made of
\* it that has come to an end within the bound has come to what the interpreter
\* comes to, for every bound.
THEOREM AssemblyCorrect == AssemblySpec => []NativeAgrees
<1>1. NativeInv => NativeAgrees
  <2> SUFFICES ASSUME NativeInv, stage = "native", Usual, Sound, NEW in \in NativeInputs
               PROVE  SameAsInterpreted(in)
    BY DEF NativeAgrees
  <2> DEFINE args == ArgsOf(in)
             regs == Frame(in)
             n == native
             m == NativeOn(in)
             o == Ran(in)
  <2>1. in \in Inputs
    BY DEF NativeInputs
  <2>2. regs \in [Slots -> Value] /\ args \in Seq(Value) /\ Len(args) = Len(Params) /\ Given(args, regs)
    BY <2>1, FrameFacts
  <2>3. code \in Seq(Instruction) /\ code # <<>> /\ entry = 1 /\ Regular(code)
    BY DEF NativeInv, ChunkType, Chunk, Usual
  <2>4. InitiallyPure(code) /\ n = NativeOf(code, Len(args))
    BY <2>2 DEF NativeInv, Compiled
  <2>5. n.flaws = {} /\ n.unset = {}
    BY DEF Sound
  <2>6. StepFuel \in Nat /\ OpFuel \in Nat
    BY RunAssumption, AssemblyAssumption
  <2>7. m = NativeRun(n, args, OpFuel) /\ o = Run(code, 1, regs, StepFuel)
    BY <2>3 DEF NativeOn, Ran
  <2> HIDE DEF args, regs, n, m, o
  <2>8. Len(args) <= CacheRegs /\ Len(args) <= FrameSize
    <3>1. Len(Params) \in 0 .. 2 /\ FrameSize >= 2
      BY AssemblyAssumption
    <3>2. CacheRegs \in Nat /\ CacheRegs >= 3 /\ FrameSize \in Nat
      BY CacheAssumption, FrameAssumption
    <3>3. Len(args) = Len(Params)
      BY <2>2
    <3> QED
      BY ONLY <3>1, <3>2, <3>3
  <2>9. PICK k \in Nat : \A more \in Nat : more >= k => SameAs(NativeRun(n, args, more), o)
    BY <2>2, <2>3, <2>4, <2>5, <2>6, <2>7, <2>8, NativeCorrect
  <2>10. SUFFICES ASSUME ~Running(m) PROVE SameAs(m, o)
    BY DEF SameAsInterpreted, Running, m, o
  <2>11. NativeRun(n, args, OpFuel + k) = m
    BY <2>6, <2>7, <2>10, NativeRunStays
  <2>12. OpFuel + k \in Nat /\ OpFuel + k >= k
    BY <2>6
  <2> QED
    BY <2>9, <2>11, <2>12
<1> QED
  BY <1>1, NativeInvCorrect, PTL
===============================================================================
