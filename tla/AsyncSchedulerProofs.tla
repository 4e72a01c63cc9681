------------------------- MODULE AsyncSchedulerProofs -------------------------
(* Theorems about AsyncScheduler, for every set of futures and values. *)
EXTENDS AsyncScheduler, FiniteSetTheorems, TLAPS

\* future_resolve keeps the fields it writes well typed.
LEMMA ResolveTyped ==
  ASSUME TypeOK, NEW f \in Future, NEW v \in Result, Resolve(f, v)
  PROVE  /\ state' \in [Future -> {0, 1}]
         /\ result' \in [Future -> Result]
         /\ waiters' \in [Future -> Seq(Future)]
         /\ awaiting' \in [Future -> Context]
         /\ dest' \in [Future -> BOOLEAN]
         /\ reg' \in [Context -> Result]
         /\ ready' \in Seq(Future)
<1>1. CASE state[f] # 0
  BY <1>1 DEF Resolve, TypeOK
<1>2. CASE state[f] = 0
  <2>1. ready \in Seq(Future) /\ waiters[f] \in Seq(Future)
    BY DEF TypeOK
  <2>2. ready \o waiters[f] \in Seq(Future)
    BY <2>1
  <2>3. <<>> \in Seq(Future)
    OBVIOUS
  <2>4. state' \in [Future -> {0, 1}] /\ result' \in [Future -> Result]
    BY <1>2 DEF Resolve, TypeOK
  <2>5. waiters' \in [Future -> Seq(Future)] /\ ready' \in Seq(Future)
    BY <1>2, <2>2, <2>3 DEF Resolve, TypeOK
  <2>6. awaiting' \in [Future -> Context]
    BY <1>2 DEF Resolve, TypeOK, Context
  <2>7. dest' \in [Future -> BOOLEAN]
    <3>1. dest \in [Future -> BOOLEAN]
      BY DEF TypeOK
    <3>2. dest' = [w \in Future |->
                     IF w \in Range(waiters[f]) THEN FALSE ELSE dest[w]]
      BY <1>2 DEF Resolve
    <3>3. \A w \in Future : (IF w \in Range(waiters[f]) THEN FALSE ELSE dest[w])
                             \in BOOLEAN
      BY <3>1, Zenon
    <3> QED
      BY <3>2, <3>3, Zenon
  <2>8. reg' \in [Context -> Result]
    <3>1. reg \in [Context -> Result]
      BY DEF TypeOK
    <3> QED
      BY <1>2, <3>1 DEF Resolve
  <2> QED
    BY <2>4, <2>5, <2>6, <2>7, <2>8
<1> QED
  BY <1>1, <1>2

\* Starting a body keeps its fields well typed.
LEMMA NewBodyTyped ==
  ASSUME TypeOK, NEW f \in Future, NewBody(f)
  PROVE  /\ kind' \in [Future -> {"free", "body", "leaf"}]
         /\ born' \in [Future -> 0 .. MaxRuns]
         /\ state' \in [Future -> {0, 1}]
         /\ result' \in [Future -> Result]
         /\ ready' \in Seq(Future)
         /\ had_error' \in BOOLEAN
<1>1. kind' \in [Future -> {"free", "body", "leaf"}]
  BY DEF NewBody, TypeOK
<1>2. born' \in [Future -> 0 .. MaxRuns]
  BY DEF NewBody, TypeOK
<1>3. state' \in [Future -> {0, 1}] /\ result' \in [Future -> Result]
  BY DEF NewBody, TypeOK, Result
<1>4. ready' \in Seq(Future)
  <2>1. ready \in Seq(Future)
    BY DEF TypeOK
  <2>2. ready' = Append(ready, f) \/ ready' = ready
    BY DEF NewBody
  <2> QED
    BY <2>1, <2>2
<1>5. had_error' \in BOOLEAN
  BY DEF NewBody, TypeOK
<1> QED
  BY <1>1, <1>2, <1>3, <1>4, <1>5

LEMMA EndSliceTyped ==
  ASSUME EndSlice
  PROVE  current_task' \in Context /\ ctl' \in Control
  BY DEF EndSlice, Context, Control

LEMMA EnterTyped ==
  ASSUME TypeOK, NEW why, NEW target, Enter(why, target),
         \/ why \in {"await", "call"} /\ target \in Future
         \/ why = "halt" /\ target = Null
  PROVE  /\ drives' \in Seq(Drive)
         /\ current_task' \in Context
         /\ ctl' \in Control
<1>1. [why |-> why, target |-> target, task |-> current_task] \in Drive
  BY DEF TypeOK, Drive
<1> QED
  BY <1>1 DEF Enter, TypeOK, Context, Control

\* Every action keeps every variable in its type.
LEMMA TypeStep == TypeOK /\ [Next]_vars => TypeOK'
<1> SUFFICES ASSUME TypeOK, [Next]_vars PROVE TypeOK'
  OBVIOUS
<1> USE ValueAssumption, FutureAssumption, BoundAssumption
<1> USE DEF heap, posted, wakeup, flags, control
<1>1. ASSUME NEW f \in Future, AsyncCall(f) PROVE TypeOK'
  BY <1>1, NewBodyTyped DEF AsyncCall, TypeOK
<1>2. ASSUME NEW f \in Future, AsyncWait(f) PROVE TypeOK'
  <2>1. timers' \in Seq(Future)
    BY <1>2 DEF AsyncWait, TypeOK
  <2>2. current_task' \in Context /\ ctl' \in Control
    BY <1>2, EndSliceTyped DEF AsyncWait, AfterBuiltin, TypeOK
  <2> QED
    BY <1>2, <2>1, <2>2 DEF AsyncWait, NewLeaf, TypeOK
<1>3. ASSUME NEW f \in Future, AsyncWork(f) PROVE TypeOK'
  <2>1. completions' \in Seq(Entry)
    <3>1. <<[fut |-> f, val |-> None]>> \in Seq(Entry)
      BY DEF Entry, Result
    <3>2. completions \in Seq(Entry)
      BY DEF TypeOK
    <3>3. \/ completions' = <<[fut |-> f, val |-> None]>> \o completions
          \/ completions' = completions
      BY <1>3 DEF AsyncWork
    <3> QED
      BY <3>1, <3>2, <3>3
  <2>2. current_task' \in Context /\ ctl' \in Control
    BY <1>3, EndSliceTyped DEF AsyncWork, AfterBuiltin, TypeOK
  <2>3. workers' \in SUBSET Future /\ pending_workers' \in Nat
    BY <1>3 DEF AsyncWork, TypeOK
  <2> QED
    BY <1>3, <2>1, <2>2, <2>3 DEF AsyncWork, NewLeaf, TypeOK
<1>4. CASE Exit
  BY <1>4, EndSliceTyped DEF Exit, TypeOK
<1>5. CASE RuntimeError
  BY <1>5, EndSliceTyped DEF RuntimeError, TypeOK
<1>6. ASSUME NEW f \in Future, AwaitResolved(f) PROVE TypeOK'
  BY <1>6 DEF AwaitResolved, TypeOK, Context
<1>7. ASSUME NEW f \in Future, AwaitSuspend(f) PROVE TypeOK'
  <2>1. current_task \in Future
    BY <1>7 DEF AwaitSuspend, TypeOK, Context
  <2>2. waiters' \in [Future -> Seq(Future)]
    <3>1. Append(waiters[f], current_task) \in Seq(Future)
      BY <2>1 DEF TypeOK
    <3> QED
      BY <1>7, <3>1 DEF AwaitSuspend, TypeOK
  <2>3. /\ awaiting' \in [Future -> Context]
        /\ asked' \in [Context -> Context]
    BY <1>7 DEF AwaitSuspend, TypeOK, Context
  <2>4. dest' \in [Future -> BOOLEAN]
    BY <1>7 DEF AwaitSuspend, TypeOK
  <2>5. current_task' \in Context /\ ctl' \in Control
    BY <1>7, EndSliceTyped DEF AwaitSuspend
  <2> QED
    BY <1>7, <2>2, <2>3, <2>4, <2>5 DEF AwaitSuspend, TypeOK
<1>8. ASSUME NEW f \in Future, AwaitDrive(f) PROVE TypeOK'
  <2>1. asked' \in [Context -> Context]
    BY <1>8 DEF AwaitDrive, TypeOK, Context
  <2> QED
    BY <1>8, <2>1, EnterTyped DEF AwaitDrive, TypeOK
<1>9. ASSUME NEW v \in Value, Return(v) PROVE TypeOK'
  <2>1. current_task \in Future /\ v \in Result
    BY <1>9 DEF Return, TypeOK, Context, Result
  <2> QED
    BY <1>9, <2>1, ResolveTyped, EndSliceTyped DEF Return, TypeOK
<1>10. ASSUME NEW f \in Future, CallFunction(f) PROVE TypeOK'
  BY <1>10, NewBodyTyped, EnterTyped DEF CallFunction, TypeOK
<1>11. CASE EndBuiltin
  BY <1>11, EndSliceTyped DEF EndBuiltin, TypeOK, Control
<1>12. CASE Halt
  BY <1>12, EndSliceTyped, EnterTyped DEF Halt, TypeOK
<1>13. CASE LoopExit
  <2>1. Top \in Drive
    BY <1>13 DEF LoopExit, Looping, Top, TypeOK
  <2>2. drives' \in Seq(Drive)
    BY <1>13 DEF LoopExit, Looping, Front, TypeOK
  <2>3. current_task' \in Context /\ ctl' \in Control
    BY <1>13, <2>1 DEF LoopExit, Drive, Control, Context
  <2>4. reg' \in [Context -> Result]
    BY <1>13, <2>1 DEF LoopExit, TargetResolved, Drive, TypeOK, Context, Result
  <2> QED
    BY <1>13, <2>2, <2>3, <2>4 DEF LoopExit, TypeOK
<1>14. CASE RunTask
  <2>1. Head(ready) \in Future /\ Tail(ready) \in Seq(Future)
    BY <1>14 DEF RunTask, TypeOK
  <2>2. current_task' \in Context /\ ctl' \in Control
    BY <1>14, <2>1 DEF RunTask, Context, Control
  <2> QED
    BY <1>14, <2>1, <2>2 DEF RunTask, TypeOK
<1>15. CASE Drain
  BY <1>15 DEF Drain, TypeOK, Control
<1>16. CASE WakeNext
  <2>1. Head(batch) \in Entry /\ Tail(batch) \in Seq(Entry)
    BY <1>16 DEF WakeNext, TypeOK
  <2>2. Head(batch).fut \in Future /\ Head(batch).val \in Result
    BY <2>1 DEF Entry
  <2>3. Resolve(Head(batch).fut, Head(batch).val)
    BY <1>16 DEF WakeNext
  <2>4. /\ state' \in [Future -> {0, 1}] /\ result' \in [Future -> Result]
        /\ waiters' \in [Future -> Seq(Future)] /\ awaiting' \in [Future -> Context]
        /\ dest' \in [Future -> BOOLEAN] /\ reg' \in [Context -> Result]
        /\ ready' \in Seq(Future)
    BY <2>2, <2>3, ResolveTyped
  <2> QED
    BY <1>16, <2>1, <2>4 DEF WakeNext, TypeOK
<1>17. CASE WakeEnd
  BY <1>17 DEF WakeEnd, TypeOK, Control
<1>18. CASE PollStart
  BY <1>18 DEF PollStart, TypeOK, Control
<1>19. CASE PollFire
  <2>1. timers[cursor] \in Future /\ None \in Result
    BY <1>19 DEF PollFire, TypeOK, Result
  <2>2. timers' \in Seq(Future)
    <3>1. timers \in Seq(Future) /\ cursor \in 1 .. Len(timers)
      BY <1>19 DEF PollFire, TypeOK
    <3>2. SubSeq(timers, 1, cursor - 1) \in Seq(Future)
      BY <3>1
    <3>3. SubSeq(timers, cursor + 1, Len(timers)) \in Seq(Future)
      BY <3>1
    <3> QED
      BY <1>19, <3>2, <3>3 DEF PollFire, RemoveAt
  <2> QED
    BY <1>19, <2>1, <2>2, ResolveTyped DEF PollFire, TypeOK
<1>20. CASE PollSkip
  BY <1>20 DEF PollSkip, TypeOK
<1>21. CASE PollEnd
  BY <1>21 DEF PollEnd, TypeOK, Control
<1>22. ASSUME NEW f \in Future, NEW v \in Value, WorkerPost(f, v) PROVE TypeOK'
  <2>1. [fut |-> f, val |-> v] \in Entry
    BY DEF Entry, Result
  <2>2. completions' \in Seq(Entry)
    BY <1>22, <2>1 DEF WorkerPost, TypeOK
  <2> QED
    BY <1>22, <2>2 DEF WorkerPost, TypeOK
<1>23. CASE NewRun
  <2>1. run' \in 0 .. MaxRuns
    BY <1>23 DEF NewRun, TypeOK
  <2>2. had_error' \in BOOLEAN /\ exit_requested' \in BOOLEAN /\ ctl' \in Control
    BY <1>23 DEF NewRun, Control
  <2> QED
    BY <1>23, <2>1, <2>2 DEF NewRun, TypeOK
<1>24. CASE Destroy
  BY <1>24 DEF Destroy, TypeOK, Control
<1>25. CASE Free
  BY <1>25 DEF Free, TypeOK, Control
<1>26. CASE Dead \/ UNCHANGED vars
  BY <1>26 DEF Dead, vars, TypeOK
<1> QED
  BY <1>1, <1>2, <1>3, <1>4, <1>5, <1>6, <1>7, <1>8, <1>9, <1>10, <1>11, <1>12,
     <1>13, <1>14, <1>15, <1>16, <1>17, <1>18, <1>19, <1>20, <1>21, <1>22, <1>23,
     <1>24, <1>25, <1>26 DEF Next, Bytecode, Scheduler

LEMMA InitTyped == Init => TypeOK
<1> SUFFICES ASSUME Init PROVE TypeOK
  OBVIOUS
<1>1. 0 \in 0 .. MaxRuns
  BY BoundAssumption
<1>2. <<>> \in Seq(Future) /\ <<>> \in Seq(Entry) /\ <<>> \in Seq(Drive)
  OBVIOUS
<1>3. /\ kind \in [Future -> {"free", "body", "leaf"}]
      /\ state \in [Future -> {0, 1}]
      /\ result \in [Future -> Result]
      /\ waiters \in [Future -> Seq(Future)]
      /\ awaiting \in [Future -> Context]
      /\ born \in [Future -> 0 .. MaxRuns]
  BY <1>1, <1>2 DEF Init, Result, Context
<1>4. dest \in [Future -> BOOLEAN]
  BY DEF Init
<1>5. reg \in [Context -> Result] /\ asked \in [Context -> Context]
  BY DEF Init, Result, Context
<1>6. current_task \in Context /\ ctl \in Control
  BY DEF Init, Context, Control
<1> QED
  BY <1>1, <1>2, <1>3, <1>4, <1>5, <1>6 DEF Init, TypeOK

\* Every variable of the scheduler keeps its type in every behaviour.
THEOREM TypeCorrect == Spec => []TypeOK
<1> QED
  BY InitTyped, TypeStep, PTL DEF Spec

-----------------------------------------------------------------------------
(* Ranges of sequences. *)

LEMMA RangeAppend ==
  ASSUME NEW S, NEW s \in Seq(S), NEW x \in S
  PROVE  Range(Append(s, x)) = Range(s) \cup {x}
<1>1. DOMAIN Append(s, x) = 1 .. Len(s) + 1 /\ DOMAIN s = 1 .. Len(s)
  OBVIOUS
<1>2. \A i \in 1 .. Len(s) : Append(s, x)[i] = s[i]
  OBVIOUS
<1>3. Append(s, x)[Len(s) + 1] = x
  OBVIOUS
<1>4. Len(s) \in Nat
  OBVIOUS
<1> QED
  BY <1>1, <1>2, <1>3, <1>4 DEF Range

LEMMA RangeConcat ==
  ASSUME NEW S, NEW s \in Seq(S), NEW t \in Seq(S)
  PROVE  Range(s \o t) = Range(s) \cup Range(t)
<1>1. /\ DOMAIN (s \o t) = 1 .. Len(s) + Len(t)
      /\ DOMAIN s = 1 .. Len(s) /\ DOMAIN t = 1 .. Len(t)
      /\ Len(s) \in Nat /\ Len(t) \in Nat
  OBVIOUS
<1>2. \A i \in 1 .. Len(s) : (s \o t)[i] = s[i] /\ i \in 1 .. Len(s) + Len(t)
  BY <1>1
<1>3. \A i \in 1 .. Len(t) : (s \o t)[Len(s) + i] = t[i]
  BY <1>1
<1>4. \A i \in 1 .. Len(t) : Len(s) + i \in 1 .. Len(s) + Len(t)
  BY <1>1
<1>5. \A i \in 1 .. Len(s) + Len(t) :
        i \in 1 .. Len(s) \/ (i - Len(s) \in 1 .. Len(t) /\ i = Len(s) + (i - Len(s)))
  BY <1>1
<1>6. ASSUME NEW y \in Range(s \o t) PROVE y \in Range(s) \cup Range(t)
  <2>1. PICK i \in 1 .. Len(s) + Len(t) : y = (s \o t)[i]
    BY <1>1 DEF Range
  <2>2. CASE i \in 1 .. Len(s)
    BY <1>1, <1>2, <2>1, <2>2 DEF Range
  <2>3. CASE i - Len(s) \in 1 .. Len(t) /\ i = Len(s) + (i - Len(s))
    BY <1>1, <1>3, <2>1, <2>3 DEF Range
  <2> QED
    BY <1>5, <2>2, <2>3
<1>7. ASSUME NEW y \in Range(s) \cup Range(t) PROVE y \in Range(s \o t)
  BY <1>1, <1>2, <1>3, <1>4 DEF Range
<1> QED
  BY <1>6, <1>7

LEMMA TailRange ==
  ASSUME NEW S, NEW s \in Seq(S), s # <<>>
  PROVE  /\ Head(s) \in Range(s)
         /\ Range(Tail(s)) \subseteq Range(s)
         /\ IsInjective(s) => IsInjective(Tail(s)) /\ Head(s) \notin Range(Tail(s))
<1>1. /\ DOMAIN s = 1 .. Len(s) /\ Len(s) \in Nat \ {0}
      /\ DOMAIN Tail(s) = 1 .. Len(s) - 1
  OBVIOUS
<1>2. Head(s) = s[1] /\ \A i \in DOMAIN Tail(s) : Tail(s)[i] = s[i + 1]
  OBVIOUS
<1>3. \A i \in DOMAIN Tail(s) : i + 1 \in DOMAIN s /\ i + 1 # 1
  BY <1>1
<1>4. 1 \in DOMAIN s
  BY <1>1
<1>5. Head(s) \in Range(s) /\ Range(Tail(s)) \subseteq Range(s)
  BY <1>2, <1>3, <1>4 DEF Range
<1>6. ASSUME IsInjective(s) PROVE IsInjective(Tail(s)) /\ Head(s) \notin Range(Tail(s))
  <2>1. \A i, j \in DOMAIN Tail(s) : Tail(s)[i] = Tail(s)[j] => i = j
    BY <1>1, <1>2, <1>3, <1>6 DEF IsInjective
  <2>2. \A i \in DOMAIN Tail(s) : Tail(s)[i] # Head(s)
    BY <1>2, <1>3, <1>4, <1>6 DEF IsInjective
  <2> QED
    BY <2>1, <2>2 DEF IsInjective, Range
<1> QED
  BY <1>5, <1>6

LEMMA InjectiveAppend ==
  ASSUME NEW S, NEW s \in Seq(S), NEW x \in S, IsInjective(s), x \notin Range(s)
  PROVE  IsInjective(Append(s, x))
<1>1. /\ DOMAIN Append(s, x) = 1 .. Len(s) + 1 /\ DOMAIN s = 1 .. Len(s)
      /\ Len(s) \in Nat
  OBVIOUS
<1>2. \A i \in 1 .. Len(s) : Append(s, x)[i] = s[i] /\ s[i] # x
  BY <1>1 DEF Range
<1>3. Append(s, x)[Len(s) + 1] = x
  OBVIOUS
<1> SUFFICES ASSUME NEW i \in 1 .. Len(s) + 1, NEW j \in 1 .. Len(s) + 1,
                    Append(s, x)[i] = Append(s, x)[j]
             PROVE  i = j
  BY <1>1 DEF IsInjective
<1>4. (i \in 1 .. Len(s) \/ i = Len(s) + 1) /\ (j \in 1 .. Len(s) \/ j = Len(s) + 1)
  BY <1>1
<1> QED
  BY <1>1, <1>2, <1>3, <1>4 DEF IsInjective

LEMMA ConcatInjective ==
  ASSUME NEW S, NEW s \in Seq(S), NEW t \in Seq(S), IsInjective(s), IsInjective(t),
         Range(s) \cap Range(t) = {}
  PROVE  IsInjective(s \o t)
<1>1. /\ DOMAIN (s \o t) = 1 .. Len(s) + Len(t)
      /\ DOMAIN s = 1 .. Len(s) /\ DOMAIN t = 1 .. Len(t)
      /\ Len(s) \in Nat /\ Len(t) \in Nat
  OBVIOUS
<1>2. \A i \in 1 .. Len(s) : (s \o t)[i] = s[i]
  BY <1>1
<1>3. \A i \in 1 .. Len(s) + Len(t) : i \notin 1 .. Len(s) =>
        i - Len(s) \in 1 .. Len(t) /\ (s \o t)[i] = t[i - Len(s)]
  BY <1>1
<1> SUFFICES ASSUME NEW i \in 1 .. Len(s) + Len(t), NEW j \in 1 .. Len(s) + Len(t),
                    (s \o t)[i] = (s \o t)[j]
             PROVE  i = j
  BY <1>1 DEF IsInjective
<1>4. CASE i \in 1 .. Len(s) /\ j \in 1 .. Len(s)
  BY <1>1, <1>2, <1>4 DEF IsInjective
<1>5. CASE i \notin 1 .. Len(s) /\ j \notin 1 .. Len(s)
  <2>1. i - Len(s) = j - Len(s)
    BY <1>1, <1>3, <1>5 DEF IsInjective
  <2> QED
    BY <2>1, <1>1
<1>6. CASE i \in 1 .. Len(s) /\ j \notin 1 .. Len(s)
  BY <1>1, <1>2, <1>3, <1>6 DEF Range
<1>7. CASE i \notin 1 .. Len(s) /\ j \in 1 .. Len(s)
  BY <1>1, <1>2, <1>3, <1>7 DEF Range
<1> QED
  BY <1>4, <1>5, <1>6, <1>7

-----------------------------------------------------------------------------
(* The inductive invariant. *)

\* A step that touches no future and makes nothing new runnable keeps it.
LEMMA MoveInv ==
  ASSUME TypeOK, Inv,
         UNCHANGED <<kind, state, result, waiters, awaiting, dest>>,
         \A c \in Future : reg'[c] = reg[c] /\ asked'[c] = asked[c],
         \A c \in Future : Runnable(c)' => Runnable(c)
  PROVE  AwaitInv' /\ KindInv' /\ ResumesWithAwaitedValue'
<1>1. AwaitInv'
  BY DEF Inv, AwaitInv, WaitsOn
<1>2. KindInv'
  BY DEF Inv, KindInv
<1>3. ResumesWithAwaitedValue'
  BY DEF Inv, ResumesWithAwaitedValue
<1> QED
  BY <1>1, <1>2, <1>3

\* Ending a slice.
LEMMA EndSlicePlace ==
  ASSUME TypeOK, Inv, EndSlice, UNCHANGED <<ready, drives>>
  PROVE  (\A c \in Future : Runnable(c)' => Runnable(c)) /\ (waiters' = waiters => PlaceInv')
<1>1. current_task' = Null
  BY DEF EndSlice
<1>2. Null \notin Range(ready)
  BY FutureAssumption DEF TypeOK, Range
<1>3. \A c \in Future : Runnable(c)' => Runnable(c)
  BY <1>1, FutureAssumption DEF Runnable, Executing
<1>4. ASSUME waiters' = waiters PROVE PlaceInv'
  BY <1>1, <1>2, <1>4 DEF Inv, PlaceInv
<1> QED
  BY <1>3, <1>4

\* Entering a loop moves the executing context below it.
LEMMA EnterPlace ==
  ASSUME TypeOK, Inv, NEW why, NEW target, Enter(why, target), ready' = ready
  PROVE  (\A c \in Future : Runnable(c)' => Runnable(c)) /\ (waiters' = waiters => PlaceInv')
<1> DEFINE d == [why |-> why, target |-> target, task |-> current_task]
<1>1. current_task' = Null /\ drives' = Append(drives, d) /\ d.task = current_task
  BY DEF Enter
<1>2. /\ DOMAIN drives = 1 .. Len(drives) /\ Len(drives) \in Nat
      /\ DOMAIN drives' = 1 .. Len(drives) + 1
      /\ \A i \in 1 .. Len(drives) : drives'[i] = drives[i]
      /\ drives'[Len(drives) + 1].task = current_task
  <2>1. drives \in Seq(Drive)
    BY DEF TypeOK
  <2> HIDE DEF d
  <2> QED
    BY <1>1, <2>1
<1>3. Null \notin Range(ready)
  BY FutureAssumption DEF TypeOK, Range
<1>4. \A i \in 1 .. Len(drives) + 1 : i \in 1 .. Len(drives) \/ i = Len(drives) + 1
  BY <1>2
<1>5. \A c \in Future : Runnable(c)' => Runnable(c)
  BY <1>1, <1>2, <1>4, FutureAssumption DEF Runnable, Executing
<1>6. ASSUME waiters' = waiters PROVE PlaceInv'
  <2>1. ASSUME NEW i \in DOMAIN drives', drives'[i].task # Null
        PROVE  /\ drives'[i].task \notin Range(ready') \cup {current_task'}
               /\ \A j \in DOMAIN drives' : drives'[j].task = drives'[i].task => i = j
    BY <1>1, <1>2, <1>4, <2>1 DEF Inv, PlaceInv
  <2> QED
    BY <1>1, <1>3, <1>6, <2>1 DEF Inv, PlaceInv
<1> QED
  BY <1>5, <1>6

\* Leaving a loop resumes the context below it.
LEMMA LoopExitPlace ==
  ASSUME TypeOK, Inv, LoopExit
  PROVE  (\A c \in Future : Runnable(c)' => Runnable(c)) /\ PlaceInv'
<1>1. /\ drives \in Seq(Drive) /\ drives # <<>> /\ waiters' = waiters
      /\ drives' = SubSeq(drives, 1, Len(drives) - 1)
      /\ ready' = ready /\ current_task' = drives[Len(drives)].task
  BY DEF LoopExit, Looping, Front, Top, TypeOK
<1>2. /\ DOMAIN drives = 1 .. Len(drives) /\ Len(drives) \in Nat \ {0}
      /\ DOMAIN drives' = 1 .. Len(drives) - 1
      /\ \A i \in 1 .. Len(drives) - 1 : drives'[i] = drives[i]
  BY <1>1
<1>3. Null \notin Range(ready)
  BY FutureAssumption DEF TypeOK, Range
<1>4. Len(drives) \in DOMAIN drives
      /\ \A i \in DOMAIN drives' : i \in DOMAIN drives /\ i # Len(drives)
  BY <1>2
<1>5. \A c \in Future : Runnable(c)' => Runnable(c)
  BY <1>1, <1>2, <1>4 DEF Runnable, Executing
<1>6. PlaceInv'
  BY <1>1, <1>2, <1>3, <1>4 DEF Inv, PlaceInv
<1> QED
  BY <1>5, <1>6

\* Running the head of the queue.
LEMMA RunTaskPlace ==
  ASSUME TypeOK, Inv, RunTask
  PROVE  (\A c \in Future : Runnable(c)' => Runnable(c)) /\ PlaceInv'
<1>1. /\ ready \in Seq(Future) /\ ready # <<>> /\ drives' = drives
      /\ ready' = Tail(ready) /\ current_task' = Head(ready) /\ waiters' = waiters
  BY DEF RunTask, TypeOK, heap
<1>2. IsInjective(ready)
  BY DEF Inv, PlaceInv
<1>3. /\ current_task' \in Range(ready)
      /\ Range(ready') \subseteq Range(ready)
      /\ IsInjective(ready') /\ current_task' \notin Range(ready')
  BY <1>1, <1>2, TailRange
<1>4. \A c \in Future : Runnable(c)' => Runnable(c)
  BY <1>1, <1>3 DEF Runnable, Executing
<1>5. PlaceInv'
  BY <1>1, <1>3 DEF Inv, PlaceInv
<1> QED
  BY <1>4, <1>5

\* A resolved future hands its waiters to the queue; no other future changes.
\* The caller is the future's own coroutine, ending its slice, or nobody's.
LEMMA ResolveInv ==
  ASSUME TypeOK, Inv, NEW f \in Future, NEW v \in Result, Resolve(f, v),
         UNCHANGED <<kind, asked, drives>>,
         \/ kind[f] = "leaf" /\ current_task' = current_task
         \/ current_task = f /\ current_task' = Null
  PROVE  AwaitInv' /\ KindInv' /\ PlaceInv' /\ ResumesWithAwaitedValue'
<1> DEFINE woken == Range(waiters[f])
<1>1. /\ waiters \in [Future -> Seq(Future)] /\ ready \in Seq(Future)
      /\ state \in [Future -> {0, 1}] /\ awaiting \in [Future -> Context]
      /\ dest \in [Future -> BOOLEAN] /\ result \in [Future -> Result]
      /\ reg \in [Context -> Result] /\ drives \in Seq(Drive)
  BY DEF TypeOK
<1>2. awaiting[f] = Null /\ f \notin woken
  <2>1. kind[f] = "leaf" \/ Runnable(f)
    BY DEF Runnable, Executing
  <2>2. awaiting[f] = Null
    BY <2>1 DEF Inv, KindInv
  <2>3. f \notin woken
    BY <2>2, FutureAssumption DEF Inv, AwaitInv, WaitsOn
  <2> QED
    BY <2>2, <2>3
<1>3. woken \subseteq Future /\ Null \notin Range(ready)
  BY <1>1, FutureAssumption DEF Range
<1>4. CASE state[f] # 0
  <2>1. current_task # f
    BY <1>4 DEF Inv, KindInv, Runnable, Executing
  <2>2. UNCHANGED <<state, result, waiters, awaiting, dest, reg, ready, current_task>>
    BY <1>4, <2>1 DEF Resolve
  <2>3. PlaceInv'
    BY <2>2 DEF Inv, PlaceInv
  <2>4. \A c \in Future : Runnable(c)' => Runnable(c)
    BY <2>2 DEF Runnable, Executing
  <2> QED
    BY <2>2, <2>3, <2>4, MoveInv
<1>5. CASE state[f] = 0
  <2>1. /\ state' = [state EXCEPT ![f] = 1]
        /\ result' = [result EXCEPT ![f] = v]
        /\ waiters' = [waiters EXCEPT ![f] = <<>>]
        /\ awaiting' = [w \in Future |-> IF w \in woken THEN Null ELSE awaiting[w]]
        /\ dest' = [w \in Future |-> IF w \in woken THEN FALSE ELSE dest[w]]
        /\ reg' = [c \in Context |-> IF c \in woken /\ dest[c] THEN v ELSE reg[c]]
        /\ ready' = ready \o waiters[f]
    BY <1>5 DEF Resolve
  <2>2. Range(ready') = Range(ready) \cup woken
    BY <1>1, <2>1, RangeConcat
  <2>3. \A w \in Future : w \in woken <=> awaiting[w] = f
    BY DEF Inv, AwaitInv, WaitsOn
  <2>4. \A w, g \in Future :
          /\ g = f => Range(waiters'[g]) = {}
          /\ g # f => waiters'[g] = waiters[g]
    BY <1>1, <2>1 DEF Range
  <2>5. AwaitInv'
    <3>1. \A w, g \in Future : WaitsOn(w, g)' <=> awaiting'[w] = g
      BY <1>1, <2>1, <2>3, <2>4, FutureAssumption DEF Inv, AwaitInv, WaitsOn, Context
    <3>2. ASSUME NEW w \in Future, awaiting'[w] # Null
          PROVE  dest'[w] /\ asked'[w] = awaiting'[w] /\ state'[awaiting'[w]] = 0
      <4>1. w \notin woken /\ awaiting'[w] = awaiting[w]
        BY <2>1, <3>2
      <4>2. dest'[w] = dest[w]
        BY <2>1, <4>1, Zenon
      <4>3. dest[w] /\ asked[w] = awaiting[w] /\ state[awaiting[w]] = 0
        BY <3>2, <4>1 DEF Inv, AwaitInv
      <4>4. awaiting[w] \in Future /\ awaiting[w] # f
        BY <1>1, <2>3, <3>2, <4>1 DEF Context
      <4>5. state'[awaiting[w]] = 0
        BY <1>1, <2>1, <4>3, <4>4
      <4> QED
        BY <4>1, <4>2, <4>3, <4>5
    <3> QED
      BY <3>1, <3>2 DEF AwaitInv
  <2>6. \A c \in Future : Runnable(c)' => c # f /\ (Runnable(c) \/ c \in woken)
    <3>1. CASE kind[f] = "leaf" /\ current_task' = current_task
      BY <1>2, <2>2, <3>1 DEF Runnable, Executing, Inv, KindInv
    <3>2. CASE current_task = f /\ current_task' = Null
      BY <1>2, <2>2, <3>2, FutureAssumption
         DEF Runnable, Executing, Inv, PlaceInv
    <3> QED
      BY <3>1, <3>2
  <2>7. \A c \in woken : kind[c] = "body" /\ state[c] = 0
    BY <1>3, <2>3, FutureAssumption DEF Inv, KindInv
  <2>8. KindInv'
    <3>1. ASSUME NEW c \in Future, Runnable(c)'
          PROVE  kind'[c] = "body" /\ state'[c] = 0 /\ awaiting'[c] = Null
      BY <1>1, <2>1, <2>6, <2>7, <3>1 DEF Inv, KindInv
    <3>2. ASSUME NEW c \in Future, awaiting'[c] # Null
          PROVE  kind'[c] = "body" /\ state'[c] = 0
      BY <1>1, <1>2, <2>1, <3>2 DEF Inv, KindInv
    <3>3. ASSUME NEW c \in Future, kind'[c] = "free"
          PROVE  state'[c] = 0 /\ waiters'[c] = <<>>
      <4>1. kind[f] # "free"
        BY DEF Inv, KindInv, Runnable, Executing
      <4> QED
        BY <1>1, <2>1, <3>3, <4>1 DEF Inv, KindInv
    <3> QED
      BY <3>1, <3>2, <3>3 DEF KindInv
  <2>9. PlaceInv'
    <3>1. IsInjective(ready')
      <4>1. Range(ready) \cap woken = {}
        BY <1>3, <2>3, FutureAssumption DEF Inv, KindInv, Runnable
      <4>2. IsInjective(ready) /\ IsInjective(waiters[f])
        BY DEF Inv, PlaceInv
      <4> QED
        BY <1>1, <2>1, <4>1, <4>2, ConcatInjective
    <3>2. \A g \in Future : IsInjective(waiters'[g])
      <4>1. IsInjective(<<>>)
        BY DEF IsInjective
      <4> QED
        BY <1>1, <2>1, <4>1 DEF Inv, PlaceInv
    <3>3. \A i \in DOMAIN drives : drives[i].task # Null =>
            drives[i].task \in Future /\ drives[i].task \notin woken
      <4>1. \A i \in DOMAIN drives : drives[i].task \in Context
        BY <1>1 DEF Drive
      <4>2. \A i \in DOMAIN drives : drives[i].task \in Future =>
              awaiting[drives[i].task] = Null
        BY DEF Inv, KindInv, Runnable, Executing
      <4> QED
        BY <2>3, <4>1, <4>2, FutureAssumption DEF Context
    <3>4. current_task' \notin Range(ready')
      <4>1. current_task' \notin Range(ready)
        BY <1>3 DEF Inv, PlaceInv
      <4>2. current_task' \notin woken
        BY <1>3, <2>3, FutureAssumption DEF Inv, KindInv, Runnable, Executing
      <4> QED
        BY <2>2, <4>1, <4>2
    <3>5. \A i \in DOMAIN drives : drives[i].task # Null =>
            drives[i].task # current_task'
      BY DEF Inv, PlaceInv
    <3> QED
      BY <2>2, <3>1, <3>2, <3>3, <3>4, <3>5 DEF Inv, PlaceInv
  <2>10. ResumesWithAwaitedValue'
    <3>1. ASSUME NEW c \in Future, asked'[c] # Null, awaiting'[c] = Null
          PROVE  state'[asked'[c]] = 1 /\ reg'[c] = result'[asked'[c]]
      <4>1. CASE c \in woken
        <5>1. awaiting[c] = f /\ dest[c] /\ asked[c] = f
          BY <2>3, <4>1, FutureAssumption DEF Inv, AwaitInv
        <5>2. reg'[c] = v
          BY <2>1, <4>1, <5>1 DEF Context
        <5> QED
          BY <1>1, <2>1, <5>1, <5>2
      <4>2. CASE c \notin woken
        <5>1. awaiting[c] = Null /\ reg'[c] = reg[c]
          BY <2>1, <3>1, <4>2 DEF Context
        <5>2. state[asked[c]] = 1 /\ reg[c] = result[asked[c]]
          BY <3>1, <5>1 DEF Inv, ResumesWithAwaitedValue
        <5>3. asked[c] # f
          BY <1>5, <5>2
        <5> QED
          BY <1>1, <2>1, <5>1, <5>2, <5>3
      <4> QED
        BY <4>1, <4>2
    <3> QED
      BY <3>1 DEF ResumesWithAwaitedValue
  <2> QED
    BY <2>5, <2>8, <2>9, <2>10
<1> QED
  BY <1>1, <1>4, <1>5

\* A fresh future is in no use, so starting its body only adds a queue entry or
\* an already resolved future. The caller stays where it is or enters a loop.
LEMMA NewBodyInv ==
  ASSUME TypeOK, Inv, NEW f \in Future, NewBody(f),
         UNCHANGED <<waiters, awaiting, dest, reg, asked>>,
         \/ UNCHANGED <<current_task, drives>>
         \/ Enter("call", f)
  PROVE  AwaitInv' /\ KindInv' /\ PlaceInv' /\ ResumesWithAwaitedValue'
<1>1. /\ kind \in [Future -> {"free", "body", "leaf"}] /\ ready \in Seq(Future)
      /\ state \in [Future -> {0, 1}] /\ result \in [Future -> Result]
      /\ waiters \in [Future -> Seq(Future)] /\ asked \in [Context -> Context]
  BY DEF TypeOK
<1>2. /\ kind[f] = "free" /\ kind' = [kind EXCEPT ![f] = "body"]
      /\ \/ ready' = Append(ready, f) /\ UNCHANGED <<state, result>>
         \/ /\ ready' = ready
            /\ state' = [state EXCEPT ![f] = 1]
            /\ result' = [result EXCEPT ![f] = None]
  BY DEF NewBody
<1>3. /\ state[f] = 0 /\ waiters[f] = <<>> /\ ~Runnable(f) /\ awaiting[f] = Null
      /\ \A w \in Future : awaiting[w] # f
  <2>1. state[f] = 0 /\ waiters[f] = <<>> /\ ~Runnable(f) /\ awaiting[f] = Null
    BY <1>2 DEF Inv, KindInv
  <2>2. \A w \in Future : ~WaitsOn(w, f)
    BY <2>1 DEF WaitsOn, Range
  <2> QED
    BY <2>1, <2>2 DEF Inv, AwaitInv
<1>4. Range(ready') \subseteq Range(ready) \cup {f}
  <2>1. CASE ready' = Append(ready, f)
    <3>1. Range(Append(ready, f)) = Range(ready) \cup {f}
      BY <1>1, RangeAppend
    <3> QED
      BY <2>1, <3>1
  <2>2. CASE ready' = ready
    BY <2>2
  <2> QED
    BY <1>2, <2>1, <2>2
<1>5. \A c \in Future : Executing(c)' => Executing(c)
  <2>1. CASE UNCHANGED <<current_task, drives>>
    BY <2>1 DEF Executing
  <2>2. CASE Enter("call", f)
    <3>1. drives \in Seq(Drive) /\ current_task' = Null
          /\ drives' = Append(drives, [why |-> "call", target |-> f,
                                       task |-> current_task])
      BY <2>2 DEF Enter, TypeOK
    <3>2. /\ \A i \in DOMAIN drives' : i \in DOMAIN drives \/ i = Len(drives) + 1
          /\ \A i \in DOMAIN drives : drives'[i] = drives[i]
          /\ drives'[Len(drives) + 1].task = current_task
      BY <3>1
    <3> QED
      BY <3>1, <3>2, FutureAssumption DEF Executing
  <2> QED
    BY <2>1, <2>2
<1>6. AwaitInv'
  <2>1. \A g \in Future : g # f => state'[g] = state[g]
    BY <1>1, <1>2
  <2>2. ASSUME NEW w \in Future, awaiting[w] # Null
        PROVE  dest[w] /\ asked[w] = awaiting[w] /\ state'[awaiting[w]] = 0
    <3>1. awaiting[w] \in Future /\ awaiting[w] # f
      BY <1>3, <2>2 DEF TypeOK, Context
    <3> QED
      BY <2>1, <2>2, <3>1 DEF Inv, AwaitInv
  <2> QED
    BY <2>2 DEF Inv, AwaitInv, WaitsOn
<1>7. KindInv'
  <2>1. CASE ready' = Append(ready, f) /\ UNCHANGED <<state, result>>
    BY <1>1, <1>2, <1>3, <1>4, <1>5, <2>1 DEF Inv, KindInv, Runnable
  <2>2. CASE ready' = ready /\ state' = [state EXCEPT ![f] = 1]
    BY <1>1, <1>2, <1>3, <1>5, <2>2 DEF Inv, KindInv, Runnable
  <2> QED
    BY <1>2, <2>1, <2>2
<1>8. PlaceInv'
  <2>1. IsInjective(ready')
    <3>1. IsInjective(ready) /\ f \notin Range(ready)
      BY <1>3 DEF Inv, PlaceInv, Runnable
    <3>2. IsInjective(Append(ready, f))
      BY <1>1, <3>1, InjectiveAppend
    <3> QED
      BY <1>2, <3>1, <3>2
  <2>2. f # current_task /\ \A i \in DOMAIN drives : drives[i].task # f
    BY <1>3 DEF Runnable, Executing
  <2>3. CASE UNCHANGED <<current_task, drives>>
    BY <1>4, <2>1, <2>2, <2>3 DEF Inv, PlaceInv
  <2>4. CASE Enter("call", f)
    <3>1. drives \in Seq(Drive) /\ current_task' = Null
          /\ drives' = Append(drives, [why |-> "call", target |-> f,
                                       task |-> current_task])
      BY <2>4 DEF Enter, TypeOK
    <3>2. /\ \A i \in DOMAIN drives' : i \in DOMAIN drives \/ i = Len(drives) + 1
          /\ \A i \in DOMAIN drives : drives'[i] = drives[i]
          /\ drives'[Len(drives) + 1].task = current_task
      BY <3>1
    <3>3. Null \notin Range(ready')
      <4>1. Null \notin Range(ready)
        BY <1>1, FutureAssumption DEF Range
      <4> QED
        BY <1>4, <4>1, FutureAssumption
    <3>4. ASSUME NEW i \in DOMAIN drives', drives'[i].task # Null
          PROVE  /\ drives'[i].task \notin Range(ready') \cup {current_task'}
                 /\ \A j \in DOMAIN drives' : drives'[j].task = drives'[i].task => i = j
      BY <1>4, <2>2, <3>1, <3>2, <3>4 DEF Inv, PlaceInv
    <3> QED
      BY <2>1, <3>1, <3>3, <3>4 DEF Inv, PlaceInv
  <2> QED
    BY <2>3, <2>4
<1>9. ResumesWithAwaitedValue'
  <2>1. ASSUME NEW c \in Future, asked[c] # Null, awaiting[c] = Null
        PROVE  state'[asked[c]] = 1 /\ reg[c] = result'[asked[c]]
    <3>1. state[asked[c]] = 1 /\ reg[c] = result[asked[c]]
      BY <2>1 DEF Inv, ResumesWithAwaitedValue
    <3>2. asked[c] # f /\ asked[c] \in Future
      BY <1>1, <1>3, <2>1, <3>1 DEF Context
    <3>3. state'[asked[c]] = state[asked[c]] /\ result'[asked[c]] = result[asked[c]]
      BY <1>1, <1>2, <3>2
    <3> QED
      BY <3>1, <3>3
  <2> QED
    BY <2>1 DEF ResumesWithAwaitedValue
<1> QED
  BY <1>6, <1>7, <1>8, <1>9

\* A new leaf future is in no use either.
LEMMA NewLeafInv ==
  ASSUME TypeOK, Inv, NEW f \in Future, NewLeaf(f), NEW e, AfterBuiltin(e),
         UNCHANGED <<state, result, waiters, awaiting, dest, reg, asked, ready, drives>>
  PROVE  AwaitInv' /\ KindInv' /\ PlaceInv' /\ ResumesWithAwaitedValue'
<1>1. kind[f] = "free" /\ kind' = [kind EXCEPT ![f] = "leaf"]
      /\ kind \in [Future -> {"free", "body", "leaf"}]
  BY DEF NewLeaf, TypeOK
<1>2. (\A c \in Future : Runnable(c)' => Runnable(c)) /\ PlaceInv'
  <2>1. CASE EndSlice
    BY <2>1, EndSlicePlace
  <2>2. CASE current_task' = current_task
    BY <2>2 DEF Runnable, Executing, Inv, PlaceInv
  <2> QED
    BY <2>1, <2>2 DEF AfterBuiltin
<1>3. AwaitInv'
  BY DEF Inv, AwaitInv, WaitsOn
<1>4. KindInv'
  BY <1>1, <1>2 DEF Inv, KindInv
<1>5. ResumesWithAwaitedValue'
  BY DEF Inv, ResumesWithAwaitedValue
<1> QED
  BY <1>2, <1>3, <1>4, <1>5

\* Suspending adds the running coroutine to one list; it is in no other place.
LEMMA AwaitSuspendInv ==
  ASSUME TypeOK, Inv, NEW f \in Future, AwaitSuspend(f)
  PROVE  AwaitInv' /\ KindInv' /\ PlaceInv' /\ ResumesWithAwaitedValue'
<1> DEFINE c == current_task
<1>1. /\ waiters \in [Future -> Seq(Future)] /\ awaiting \in [Future -> Context]
      /\ dest \in [Future -> BOOLEAN] /\ asked \in [Context -> Context]
      /\ ready \in Seq(Future) /\ c \in Future
  BY DEF TypeOK, AwaitSuspend, Context
<1>2. /\ waiters' = [waiters EXCEPT ![f] = Append(waiters[f], c)]
      /\ awaiting' = [awaiting EXCEPT ![c] = f]
      /\ dest' = [dest EXCEPT ![c] = TRUE]
      /\ asked' = [asked EXCEPT ![c] = f]
      /\ current_task' = Null
      /\ kind[f] # "free" /\ state[f] = 0
      /\ UNCHANGED <<kind, state, result, reg, ready, drives>>
  BY DEF AwaitSuspend, EndSlice, Held
<1>3. awaiting[c] = Null /\ kind[c] = "body" /\ state[c] = 0
  BY <1>1 DEF Inv, KindInv, Runnable, Executing
<1>4. Range(waiters'[f]) = Range(waiters[f]) \cup {c} /\ c \notin Range(waiters[f])
  <2>1. waiters[f] \in Seq(Future) /\ waiters'[f] = Append(waiters[f], c)
    BY <1>1, <1>2
  <2>2. Range(waiters'[f]) = Range(waiters[f]) \cup {c}
    BY <1>1, <2>1, RangeAppend
  <2>3. c \notin Range(waiters[f])
    BY <1>1, <1>3, FutureAssumption DEF Inv, AwaitInv, WaitsOn
  <2> QED
    BY <2>2, <2>3
<1>5. \A g \in Future : g # f => waiters'[g] = waiters[g]
  BY <1>1, <1>2
<1>6. c \notin Range(ready) /\ \A i \in DOMAIN drives : drives[i].task # c
  BY <1>1, FutureAssumption DEF Inv, PlaceInv
<1>7. \A w \in Future : Runnable(w)' => Runnable(w) /\ w # c
  BY <1>1, <1>2, <1>6, FutureAssumption DEF Runnable, Executing
<1>8. AwaitInv'
  <2>1. ASSUME NEW w \in Future, NEW g \in Future
        PROVE  WaitsOn(w, g)' <=> awaiting'[w] = g
    <3>1. WaitsOn(w, g) <=> awaiting[w] = g
      BY DEF Inv, AwaitInv
    <3>2. CASE w = c
      BY <1>1, <1>2, <1>3, <1>4, <1>5, <3>1, <3>2, FutureAssumption DEF WaitsOn
    <3>3. CASE w # c
      BY <1>1, <1>2, <1>4, <1>5, <3>1, <3>3 DEF WaitsOn
    <3> QED
      BY <3>2, <3>3
  <2>2. ASSUME NEW w \in Future, awaiting'[w] # Null
        PROVE  dest'[w] /\ asked'[w] = awaiting'[w] /\ state'[awaiting'[w]] = 0
    <3>1. CASE w = c
      <4>1. dest'[c] = TRUE
        BY <1>1, <1>2, Zenon
      <4> QED
        BY <1>1, <1>2, <3>1, <4>1 DEF Context
    <3>2. CASE w # c
      <4>1. dest'[w] = dest[w]
        BY <1>1, <1>2, <3>2, Zenon
      <4>2. asked'[w] = asked[w] /\ awaiting'[w] = awaiting[w]
        BY <1>1, <1>2, <3>2 DEF Context
      <4> QED
        BY <1>2, <2>2, <4>1, <4>2 DEF Inv, AwaitInv
    <3> QED
      BY <3>1, <3>2
  <2> QED
    BY <2>1, <2>2 DEF AwaitInv
<1>9. KindInv'
  BY <1>1, <1>2, <1>3, <1>5, <1>7 DEF Inv, KindInv
<1>10. PlaceInv'
  <2>1. IsInjective(waiters'[f])
    <3>1. waiters[f] \in Seq(Future) /\ IsInjective(waiters[f])
      BY <1>1 DEF Inv, PlaceInv
    <3> QED
      BY <1>1, <1>2, <1>4, <3>1, InjectiveAppend
  <2>2. Null \notin Range(ready)
    BY <1>1, FutureAssumption DEF Range
  <2> QED
    BY <1>2, <1>5, <2>1, <2>2 DEF Inv, PlaceInv
<1>11. ResumesWithAwaitedValue'
  <2>1. ASSUME NEW w \in Future, asked'[w] # Null, awaiting'[w] = Null
        PROVE  state'[asked'[w]] = 1 /\ reg'[w] = result'[asked'[w]]
    <3>1. w # c
      BY <1>1, <1>2, <2>1, FutureAssumption
    <3>2. asked'[w] = asked[w] /\ awaiting'[w] = awaiting[w]
      BY <1>1, <1>2, <3>1 DEF Context
    <3> QED
      BY <1>2, <2>1, <3>2 DEF Inv, ResumesWithAwaitedValue
  <2> QED
    BY <2>1 DEF ResumesWithAwaitedValue
<1> QED
  BY <1>8, <1>9, <1>10, <1>11

\* A leaf future stays one, so a list that only loses entries keeps LeafInv.
LEMMA LeafStep == TypeOK /\ Inv /\ [Next]_vars => LeafInv'
<1> SUFFICES ASSUME TypeOK, Inv, [Next]_vars PROVE LeafInv'
  OBVIOUS
<1> USE DEF heap, posted, wakeup, flags, control
<1>1. LeafInv
  BY DEF Inv
<1>2. /\ kind \in [Future -> {"free", "body", "leaf"}] /\ timers \in Seq(Future)
      /\ completions \in Seq(Entry) /\ batch \in Seq(Entry)
      /\ workers \in SUBSET Future
  BY DEF TypeOK
<1>3. ASSUME UNCHANGED <<kind, timers, batch, completions, workers>> PROVE LeafInv'
  BY <1>1, <1>3 DEF LeafInv
<1>0. /\ \A i \in DOMAIN timers : timers[i] \in Future
      /\ \A i \in DOMAIN batch : batch[i].fut \in Future
      /\ \A i \in DOMAIN completions : completions[i].fut \in Future
  <2>1. /\ \A i \in DOMAIN timers : timers[i] \in Future
        /\ \A i \in DOMAIN batch : batch[i] \in Entry
        /\ \A i \in DOMAIN completions : completions[i] \in Entry
    BY <1>2
  <2>2. \A e \in Entry : e.fut \in Future
    BY DEF Entry
  <2> QED
    BY <2>1, <2>2
<1>4. ASSUME NEW f \in Future, NewBody(f), UNCHANGED <<timers, batch, completions, workers>>
      PROVE  LeafInv'
  <2>1. \A g \in Future : kind[g] = "leaf" => kind'[g] = "leaf"
    BY <1>2, <1>4 DEF NewBody
  <2>2. /\ \A i \in DOMAIN timers : timers[i] \in Future
        /\ \A i \in DOMAIN batch : batch[i].fut \in Future
        /\ \A i \in DOMAIN completions : completions[i].fut \in Future
    BY <1>0
  <2> QED
    BY <1>1, <1>2, <1>4, <2>1, <2>2 DEF LeafInv
<1>5. ASSUME NEW f \in Future, AsyncWait(f) PROVE LeafInv'
  <2>1. /\ \A g \in Future : kind[g] = "leaf" => kind'[g] = "leaf"
        /\ kind'[f] = "leaf"
    BY <1>2, <1>5 DEF AsyncWait, NewLeaf
  <2>2. /\ \A i \in DOMAIN batch : batch[i].fut \in Future
        /\ \A i \in DOMAIN completions : completions[i].fut \in Future
    BY <1>0
  <2>3. \A i \in DOMAIN timers' : kind'[timers'[i]] = "leaf"
    <3>1. timers' = <<f>> \o timers
      BY <1>5 DEF AsyncWait
    <3>2. \A i \in DOMAIN timers' :
            timers'[i] = f \/ (i - 1 \in DOMAIN timers /\ timers'[i] = timers[i - 1])
      BY <1>2, <3>1
    <3>3. \A i \in DOMAIN timers : timers[i] \in Future
      BY <1>2
    <3> QED
      BY <1>1, <2>1, <3>2, <3>3 DEF LeafInv
  <2>4. UNCHANGED <<batch, completions, workers>>
    BY <1>5 DEF AsyncWait
  <2> QED
    BY <1>1, <1>2, <2>1, <2>2, <2>3, <2>4 DEF LeafInv
<1>6. ASSUME NEW f \in Future, NEW r \in Result, kind'[f] = "leaf",
             \A g \in Future : kind[g] = "leaf" => kind'[g] = "leaf",
             \/ completions' = completions
             \/ completions' = <<[fut |-> f, val |-> r]>> \o completions,
             workers' \subseteq workers \cup {f}, UNCHANGED <<timers, batch>>
      PROVE  LeafInv'
  <2>1. /\ \A i \in DOMAIN batch : batch[i].fut \in Future
        /\ \A i \in DOMAIN completions : completions[i].fut \in Future
        /\ \A i \in DOMAIN timers : timers[i] \in Future
    BY <1>0
  <2>2. \A i \in DOMAIN completions' : kind'[completions'[i].fut] = "leaf"
    <3>1. CASE completions' = completions
      BY <1>1, <1>6, <2>1, <3>1 DEF LeafInv
    <3>2. CASE completions' = <<[fut |-> f, val |-> r]>> \o completions
      <4>1. \A i \in DOMAIN completions' :
              \/ completions'[i].fut = f
              \/ i - 1 \in DOMAIN completions /\ completions'[i] = completions[i - 1]
        BY <1>2, <3>2
      <4> QED
        BY <1>1, <1>6, <2>1, <4>1 DEF LeafInv
    <3> QED
      BY <1>6, <3>1, <3>2
  <2> QED
    BY <1>1, <1>2, <1>6, <2>1, <2>2 DEF LeafInv
<1>7. ASSUME NEW f \in Future, AsyncWork(f) PROVE LeafInv'
  <2>1. /\ \A g \in Future : kind[g] = "leaf" => kind'[g] = "leaf"
        /\ kind'[f] = "leaf"
    BY <1>2, <1>7 DEF AsyncWork, NewLeaf
  <2> QED
    BY <1>6, <1>7, <2>1 DEF AsyncWork, Result
<1>8. ASSUME NEW f \in Future, NEW v \in Value, WorkerPost(f, v) PROVE LeafInv'
  <2>1. kind'[f] = "leaf" /\ kind' = kind
    BY <1>1, <1>8 DEF WorkerPost, LeafInv
  <2> QED
    BY <1>6, <1>8, <2>1 DEF WorkerPost, Result
<1>9. CASE Drain
  BY <1>1, <1>9 DEF Drain, LeafInv
<1>10. CASE WakeNext
  <2>1. \A i \in DOMAIN batch' : i + 1 \in DOMAIN batch /\ batch'[i] = batch[i + 1]
    BY <1>2, <1>10 DEF WakeNext
  <2> QED
    BY <1>1, <1>10, <2>1 DEF WakeNext, LeafInv
<1>11. CASE PollFire
  <2>1. timers \in Seq(Future) /\ cursor \in 1 .. Len(timers)
    BY <1>2, <1>11 DEF PollFire
  <2>2. /\ timers' = SubSeq(timers, 1, cursor - 1)
                     \o SubSeq(timers, cursor + 1, Len(timers))
    BY <1>11 DEF PollFire, RemoveAt
  <2>3. Range(timers') \subseteq Range(timers)
    <3> DEFINE a == SubSeq(timers, 1, cursor - 1)
               b == SubSeq(timers, cursor + 1, Len(timers))
    <3>1. a \in Seq(Future) /\ b \in Seq(Future)
      BY <2>1
    <3>2. /\ \A i \in DOMAIN a : i \in DOMAIN timers /\ a[i] = timers[i]
          /\ \A i \in DOMAIN b : i + cursor \in DOMAIN timers /\ b[i] = timers[i + cursor]
      BY <2>1
    <3>3. Range(a) \subseteq Range(timers) /\ Range(b) \subseteq Range(timers)
      BY <3>2 DEF Range
    <3> HIDE DEF a, b
    <3>4. Range(a \o b) = Range(a) \cup Range(b)
      BY <3>1, RangeConcat
    <3> QED
      BY <2>2, <3>3, <3>4 DEF a, b
  <2>4. \A i \in DOMAIN timers' : timers'[i] \in Range(timers)
    BY <2>3 DEF Range
  <2>5. \A i \in DOMAIN timers' : kind[timers'[i]] = "leaf"
    BY <1>1, <2>4 DEF LeafInv, Range
  <2> QED
    BY <1>1, <1>11, <2>5 DEF PollFire, LeafInv
<1>12. CASE Free
  BY <1>1, <1>12 DEF Free, LeafInv
<1>13. ASSUME NEW f \in Future, AsyncCall(f) \/ CallFunction(f) PROVE LeafInv'
  BY <1>4, <1>13 DEF AsyncCall, CallFunction
<1>14. ASSUME NEW f \in Future, AwaitResolved(f) \/ AwaitSuspend(f) \/ AwaitDrive(f)
       PROVE  LeafInv'
  BY <1>3, <1>14 DEF AwaitResolved, AwaitSuspend, AwaitDrive
<1>15. ASSUME NEW v \in Value, Return(v) PROVE LeafInv'
  BY <1>3, <1>15 DEF Return
<1>16. CASE Exit \/ RuntimeError \/ EndBuiltin \/ Halt \/ LoopExit \/ RunTask
  BY <1>3, <1>16 DEF Exit, RuntimeError, EndBuiltin, Halt, LoopExit, RunTask
<1>17. CASE WakeEnd \/ PollStart \/ PollSkip \/ PollEnd \/ NewRun \/ Destroy \/ Dead
            \/ UNCHANGED vars
  BY <1>3, <1>17 DEF WakeEnd, PollStart, PollSkip, PollEnd, NewRun, Destroy, Dead, vars
<1> QED
  BY <1>5, <1>7, <1>8, <1>9, <1>10, <1>11, <1>12, <1>13, <1>14, <1>15, <1>16, <1>17
     DEF Next, Bytecode, Scheduler

\* A new loop opened by the context that runs.
LEMMA EnterDrive ==
  ASSUME TypeOK, DriveInv, NEW why, NEW target, Enter(why, target),
         ctl \in {"code", "builtin"}, why # "call" => current_task = Null
  PROVE  DriveInv'
<1> DEFINE d == [why |-> why, target |-> target, task |-> current_task]
<1>1. drives' = Append(drives, d) /\ ctl' = "head" /\ d.task = current_task /\ d.why = why
  BY DEF Enter
<1>2. /\ DOMAIN drives = 1 .. Len(drives) /\ Len(drives) \in Nat
      /\ DOMAIN drives' = 1 .. Len(drives) + 1
      /\ drives'[Len(drives) + 1] = d
      /\ \A i \in 1 .. Len(drives) : drives'[i] = drives[i]
  BY <1>1 DEF TypeOK
<1> HIDE DEF d
<1>3. why # "call" \/ current_task = Null => Len(drives) = 0
  BY DEF DriveInv
<1>4. \A i \in DOMAIN drives' : drives'[i].why # "call" \/ drives'[i].task = Null => i = 1
  BY <1>1, <1>2, <1>3 DEF DriveInv
<1> QED
  BY <1>1, <1>4 DEF DriveInv

LEMMA DriveStep == TypeOK /\ Inv /\ [Next]_vars => DriveInv'
<1> SUFFICES ASSUME TypeOK, Inv, [Next]_vars PROVE DriveInv'
  OBVIOUS
<1> USE DEF heap, posted, wakeup, flags, control
<1>1. DriveInv
  BY DEF Inv
<1>2. ASSUME UNCHANGED drives,
             \/ UNCHANGED <<ctl, current_task>>
             \/ ctl' \in {"head", "ready", "wake", "poll"}
             \/ drives = <<>>
             \/ ctl' = "code" /\ current_task' # Null
      PROVE  DriveInv'
  BY <1>1, <1>2 DEF DriveInv
<1>3. ASSUME ctl \in {"code", "builtin"}, EndSlice, UNCHANGED drives PROVE DriveInv'
  BY <1>1, <1>2, <1>3 DEF EndSlice, DriveInv
<1>4. ASSUME NEW f \in Future, \/ AsyncCall(f) \/ AsyncWait(f) \/ AsyncWork(f)
                               \/ AwaitResolved(f) \/ AwaitSuspend(f)
      PROVE  DriveInv'
  BY <1>2, <1>3, <1>4
     DEF AsyncCall, AsyncWait, AsyncWork, AwaitResolved, AwaitSuspend, AfterBuiltin
<1>5. ASSUME NEW f \in Future, AwaitDrive(f) \/ CallFunction(f) PROVE DriveInv'
  BY <1>1, <1>5, EnterDrive DEF AwaitDrive, CallFunction
<1>6. ASSUME NEW v \in Value, Return(v) PROVE DriveInv'
  BY <1>3, <1>6 DEF Return
<1>7. CASE Exit \/ RuntimeError
  BY <1>3, <1>7 DEF Exit, RuntimeError
<1>8. CASE EndBuiltin
  <2>1. CASE exit_requested
    BY <1>3, <1>8, <2>1 DEF EndBuiltin
  <2>2. CASE ~exit_requested
    BY <1>1, <1>8, <2>2 DEF EndBuiltin, DriveInv
  <2> QED
    BY <2>1, <2>2
<1>9. CASE Halt
  BY <1>1, <1>3, <1>9, EnterDrive DEF Halt
<1>10. CASE LoopExit
  <2>1. /\ drives \in Seq(Drive) /\ drives # <<>>
        /\ drives' = SubSeq(drives, 1, Len(drives) - 1)
        /\ current_task' = drives[Len(drives)].task
    BY <1>10 DEF LoopExit, Looping, Front, Top, TypeOK
  <2>2. /\ Len(drives) \in Nat \ {0} /\ DOMAIN drives = 1 .. Len(drives)
        /\ DOMAIN drives' = 1 .. Len(drives) - 1
        /\ \A i \in DOMAIN drives' : drives'[i] = drives[i]
    BY <2>1
  <2>3. drives[Len(drives)] \in Drive
    BY <2>1, <2>2
  <2>4. drives[Len(drives)].why # "call" \/ current_task' = Null => drives' = <<>>
    <3>1. ASSUME drives[Len(drives)].why # "call" \/ current_task' = Null
          PROVE  Len(drives) = 1
      BY <1>1, <2>1, <2>2, <3>1 DEF DriveInv
    <3> QED
      BY <2>1, <3>1
  <2>5. \/ ctl' = "builtin"
        \/ ctl' \in {"code", "idle"} /\ drives[Len(drives)].why # "call"
    BY <1>10 DEF LoopExit, Top
  <2>6. \A i \in DOMAIN drives' : drives'[i].why # "call" \/ drives'[i].task = Null => i = 1
    BY <1>1, <2>2 DEF DriveInv
  <2> QED
    BY <2>4, <2>5, <2>6 DEF DriveInv
<1>11. CASE RunTask
  <2>1. Head(ready) \in Future
    BY <1>11 DEF RunTask, TypeOK
  <2> QED
    BY <1>2, <1>11, <2>1, FutureAssumption DEF RunTask
<1>12. CASE Drain \/ WakeNext \/ WakeEnd \/ PollStart \/ PollFire \/ PollSkip \/ PollEnd
  BY <1>2, <1>12 DEF Drain, WakeNext, WakeEnd, PollStart, PollFire, PollSkip, PollEnd
<1>13. CASE (\E f \in Future, v \in Value : WorkerPost(f, v)) \/ Dead \/ UNCHANGED vars
  BY <1>2, <1>13 DEF WorkerPost, Dead, vars
<1>14. CASE NewRun \/ Destroy \/ Free
  BY <1>1, <1>2, <1>14 DEF NewRun, Destroy, Free, DriveInv
<1> QED
  BY <1>4, <1>5, <1>6, <1>7, <1>8, <1>9, <1>10, <1>11, <1>12, <1>13, <1>14
     DEF Next, Bytecode, Scheduler

\* What the other four parts need of a step.
Rest == AwaitInv /\ KindInv /\ PlaceInv /\ ResumesWithAwaitedValue

\* A step that leaves the futures, the queue and the contexts alone.
LEMMA StillInv ==
  ASSUME TypeOK, Inv, UNCHANGED <<kind, state, result, waiters, awaiting, dest,
                                  reg, asked, ready, drives, current_task>>
  PROVE  Rest'
<1>1. \A c \in Future : Runnable(c)' <=> Runnable(c)
  BY DEF Runnable, Executing
<1>2. PlaceInv'
  BY DEF Inv, PlaceInv
<1>3. \A c \in Future : reg'[c] = reg[c] /\ asked'[c] = asked[c]
  OBVIOUS
<1> QED
  BY <1>1, <1>2, <1>3, MoveInv DEF Rest

\* Steps of the bytecode.
LEMMA BytecodeRest == TypeOK /\ Inv /\ Bytecode => Rest'
<1> SUFFICES ASSUME TypeOK, Inv, Bytecode PROVE Rest'
  OBVIOUS
<1> USE DEF heap, posted, wakeup, flags, control
<1>1. ASSUME NEW f \in Future, AsyncCall(f) PROVE Rest'
  BY <1>1, NewBodyInv DEF AsyncCall, Rest
<1>2. ASSUME NEW f \in Future, AsyncWait(f) PROVE Rest'
  BY <1>2, NewLeafInv DEF AsyncWait, Rest
<1>3. ASSUME NEW f \in Future, AsyncWork(f) PROVE Rest'
  BY <1>3, NewLeafInv DEF AsyncWork, Rest
<1>4. ASSUME NEW f \in Future, AwaitResolved(f) PROVE Rest'
  <2>1. /\ reg' = [reg EXCEPT ![current_task] = result[f]]
        /\ asked' = [asked EXCEPT ![current_task] = f]
        /\ UNCHANGED <<kind, state, result, waiters, awaiting, dest, ready,
                       drives, current_task>>
        /\ state[f] = 1
    BY <1>4 DEF AwaitResolved
  <2>2. /\ reg \in [Context -> Result] /\ asked \in [Context -> Context]
        /\ current_task \in Context
    BY DEF TypeOK
  <2>3. \A c \in Future : awaiting[c] # Null => c # current_task
    BY DEF Inv, KindInv, Runnable, Executing
  <2>4. \A c \in Future : c # current_task => reg'[c] = reg[c] /\ asked'[c] = asked[c]
    BY <2>1, <2>2 DEF Context
  <2>5. AwaitInv'
    BY <2>1, <2>3, <2>4 DEF Inv, AwaitInv, WaitsOn
  <2>6. KindInv' /\ PlaceInv'
    BY <2>1 DEF Inv, KindInv, PlaceInv, Runnable, Executing
  <2>7. reg'[current_task] = result[f] /\ asked'[current_task] = f
    BY <2>1, <2>2
  <2>8. ResumesWithAwaitedValue'
    BY <2>1, <2>4, <2>7 DEF Inv, ResumesWithAwaitedValue
  <2> QED
    BY <2>5, <2>6, <2>8 DEF Rest
<1>5. ASSUME NEW f \in Future, AwaitSuspend(f) PROVE Rest'
  BY <1>5, AwaitSuspendInv DEF Rest
<1>6. ASSUME NEW f \in Future, AwaitDrive(f) PROVE Rest'
  <2>1. /\ Enter("await", f) /\ asked' = [asked EXCEPT ![Null] = f]
        /\ UNCHANGED <<kind, state, result, waiters, awaiting, dest, reg, ready>>
    BY <1>6 DEF AwaitDrive
  <2>2. \A c \in Future : reg'[c] = reg[c] /\ asked'[c] = asked[c]
    BY <2>1, FutureAssumption DEF TypeOK, Context
  <2>3. (\A c \in Future : Runnable(c)' => Runnable(c)) /\ PlaceInv'
    BY <2>1, EnterPlace
  <2> QED
    BY <2>1, <2>2, <2>3, MoveInv DEF Rest
<1>7. ASSUME NEW f \in Future, CallFunction(f) PROVE Rest'
  BY <1>7, NewBodyInv DEF CallFunction, Rest
<1>8. ASSUME NEW v \in Value, Return(v) PROVE Rest'
  <2>1. /\ current_task \in Future /\ v \in Result /\ Resolve(current_task, v)
        /\ current_task' = Null /\ UNCHANGED <<kind, asked, drives>>
    BY <1>8 DEF Return, EndSlice, TypeOK, Context, Result
  <2> QED
    BY <2>1, ResolveInv DEF Rest
<1>9. ASSUME EndSlice, UNCHANGED <<heap, ready, drives>> PROVE Rest'
  <2>1. (\A c \in Future : Runnable(c)' => Runnable(c)) /\ PlaceInv'
    BY <1>9, EndSlicePlace
  <2>2. \A c \in Future : reg'[c] = reg[c] /\ asked'[c] = asked[c]
    BY <1>9
  <2> QED
    BY <1>9, <2>1, <2>2, MoveInv DEF Rest
<1>10. CASE Exit
  BY <1>9, <1>10 DEF Exit
<1>11. CASE RuntimeError
  BY <1>9, <1>11 DEF RuntimeError
<1>12. CASE EndBuiltin
  <2>1. CASE exit_requested
    BY <1>9, <1>12, <2>1 DEF EndBuiltin
  <2>2. CASE ~exit_requested
    BY <1>12, <2>2, StillInv DEF EndBuiltin
  <2> QED
    BY <2>1, <2>2
<1>13. CASE Halt
  <2>1. CASE had_error \/ exit_requested
    BY <1>9, <1>13, <2>1 DEF Halt
  <2>2. CASE ~(had_error \/ exit_requested)
    <3>1. Enter("halt", Null) /\ UNCHANGED <<heap, ready>>
      BY <1>13, <2>2 DEF Halt
    <3>2. (\A c \in Future : Runnable(c)' => Runnable(c)) /\ PlaceInv'
      BY <3>1, EnterPlace
    <3>3. \A c \in Future : reg'[c] = reg[c] /\ asked'[c] = asked[c]
      BY <3>1
    <3> QED
      BY <3>1, <3>2, <3>3, MoveInv DEF Rest
  <2> QED
    BY <2>1, <2>2
<1> QED
  BY <1>1, <1>2, <1>3, <1>4, <1>5, <1>6, <1>7, <1>8, <1>10, <1>11, <1>12, <1>13
     DEF Bytecode

\* Steps of the scheduler loops.
LEMMA SchedulerRest == TypeOK /\ Inv /\ Scheduler => Rest'
<1> SUFFICES ASSUME TypeOK, Inv, Scheduler PROVE Rest'
  OBVIOUS
<1> USE DEF heap, posted, wakeup, flags, control
<1>1. CASE LoopExit
  <2>1. (\A c \in Future : Runnable(c)' => Runnable(c)) /\ PlaceInv'
    BY <1>1, LoopExitPlace
  <2>2. \A c \in Future : reg'[c] = reg[c] /\ asked'[c] = asked[c]
    <3>1. asked' = asked /\ \/ reg' = reg
                            \/ \E r : reg' = [reg EXCEPT ![Null] = r]
      BY <1>1 DEF LoopExit
    <3> QED
      BY <3>1, FutureAssumption DEF TypeOK, Context
  <2> QED
    BY <1>1, <2>1, <2>2, MoveInv DEF LoopExit, Rest
<1>2. CASE RunTask
  <2>1. (\A c \in Future : Runnable(c)' => Runnable(c)) /\ PlaceInv'
    BY <1>2, RunTaskPlace
  <2>2. \A c \in Future : reg'[c] = reg[c] /\ asked'[c] = asked[c]
    BY <1>2 DEF RunTask
  <2> QED
    BY <1>2, <2>1, <2>2, MoveInv DEF RunTask, Rest
<1>3. CASE WakeNext
  <2>1. /\ 1 \in DOMAIN batch /\ Head(batch) = batch[1] /\ batch[1] \in Entry
    BY <1>3 DEF WakeNext, TypeOK
  <2>2. /\ Head(batch).fut \in Future /\ Head(batch).val \in Result
        /\ kind[Head(batch).fut] = "leaf"
    BY <2>1 DEF Entry, Inv, LeafInv
  <2> QED
    BY <1>3, <2>2, ResolveInv DEF WakeNext, Rest
<1>4. CASE PollFire
  <2>1. /\ timers[cursor] \in Future /\ None \in Result
        /\ kind[timers[cursor]] = "leaf"
    BY <1>4 DEF PollFire, TypeOK, Inv, LeafInv, Result
  <2> QED
    BY <1>4, <2>1, ResolveInv DEF PollFire, Rest
<1>5. CASE Drain \/ WakeEnd \/ PollStart \/ PollSkip \/ PollEnd
  BY <1>5, StillInv DEF Drain, WakeEnd, PollStart, PollSkip, PollEnd
<1> QED
  BY <1>1, <1>2, <1>3, <1>4, <1>5 DEF Scheduler

\* The inductive step.
LEMMA InvStep == TypeOK /\ Inv /\ [Next]_vars => Inv'
<1> SUFFICES ASSUME TypeOK, Inv, [Next]_vars PROVE Rest'
  BY LeafStep, DriveStep DEF Inv, Rest
<1> USE DEF heap, posted, wakeup, flags, control
<1>1. CASE Bytecode
  BY <1>1, BytecodeRest
<1>2. CASE Scheduler
  BY <1>2, SchedulerRest
<1>3. CASE (\E f \in Future, v \in Value : WorkerPost(f, v)) \/ NewRun \/ Destroy
           \/ Dead \/ UNCHANGED vars
  BY <1>3, StillInv DEF WorkerPost, NewRun, Destroy, Dead, vars
<1>4. CASE Free
  <2>1. /\ ready' = <<>> /\ UNCHANGED <<heap, current_task, drives>>
    BY <1>4 DEF Free
  <2>2. Range(ready') = {}
    BY <2>1 DEF Range
  <2>3. \A c \in Future : Runnable(c)' => Runnable(c)
    BY <2>1, <2>2 DEF Runnable, Executing
  <2>4. IsInjective(ready')
    BY <2>1 DEF IsInjective
  <2>5. PlaceInv'
    BY <2>1, <2>2, <2>4 DEF Inv, PlaceInv
  <2>6. \A c \in Future : reg'[c] = reg[c] /\ asked'[c] = asked[c]
    BY <2>1
  <2> QED
    BY <2>1, <2>3, <2>5, <2>6, MoveInv DEF Rest
<1> QED
  BY <1>1, <1>2, <1>3, <1>4 DEF Next

LEMMA InitInv == Init => Inv
<1> SUFFICES ASSUME Init PROVE Inv
  OBVIOUS
<1>1. Range(<<>>) = {} /\ IsInjective(<<>>)
  BY DEF Range, IsInjective
<1>2. AwaitInv
  BY <1>1, FutureAssumption DEF Init, AwaitInv, WaitsOn
<1>3. KindInv
  BY <1>1, FutureAssumption DEF Init, KindInv, Runnable, Executing
<1>4. LeafInv
  BY DEF Init, LeafInv
<1>5. PlaceInv
  BY <1>1 DEF Init, PlaceInv
<1>6. ResumesWithAwaitedValue
  BY DEF Init, ResumesWithAwaitedValue, Context
<1>7. DriveInv
  BY DEF Init, DriveInv
<1> QED
  BY <1>2, <1>3, <1>4, <1>5, <1>6, <1>7 DEF Inv

\* The inductive invariant holds in every reachable state.
THEOREM InvCorrect == Spec => []Inv
<1>1. Init => TypeOK /\ Inv
  BY InitTyped, InitInv
<1>2. TypeOK /\ Inv /\ [Next]_vars => (TypeOK /\ Inv)'
  BY TypeStep, InvStep
<1> QED
  BY <1>1, <1>2, PTL DEF Spec

\* A coroutine always continues with the value of the future it awaited, however
\* resolutions, nested loops, errors and reruns interleave.
THEOREM AwaitDelivers == Spec => []ResumesWithAwaitedValue
<1>1. Inv => ResumesWithAwaitedValue
  BY DEF Inv
<1> QED
  BY <1>1, InvCorrect, PTL

\* The waiter lists and the awaiting references never disagree.
THEOREM WaitersCorrect == Spec => []WaitersMatchAwaiting
<1>1. TypeOK /\ Inv => WaitersMatchAwaiting
  <2> SUFFICES ASSUME TypeOK, Inv, NEW w \in Future, NEW f \in Future
               PROVE  WaitsOn(w, f) <=> awaiting[w] = f /\ state[f] = 0 /\ dest[w]
    BY DEF WaitersMatchAwaiting
  <2>1. f # Null
    BY FutureAssumption
  <2> QED
    BY <2>1 DEF Inv, AwaitInv
<1> QED
  BY <1>1, TypeCorrect, InvCorrect, PTL

\* No coroutine is ever in two places, and a finished one is in none.
THEOREM PlacesCorrect == Spec => []NeverInTwoPlaces
<1>1. TypeOK /\ Inv => NeverInTwoPlaces
  <2> SUFFICES ASSUME TypeOK, Inv, NEW f \in Future
               PROVE  /\ \A p, q \in Places(f) : p = q
                      /\ state[f] = 1 => Places(f) = {}
    BY DEF NeverInTwoPlaces
  <2>1. f # Null
    BY FutureAssumption
  <2>2. /\ Runnable(f) => state[f] = 0 /\ awaiting[f] = Null
        /\ awaiting[f] # Null => state[f] = 0
    BY DEF Inv, KindInv
  <2>3. Places(f) # {} => Runnable(f) \/ awaiting[f] # Null
    BY DEF Places, Runnable, Executing, Range
  <2>4. \A i, j \in DOMAIN ready : ready[i] = f /\ ready[j] = f => i = j
    BY DEF Inv, PlaceInv, IsInjective
  <2>5. \A i, j \in DOMAIN drives : drives[i].task = f /\ drives[j].task = f => i = j
    BY <2>1 DEF Inv, PlaceInv
  <2>6. /\ f \in Range(ready) => f # current_task /\ \A i \in DOMAIN drives : drives[i].task # f
        /\ f = current_task => \A i \in DOMAIN drives : drives[i].task # f
    BY <2>1 DEF Inv, PlaceInv
  <2>7. ASSUME NEW p \in Places(f), NEW q \in Places(f) PROVE p = q
    <3>1. CASE awaiting[f] # Null
      <4>1. ~Runnable(f)
        BY <2>2, <3>1
      <4>2. Places(f) = {<<"waits", awaiting[f]>>}
        BY <3>1, <4>1 DEF Places, Runnable, Executing, Range
      <4> QED
        BY <4>2
    <3>2. CASE awaiting[f] = Null /\ f \in Range(ready)
      <4>1. Places(f) = {<<"ready", i>> : i \in {j \in DOMAIN ready : ready[j] = f}}
        BY <2>6, <3>2 DEF Places
      <4> QED
        BY <2>4, <4>1
    <3>3. CASE awaiting[f] = Null /\ f \notin Range(ready) /\ f = current_task
      <4>1. Places(f) = {<<"runs", f>>}
        BY <2>6, <3>3 DEF Places, Range
      <4> QED
        BY <4>1
    <3>4. CASE awaiting[f] = Null /\ f \notin Range(ready) /\ f # current_task
      <4>1. Places(f) = {<<"below", i>> : i \in {j \in DOMAIN drives : drives[j].task = f}}
        BY <3>4 DEF Places, Range
      <4> QED
        BY <2>5, <4>1
    <3> QED
      BY <3>1, <3>2, <3>3, <3>4
  <2> QED
    BY <2>2, <2>3, <2>7
<1> QED
  BY <1>1, TypeCorrect, InvCorrect, PTL

\* A future resolves once and keeps its value: every resolver tests the state.
THEOREM ResolvesOnceCorrect == Spec => ResolvesOnce
<1>1. TypeOK /\ Inv /\ [Next]_vars =>
        \A f \in Future : state[f] = 1 => state'[f] = 1 /\ result'[f] = result[f]
  <2> SUFFICES ASSUME TypeOK, Inv, [Next]_vars, NEW f \in Future, state[f] = 1
               PROVE  state'[f] = 1 /\ result'[f] = result[f]
    OBVIOUS
  <2> USE DEF heap, posted, wakeup, flags, control
  <2>1. state \in [Future -> {0, 1}] /\ result \in [Future -> Result]
    BY DEF TypeOK
  <2>2. ASSUME NEW g \in Future, NEW v, Resolve(g, v)
        PROVE  state'[f] = 1 /\ result'[f] = result[f]
    <3>1. \/ UNCHANGED <<state, result>>
          \/ /\ state[g] = 0
             /\ state' = [state EXCEPT ![g] = 1]
             /\ result' = [result EXCEPT ![g] = v]
      BY <2>2, Zenon DEF Resolve
    <3> QED
      BY <2>1, <3>1
  <2>3. ASSUME NEW g \in Future, NewBody(g)
        PROVE  state'[f] = 1 /\ result'[f] = result[f]
    <3>1. state[g] = 0
      BY <2>3 DEF NewBody, Inv, KindInv
    <3> QED
      BY <2>1, <2>3, <3>1 DEF NewBody
  <2>4. ASSUME NEW g \in Future, AsyncCall(g) \/ CallFunction(g)
        PROVE  state'[f] = 1 /\ result'[f] = result[f]
    BY <2>3, <2>4 DEF AsyncCall, CallFunction
  <2>5. ASSUME NEW v \in Value, Return(v)
        PROVE  state'[f] = 1 /\ result'[f] = result[f]
    BY <2>2, <2>5 DEF Return, TypeOK, Context
  <2>6. CASE WakeNext
    <3>1. 1 \in DOMAIN batch /\ Head(batch) = batch[1] /\ batch[1] \in Entry
      BY <2>6 DEF WakeNext, TypeOK
    <3>2. Head(batch).fut \in Future
      BY <3>1 DEF Entry
    <3> QED
      BY <2>2, <2>6, <3>2 DEF WakeNext
  <2>7. CASE PollFire
    BY <2>2, <2>7 DEF PollFire, TypeOK
  <2>8. ASSUME NEW g \in Future, \/ AsyncWait(g) \/ AsyncWork(g) \/ AwaitResolved(g)
                                 \/ AwaitSuspend(g) \/ AwaitDrive(g)
        PROVE  state'[f] = 1 /\ result'[f] = result[f]
    BY <2>8 DEF AsyncWait, AsyncWork, AwaitResolved, AwaitSuspend, AwaitDrive
  <2>9. CASE Exit \/ RuntimeError \/ EndBuiltin \/ Halt
    BY <2>9 DEF Exit, RuntimeError, EndBuiltin, Halt
  <2>10. CASE LoopExit \/ RunTask \/ Drain \/ WakeEnd \/ PollStart \/ PollSkip \/ PollEnd
    BY <2>10 DEF LoopExit, RunTask, Drain, WakeEnd, PollStart, PollSkip, PollEnd
  <2>11. CASE \/ \E g \in Future, v \in Value : WorkerPost(g, v)
              \/ NewRun \/ Destroy \/ Free \/ Dead \/ UNCHANGED vars
    BY <2>11 DEF WorkerPost, NewRun, Destroy, Free, Dead, vars
  <2> QED
    BY <2>4, <2>5, <2>6, <2>7, <2>8, <2>9, <2>10, <2>11 DEF Next, Bytecode, Scheduler
<1> QED
  BY <1>1, TypeCorrect, InvCorrect, PTL DEF Spec, ResolvesOnce

-----------------------------------------------------------------------------
(* The scheduler implements the await contract.                             *)

Bar == Contract!Next \/ UNCHANGED Contract!vars

\* The abstract variables in terms of the concrete ones.
Outcome == [f \in Future |-> IF state[f] = 1 THEN result[f] ELSE Null]
Blocked == [c \in Context |->
              IF c # Null THEN awaiting[c]
              ELSE IF drives # <<>> /\ drives[1].why = "await"
                   THEN drives[1].target ELSE Null]

LEMMA BarStutter ==
  ASSUME UNCHANGED <<state, result, awaiting, reg>>,
         Blocked[Null]' = Blocked[Null]
  PROVE  Bar
<1>1. Null \in Context
  BY DEF Context
<1>2. Outcome' = Outcome
  BY DEF Outcome
<1>3. \A c \in Context : Blocked'[c] = Blocked[c]
  BY <1>1 DEF Blocked
<1>4. Blocked' = Blocked
  BY <1>3 DEF Blocked
<1> QED
  BY <1>2, <1>4 DEF Bar, Contract!vars, Outcome, Blocked, Contract!Context, Context

\* Resolving a future settles it, or does nothing.
LEMMA BarResolve ==
  ASSUME TypeOK, Inv, NEW f \in Future, NEW v \in Result, Resolve(f, v), awaiting[f] = Null,
         drives' = drives
  PROVE  Bar
<1>1. CASE state[f] # 0
  BY <1>1, BarStutter DEF Resolve, Blocked, Context
<1>2. CASE state[f] = 0
  <2> DEFINE woken == Range(waiters[f])
  <2>1. /\ state' = [state EXCEPT ![f] = 1]
        /\ result' = [result EXCEPT ![f] = v]
        /\ reg' = [c \in Context |-> IF c \in woken /\ dest[c] THEN v ELSE reg[c]]
        /\ awaiting' = [w \in Future |-> IF w \in woken THEN Null ELSE awaiting[w]]
    BY <1>2 DEF Resolve
  <2>2. /\ state \in [Future -> {0, 1}] /\ result \in [Future -> Result]
        /\ awaiting \in [Future -> Context] /\ reg \in [Context -> Result]
        /\ Null \notin Future /\ Null \notin Result
    BY FutureAssumption, ValueAssumption DEF TypeOK, Result
  <2>3. \A w \in Future : w \in woken <=> awaiting[w] = f
    BY DEF Inv, AwaitInv, WaitsOn
  <2>4. woken \subseteq Future
    BY DEF TypeOK, Range
  <2>5. \A w \in woken : dest[w]
    BY <2>2, <2>3, <2>4 DEF Inv, AwaitInv
  <2>6. woken = {c \in Future : Blocked[c] = f}
    BY <2>2, <2>3, <2>4 DEF Blocked, Context
  <2> HIDE DEF woken
  <2>7. Outcome[f] = Null /\ Blocked[f] = Null
    BY <1>2, <2>2 DEF Outcome, Blocked, Context
  <2>8. Outcome' = [Outcome EXCEPT ![f] = v]
    BY <2>1, <2>2 DEF Outcome
  <2>9. Blocked' = [c \in Context |-> IF c \in woken THEN Null ELSE Blocked[c]]
    <3>1. \A c \in Context : Blocked'[c] = IF c \in woken THEN Null ELSE Blocked[c]
      BY <2>1, <2>2, <2>4 DEF Blocked, Context
    <3> QED
      BY <3>1 DEF Blocked
  <2>10. reg' = [c \in Context |-> IF c \in woken THEN v ELSE reg[c]]
    BY <2>1, <2>5
  <2>11. Contract!Settle(f, v)
    BY <2>6, <2>7, <2>8, <2>9, <2>10
       DEF Contract!Settle, Outcome, Blocked, Contract!Context, Context
  <2>12. v \in Contract!Result
    BY DEF Contract!Result, Result
  <2> QED
    BY <2>11, <2>12 DEF Bar, Contract!Next
<1> QED
  BY <1>1, <1>2

\* A new coroutine is unsettled, or settled at once when its start fails.
LEMMA BarNewBody ==
  ASSUME TypeOK, Inv, NEW f \in Future, NewBody(f),
         UNCHANGED <<waiters, awaiting, dest, reg>>, Blocked[Null]' = Blocked[Null]
  PROVE  Bar
<1>1. /\ kind[f] = "free" /\ state[f] = 0 /\ waiters[f] = <<>> /\ awaiting[f] = Null
  BY DEF NewBody, Inv, KindInv
<1>2. CASE UNCHANGED <<state, result>>
  BY <1>2, BarStutter
<1>3. CASE /\ state' = [state EXCEPT ![f] = 1]
           /\ result' = [result EXCEPT ![f] = None]
  <2>1. /\ state \in [Future -> {0, 1}] /\ result \in [Future -> Result]
        /\ awaiting \in [Future -> Context] /\ reg \in [Context -> Result]
        /\ Null \notin Future /\ Null \notin Result
    BY FutureAssumption, ValueAssumption DEF TypeOK, Result
  <2>2. \A w \in Future : awaiting[w] # f
    <3>1. Range(waiters[f]) = {}
      BY <1>1 DEF Range
    <3> QED
      BY <3>1 DEF Inv, AwaitInv, WaitsOn
  <2>3. {c \in Future : Blocked[c] = f} = {}
    BY <2>1, <2>2 DEF Blocked, Context
  <2>4. Outcome[f] = Null /\ Blocked[f] = Null
    BY <1>1, <2>1 DEF Outcome, Blocked, Context
  <2>5. Outcome' = [Outcome EXCEPT ![f] = None]
    BY <1>3, <2>1 DEF Outcome
  <2>6. Blocked' = [c \in Context |-> Blocked[c]]
    <3>1. \A c \in Context : Blocked'[c] = Blocked[c]
      BY <2>1 DEF Blocked, Context
    <3> QED
      BY <3>1 DEF Blocked
  <2>7. reg' = [c \in Context |-> reg[c]]
    BY <2>1
  <2>8. Contract!Settle(f, None)
    BY <2>3, <2>4, <2>5, <2>6, <2>7
       DEF Contract!Settle, Outcome, Blocked, Contract!Context, Context
  <2>9. None \in Contract!Result
    BY DEF Contract!Result
  <2> QED
    BY <2>8, <2>9 DEF Bar, Contract!Next
<1> QED
  BY <1>2, <1>3 DEF NewBody

LEMMA BarStep == TypeOK /\ Inv /\ [Next]_vars => Bar
<1> SUFFICES ASSUME TypeOK, Inv, [Next]_vars PROVE Bar
  OBVIOUS
<1> USE DEF heap, posted, wakeup, flags, control
<1>1. /\ state \in [Future -> {0, 1}] /\ result \in [Future -> Result]
      /\ awaiting \in [Future -> Context] /\ reg \in [Context -> Result]
      /\ current_task \in Context /\ drives \in Seq(Drive)
      /\ Null \notin Future /\ Null \notin Result /\ Null \in Context
  BY FutureAssumption, ValueAssumption DEF TypeOK, Result, Context
<1>2. /\ ctl \in {"code", "builtin"} /\ current_task = Null => drives = <<>>
      /\ \A i \in DOMAIN drives : drives[i].why # "call" => i = 1
  BY DEF Inv, DriveInv
<1>3. ASSUME UNCHANGED <<state, result, awaiting, reg, drives>> PROVE Bar
  BY <1>1, <1>3, BarStutter DEF Blocked
<1>4. ASSUME NEW why, NEW target, Enter(why, target), ctl \in {"code", "builtin"},
             why # "await"
      PROVE  Blocked[Null]' = Blocked[Null]
  <2> DEFINE d == [why |-> why, target |-> target, task |-> current_task]
  <2>1. drives' = Append(drives, d) /\ d.why # "await"
    BY <1>4 DEF Enter
  <2> HIDE DEF d
  <2>2. CASE drives = <<>>
    <3>1. drives'[1] = d
      BY <2>1, <2>2
    <3> QED
      BY <1>1, <2>1, <2>2, <3>1 DEF Blocked
  <2>3. CASE drives # <<>>
    <3>1. drives'[1] = drives[1] /\ drives' # <<>>
      BY <1>1, <2>1, <2>3
    <3> QED
      BY <1>1, <2>3, <3>1 DEF Blocked
  <2> QED
    BY <2>2, <2>3
<1>5. ASSUME NEW f \in Future, AsyncCall(f) PROVE Bar
  <2>1. Blocked[Null]' = Blocked[Null]
    BY <1>1, <1>5 DEF AsyncCall, Blocked
  <2> QED
    BY <1>5, <2>1, BarNewBody DEF AsyncCall
<1>6. ASSUME NEW f \in Future, CallFunction(f) PROVE Bar
  BY <1>4, <1>6, BarNewBody DEF CallFunction
<1>7. ASSUME NEW f \in Future, AsyncWait(f) \/ AsyncWork(f) PROVE Bar
  BY <1>3, <1>7 DEF AsyncWait, AsyncWork
<1>8. ASSUME NEW f \in Future, AwaitResolved(f) PROVE Bar
  <2>1. Blocked[current_task] = Null
    <3>1. CASE current_task = Null
      BY <1>1, <1>2, <1>8, <3>1 DEF AwaitResolved, Blocked
    <3>2. CASE current_task # Null
      BY <1>1, <3>2 DEF Blocked, Context, Inv, KindInv, Runnable, Executing
    <3> QED
      BY <3>1, <3>2
  <2>2. Outcome[f] # Null /\ Outcome[f] = result[f]
    BY <1>1, <1>8 DEF AwaitResolved, Outcome
  <2>3. Outcome' = Outcome /\ Blocked' = Blocked
    BY <1>8 DEF AwaitResolved, Outcome, Blocked
  <2>4. reg' = [reg EXCEPT ![current_task] = Outcome[f]]
    BY <1>8, <2>2 DEF AwaitResolved
  <2>5. Contract!Read(current_task, f)
    BY <2>1, <2>2, <2>3, <2>4
       DEF Contract!Read, Outcome, Blocked, Contract!Context, Context
  <2> QED
    BY <1>1, <2>5 DEF Bar, Contract!Next, Contract!Context, Context
<1>9. ASSUME NEW f \in Future, AwaitSuspend(f) PROVE Bar
  <2>1. current_task \in Future
    BY <1>1, <1>9 DEF AwaitSuspend, Context
  <2>2. Blocked[current_task] = Null
    BY <1>1, <2>1 DEF Blocked, Context, Inv, KindInv, Runnable, Executing
  <2>3. Outcome[f] = Null
    BY <1>9 DEF AwaitSuspend, Outcome
  <2>4. Outcome' = Outcome /\ reg' = reg
    BY <1>9 DEF AwaitSuspend, Outcome
  <2>5. Blocked' = [Blocked EXCEPT ![current_task] = f]
    <3>1. \A c \in Context : Blocked'[c] = IF c = current_task THEN f ELSE Blocked[c]
      BY <1>1, <1>9, <2>1 DEF AwaitSuspend, Blocked, Context
    <3> QED
      BY <3>1 DEF Blocked
  <2>6. Contract!Block(current_task, f)
    BY <2>2, <2>3, <2>4, <2>5
       DEF Contract!Block, Outcome, Blocked, Contract!Context, Context
  <2> QED
    BY <1>1, <2>6 DEF Bar, Contract!Next, Contract!Context, Context
<1>10. ASSUME NEW f \in Future, AwaitDrive(f) PROVE Bar
  <2> DEFINE d == [why |-> "await", target |-> f, task |-> current_task]
  <2>1. drives = <<>> /\ drives' = Append(drives, d) /\ UNCHANGED <<state, result, awaiting, reg>>
    BY <1>2, <1>10 DEF AwaitDrive, Enter
  <2>2. drives' # <<>> /\ drives'[1] = d /\ d.why = "await" /\ d.target = f
    BY <2>1
  <2> HIDE DEF d
  <2>3. Blocked[Null] = Null /\ Outcome[f] = Null
    BY <1>1, <1>10, <2>1 DEF AwaitDrive, Blocked, Outcome
  <2>4. Blocked' = [Blocked EXCEPT ![Null] = f]
    <3>1. \A c \in Context : Blocked'[c] = IF c = Null THEN f ELSE Blocked[c]
      BY <1>1, <2>1, <2>2 DEF Blocked
    <3> QED
      BY <3>1 DEF Blocked
  <2>5. Outcome' = Outcome
    BY <2>1 DEF Outcome
  <2>6. Contract!Block(Null, f)
    BY <2>1, <2>3, <2>4, <2>5
       DEF Contract!Block, Outcome, Blocked, Contract!Context, Context
  <2> QED
    BY <2>6 DEF Bar, Contract!Next, Contract!Context
<1>11. ASSUME NEW v \in Value, Return(v) PROVE Bar
  <2>1. current_task \in Future /\ v \in Result
    BY <1>1, <1>11 DEF Return, Context, Result
  <2>2. awaiting[current_task] = Null
    BY <2>1 DEF Inv, KindInv, Runnable, Executing
  <2> QED
    BY <1>11, <2>1, <2>2, BarResolve DEF Return
<1>12. CASE Exit \/ RuntimeError \/ EndBuiltin
  BY <1>3, <1>12 DEF Exit, RuntimeError, EndBuiltin
<1>13. CASE Halt
  <2>1. CASE had_error \/ exit_requested
    BY <1>3, <1>13, <2>1 DEF Halt
  <2>2. CASE ~(had_error \/ exit_requested)
    <3>1. Enter("halt", Null) /\ UNCHANGED <<state, result, awaiting, reg>>
          /\ ctl \in {"code", "builtin"}
      BY <1>13, <2>2 DEF Halt
    <3> QED
      BY <1>4, <3>1, BarStutter
  <2> QED
    BY <2>1, <2>2
<1>14. CASE LoopExit
  <2>1. /\ drives # <<>> /\ UNCHANGED <<state, result, awaiting>>
        /\ drives' = SubSeq(drives, 1, Len(drives) - 1)
    BY <1>1, <1>14 DEF LoopExit, Looping, Front
  <2>2. /\ Len(drives) \in Nat \ {0} /\ DOMAIN drives = 1 .. Len(drives)
        /\ drives[Len(drives)] \in Drive
    BY <1>1, <2>1
  <2>3. CASE drives[Len(drives)].why = "await"
    <3>1. Len(drives) = 1
      BY <1>2, <2>2, <2>3
    <3>2. PICK f \in Future : drives[1].why = "await" /\ f = drives[1].target /\ drives' = <<>>
      BY <2>1, <2>2, <2>3, <3>1 DEF Drive
    <3>3. Blocked[Null] = f /\ f # Null
      BY <1>1, <2>1, <3>2 DEF Blocked
    <3>4. reg' = [reg EXCEPT ![Null] = IF state[f] = 1 THEN result[f] ELSE None]
      BY <1>14, <3>1, <3>2 DEF LoopExit, Top, TargetResolved
    <3>5. reg' = [reg EXCEPT ![Null] = IF Outcome[f] = Null THEN None ELSE Outcome[f]]
      <4>1. (IF state[f] = 1 THEN result[f] ELSE None)
            = IF Outcome[f] = Null THEN None ELSE Outcome[f]
        BY <1>1 DEF Outcome
      <4> QED
        BY <3>4, <4>1
    <3>6. Blocked' = [Blocked EXCEPT ![Null] = Null]
      <4>1. \A c \in Context : Blocked'[c] = IF c = Null THEN Null ELSE Blocked[c]
        BY <2>1, <3>2 DEF Blocked
      <4> QED
        BY <4>1 DEF Blocked
    <3>7. Outcome' = Outcome
      BY <2>1 DEF Outcome
    <3>8. Contract!Resume(f)
      BY <3>3, <3>5, <3>6, <3>7
         DEF Contract!Resume, Outcome, Blocked, Contract!Context, Context
    <3> QED
      BY <3>2, <3>8 DEF Bar, Contract!Next
  <2>4. CASE drives[Len(drives)].why # "await"
    <3>1. reg' = reg
      BY <1>14, <2>4 DEF LoopExit, Top
    <3>2. CASE Len(drives) = 1
      <4>1. drives' = <<>> /\ drives[1].why # "await"
        BY <2>1, <2>4, <3>2
      <4> QED
        BY <1>1, <2>1, <3>1, <4>1, BarStutter DEF Blocked
    <3>3. CASE Len(drives) # 1
      <4>1. Len(drives') = Len(drives) - 1 /\ drives'[1] = drives[1]
        BY <1>1, <2>1, <2>2, <3>3
      <4>2. drives' # <<>>
        BY <2>2, <3>3, <4>1
      <4> QED
        BY <1>1, <2>1, <3>1, <4>1, <4>2, BarStutter DEF Blocked
    <3> QED
      BY <3>2, <3>3
  <2> QED
    BY <2>3, <2>4
<1>15. CASE RunTask \/ Drain \/ WakeEnd \/ PollStart \/ PollSkip \/ PollEnd
  BY <1>3, <1>15 DEF RunTask, Drain, WakeEnd, PollStart, PollSkip, PollEnd
<1>16. \A f \in Future : kind[f] = "leaf" => awaiting[f] = Null
  BY DEF Inv, KindInv
<1>17. CASE WakeNext
  <2>1. 1 \in DOMAIN batch /\ Head(batch) = batch[1] /\ batch[1] \in Entry
    BY <1>17 DEF WakeNext, TypeOK
  <2>2. /\ Head(batch).fut \in Future /\ Head(batch).val \in Result
        /\ kind[Head(batch).fut] = "leaf"
    BY <2>1 DEF Entry, Inv, LeafInv
  <2> QED
    BY <1>16, <1>17, <2>2, BarResolve DEF WakeNext
<1>18. CASE PollFire
  <2>1. /\ timers[cursor] \in Future /\ None \in Result
        /\ kind[timers[cursor]] = "leaf"
    BY <1>18 DEF PollFire, TypeOK, Inv, LeafInv, Result
  <2> QED
    BY <1>16, <1>18, <2>1, BarResolve DEF PollFire
<1>19. CASE (\E f \in Future, v \in Value : WorkerPost(f, v)) \/ NewRun \/ Destroy
            \/ Free \/ Dead \/ UNCHANGED vars
  BY <1>3, <1>19 DEF WorkerPost, NewRun, Destroy, Free, Dead, vars
<1> QED
  BY <1>5, <1>6, <1>7, <1>8, <1>9, <1>10, <1>11, <1>12, <1>13, <1>14, <1>15, <1>17,
     <1>18, <1>19 DEF Next, Bytecode, Scheduler

\* The runtime keeps the promise of await for any number of futures, nested
\* loops, runs and workers.
THEOREM RuntimeKeepsContract == Spec => ImplementsContract
<1>1. Init => Contract!Init
  BY FutureAssumption DEF Init, Contract!Init, Contract!Context, Context
<1>2. TypeOK /\ Inv /\ [Next]_vars => [Contract!Next]_(Contract!vars)
  BY BarStep DEF Bar
<1> QED
  BY <1>1, <1>2, TypeCorrect, InvCorrect, PTL DEF Spec, ImplementsContract, Contract!Spec

-----------------------------------------------------------------------------
(* Nothing is forgotten: a second invariant counts the work that is under   *)
(* way and says where each pending future is.                               *)

\* A coroutine that will run again, by itself or when it is woken.
Placed(f) == Runnable(f) \/ awaiting[f] # Null

Healthy == ctl # "dead" /\ ~had_error /\ ~exit_requested

\* Only bytecode and builtins run in a context of their own; a loop that the top level
\* opened has none below it; completions are detached only while they are resolved.
ThreadInv ==
  /\ current_task # Null => ctl \in {"code", "builtin"}
  /\ \A i \in DOMAIN drives : drives[i].why # "call" => drives[i].task = Null
  /\ batch # <<>> \/ drained # 0 => ctl = "wake"

\* A future belongs to a run that has begun.
BornInv ==
  /\ run = 0 => ctl = "idle"
  /\ \A f \in Future : kind[f] # "free" => born[f] \in 1 .. run

\* pending_workers counts the workers that run, the results they have posted and those
\* being delivered.
CountInv ==
  pending_workers = Cardinality(workers) + Len(completions) + Len(batch) + drained

Delivers(s, f) == \E i \in DOMAIN s : s[i].fut = f

\* A pending leaf future has a timer, a worker or a posted result.
SourceInv ==
  \A f \in Future : kind[f] = "leaf" /\ state[f] = 0 /\ ctl # "dead" =>
    f \in Range(timers) \/ f \in workers \/ Delivers(completions, f) \/ Delivers(batch, f)

\* A pending coroutine of a run without errors is queued, executing or suspended.
PlacedInv ==
  \A f \in Future :
    kind[f] = "body" /\ state[f] = 0 /\ born[f] = run /\ Healthy => Placed(f)

\* Between runs, after a clean one, nothing is under way.
IdleInv ==
  ctl = "idle" /\ Healthy => ready = <<>> /\ timers = <<>> /\ pending_workers = 0

Ledger == ThreadInv /\ BornInv /\ CountInv /\ SourceInv /\ PlacedInv /\ IdleInv

\* Every action keeps ThreadInv: a loop opens in its own context and returns there.
LEMMA ThreadStep == TypeOK /\ Inv /\ ThreadInv /\ [Next]_vars => ThreadInv'
<1> SUFFICES ASSUME TypeOK, Inv, ThreadInv, [Next]_vars PROVE ThreadInv'
  OBVIOUS
<1> USE DEF heap, posted, wakeup, flags, control
<1>1. /\ drives \in Seq(Drive) /\ batch \in Seq(Entry)
      /\ ctl # "wake" => batch = <<>> /\ drained = 0
      /\ ctl \notin {"code", "builtin"} => current_task = Null
  BY DEF TypeOK, ThreadInv
<1>2. ASSUME UNCHANGED <<drives, batch, drained>>, ctl # "wake" \/ ctl' = ctl,
             current_task' = Null \/ (current_task' = current_task /\ ctl' = ctl)
                \/ ctl' \in {"code", "builtin"}
      PROVE  ThreadInv'
  BY <1>1, <1>2 DEF ThreadInv
<1>3. ASSUME ctl \in {"code", "builtin"}, EndSlice, UNCHANGED <<drives, batch, drained>>
      PROVE  ThreadInv'
  BY <1>2, <1>3 DEF EndSlice
<1>4. ASSUME NEW why, NEW target, Enter(why, target), ctl \in {"code", "builtin"},
             why # "call" => current_task = Null, UNCHANGED <<batch, drained>>
      PROVE  ThreadInv'
  <2> DEFINE d == [why |-> why, target |-> target, task |-> current_task]
  <2>1. drives' = Append(drives, d) /\ ctl' = "head" /\ current_task' = Null
        /\ d.task = current_task /\ d.why = why
    BY <1>4 DEF Enter
  <2> HIDE DEF d
  <2>2. \A i \in DOMAIN drives' : drives'[i] = d \/ (i \in DOMAIN drives /\ drives'[i] = drives[i])
    BY <1>1, <2>1
  <2> QED
    BY <1>1, <1>4, <2>1, <2>2 DEF ThreadInv
<1>5. ASSUME NEW f \in Future, \/ AsyncCall(f) \/ AsyncWait(f) \/ AsyncWork(f)
                               \/ AwaitResolved(f) \/ AwaitSuspend(f)
      PROVE  ThreadInv'
  BY <1>2, <1>3, <1>5
     DEF AsyncCall, AsyncWait, AsyncWork, AwaitResolved, AwaitSuspend, AfterBuiltin
<1>6. ASSUME NEW f \in Future, AwaitDrive(f) \/ CallFunction(f) PROVE ThreadInv'
  BY <1>4, <1>6 DEF AwaitDrive, CallFunction
<1>7. ASSUME NEW v \in Value, Return(v) PROVE ThreadInv'
  BY <1>3, <1>7 DEF Return
<1>8. CASE Exit \/ RuntimeError \/ EndBuiltin
  BY <1>2, <1>3, <1>8 DEF Exit, RuntimeError, EndBuiltin
<1>9. CASE Halt
  BY <1>3, <1>4, <1>9 DEF Halt
<1>10. CASE LoopExit
  <2>1. /\ drives # <<>> /\ drives' = SubSeq(drives, 1, Len(drives) - 1)
        /\ current_task' = drives[Len(drives)].task /\ ctl \in {"head", "ready"}
        /\ batch' = batch /\ drained' = drained
        /\ ctl' = CASE drives[Len(drives)].why = "await" -> "code"
                    [] drives[Len(drives)].why = "call" -> "builtin"
                    [] OTHER -> "idle"
    BY <1>10 DEF LoopExit, Looping, Front, Top
  <2>2. Len(drives) \in DOMAIN drives
        /\ \A i \in DOMAIN drives' : i \in DOMAIN drives /\ drives'[i] = drives[i]
    BY <1>1, <2>1
  <2>3. current_task' # Null => ctl' \in {"code", "builtin"}
    BY <2>1, <2>2 DEF ThreadInv
  <2> QED
    BY <1>1, <2>1, <2>2, <2>3 DEF ThreadInv
<1>11. CASE RunTask
  BY <1>1, <1>2, <1>11 DEF RunTask, Looping
<1>12. CASE Drain
  BY <1>1, <1>12 DEF Drain, ThreadInv, Idling, Looping
<1>13. CASE WakeNext
  BY <1>13 DEF WakeNext, ThreadInv
<1>14. CASE WakeEnd
  BY <1>1, <1>14 DEF WakeEnd, ThreadInv
<1>15. CASE PollStart \/ PollFire \/ PollSkip \/ PollEnd
  BY <1>1, <1>2, <1>15 DEF PollStart, PollFire, PollSkip, PollEnd, Idling, Looping
<1>16. CASE (\E f \in Future, v \in Value : WorkerPost(f, v)) \/ Dead \/ UNCHANGED vars
  BY <1>2, <1>16 DEF WorkerPost, Dead, vars
<1>17. CASE NewRun \/ Destroy \/ Free
  BY <1>1, <1>2, <1>17 DEF NewRun, Destroy, Free
<1> QED
  BY <1>5, <1>6, <1>7, <1>8, <1>9, <1>10, <1>11, <1>12, <1>13, <1>14, <1>15, <1>16, <1>17
     DEF Next, Bytecode, Scheduler

\* Every action keeps BornInv: only NewRun starts a run and only a run makes futures.
LEMMA BornStep == TypeOK /\ BornInv /\ [Next]_vars => BornInv'
<1> SUFFICES ASSUME TypeOK, BornInv, [Next]_vars PROVE BornInv'
  OBVIOUS
<1> USE DEF heap, posted, wakeup, flags, control
<1>1. /\ run \in Nat /\ kind \in [Future -> {"free", "body", "leaf"}]
      /\ born \in [Future -> 0 .. MaxRuns]
      /\ ctl # "idle" => run # 0
  BY BoundAssumption DEF TypeOK, BornInv
<1>2. ASSUME UNCHANGED <<kind, born, run>>, ctl' = ctl \/ ctl # "idle" PROVE BornInv'
  BY <1>1, <1>2 DEF BornInv
<1>3. ASSUME NEW f \in Future, NEW k \in {"body", "leaf"}, kind' = [kind EXCEPT ![f] = k],
             born' = [born EXCEPT ![f] = run], run' = run, ctl # "idle"
      PROVE  BornInv'
  <2>1. kind'[f] = k /\ born'[f] = run /\ run \in 1 .. run /\ run' # 0
        /\ \A g \in Future \ {f} : kind'[g] = kind[g] /\ born'[g] = born[g]
    <3>1. run # 0
      BY <1>1, <1>3
    <3>2. run \in 1 .. run /\ run' # 0
      BY <1>1, <1>3, <3>1
    <3>3. kind'[f] = k /\ \A g \in Future \ {f} : kind'[g] = kind[g]
      BY <1>1, <1>3
    <3>4. born'[f] = run /\ \A g \in Future \ {f} : born'[g] = born[g]
      BY <1>1, <1>3
    <3> QED
      BY <3>2, <3>3, <3>4
  <2>2. \A g \in Future : kind'[g] # "free" => born'[g] \in 1 .. run
    BY <2>1 DEF BornInv
  <2> QED
    BY <1>3, <2>1, <2>2 DEF BornInv
<1>4. ASSUME NEW f \in Future, AsyncCall(f) \/ AsyncWait(f) \/ AsyncWork(f) \/ CallFunction(f)
      PROVE  BornInv'
  <2>1. ctl # "idle" /\ run' = run /\ (NewBody(f) \/ NewLeaf(f))
    BY <1>4 DEF AsyncCall, AsyncWait, AsyncWork, CallFunction
  <2> QED
    BY <1>3, <2>1 DEF NewBody, NewLeaf
<1>5. ASSUME NEW f \in Future, AwaitResolved(f) \/ AwaitSuspend(f) \/ AwaitDrive(f) PROVE BornInv'
  BY <1>2, <1>5 DEF AwaitResolved, AwaitSuspend, AwaitDrive
<1>6. ASSUME NEW v \in Value, Return(v) PROVE BornInv'
  BY <1>2, <1>6 DEF Return
<1>7. CASE Exit \/ RuntimeError \/ EndBuiltin \/ Halt \/ LoopExit \/ RunTask
  BY <1>2, <1>7 DEF Exit, RuntimeError, EndBuiltin, Halt, LoopExit, RunTask, Looping
<1>8. CASE Drain \/ WakeNext \/ WakeEnd \/ PollStart \/ PollFire \/ PollSkip \/ PollEnd
  BY <1>2, <1>8 DEF Drain, WakeNext, WakeEnd, PollStart, PollFire, PollSkip, PollEnd, Idling, Looping
<1>9. CASE (\E f \in Future, v \in Value : WorkerPost(f, v)) \/ Free \/ Dead \/ UNCHANGED vars
  BY <1>2, <1>9 DEF WorkerPost, Free, Dead, vars
<1>10. CASE NewRun
  BY <1>1, <1>10 DEF NewRun, BornInv
<1>11. CASE Destroy
  BY <1>1, <1>11 DEF Destroy, BornInv
<1> QED
  BY <1>4, <1>5, <1>6, <1>7, <1>8, <1>9, <1>10, <1>11 DEF Next, Bytecode, Scheduler

\* Every action keeps CountInv: a worker is counted from its start until its result is
\* delivered, and dropped results are uncounted with the rest (vm_drain_worker_completions).
LEMMA CountStep == TypeOK /\ Inv /\ ThreadInv /\ CountInv /\ [Next]_vars => CountInv'
<1> SUFFICES ASSUME TypeOK, Inv, ThreadInv, CountInv, [Next]_vars PROVE CountInv'
  OBVIOUS
<1> USE DEF heap, posted, wakeup, flags, control
<1>1. /\ workers \in SUBSET Future /\ IsFiniteSet(workers) /\ Cardinality(workers) \in Nat
      /\ completions \in Seq(Entry) /\ batch \in Seq(Entry) /\ drained \in Nat /\ pending_workers \in Nat
      /\ Len(completions) \in Nat /\ Len(batch) \in Nat
      /\ pending_workers = Cardinality(workers) + Len(completions) + Len(batch) + drained
  BY FutureAssumption, FS_Subset, FS_CardinalityType DEF TypeOK, CountInv
<1>2. ASSUME UNCHANGED <<workers, completions, batch, drained, pending_workers>> PROVE CountInv'
  BY <1>2 DEF CountInv
\* A result is posted, by a worker or in place of one.
<1>3. ASSUME NEW e, completions' = <<e>> \o completions, e \in Entry
      PROVE  Len(completions') = Len(completions) + 1
  BY <1>1, <1>3
<1>4. ASSUME NEW f \in Future, AsyncWork(f) PROVE CountInv'
  <2>1. pending_workers' = pending_workers + 1 /\ batch' = batch /\ drained' = drained
    BY <1>4 DEF AsyncWork
  <2>2. f \notin workers
    BY <1>4 DEF AsyncWork, NewLeaf, Inv, LeafInv
  <2>3. CASE workers' = workers \cup {f} /\ completions' = completions
    <3>1. Cardinality(workers') = Cardinality(workers) + 1
      BY <1>1, <2>2, <2>3, FS_AddElement
    <3> QED
      BY <1>1, <2>1, <2>3, <3>1 DEF CountInv
  <2>4. CASE completions' = <<[fut |-> f, val |-> None]>> \o completions /\ workers' = workers
    <3>1. [fut |-> f, val |-> None] \in Entry
      BY DEF Entry, Result
    <3>2. Len(completions') = Len(completions) + 1
      BY <1>3, <2>4, <3>1
    <3> QED
      BY <1>1, <2>1, <2>4, <3>2 DEF CountInv
  <2> QED
    BY <1>4, <2>3, <2>4 DEF AsyncWork
<1>5. ASSUME NEW f \in Future, NEW v \in Value, WorkerPost(f, v) PROVE CountInv'
  <2>1. /\ f \in workers /\ workers' = workers \ {f} /\ UNCHANGED <<pending_workers, batch, drained>>
        /\ completions' = <<[fut |-> f, val |-> v]>> \o completions
    BY <1>5 DEF WorkerPost
  <2>2. Cardinality(workers') = Cardinality(workers) - 1
    BY <1>1, <2>1, FS_RemoveElement
  <2>3. [fut |-> f, val |-> v] \in Entry
    BY DEF Entry, Result
  <2>4. Len(completions') = Len(completions) + 1
    BY <1>3, <2>1, <2>3
  <2> QED
    BY <1>1, <2>1, <2>2, <2>4 DEF CountInv
<1>6. CASE Drain
  <2>1. batch = <<>>
    BY <1>6 DEF Drain, ThreadInv, Idling, Looping
  <2>2. /\ batch' = completions /\ completions' = <<>> /\ workers' = workers /\ drained' = drained
        /\ pending_workers' = pending_workers
    BY <1>6 DEF Drain
  <2>3. Len(completions') = 0 /\ Len(batch) = 0
    BY <2>1, <2>2
  <2> QED
    BY <1>1, <2>2, <2>3 DEF CountInv
<1>7. CASE WakeNext
  <2>1. /\ batch # <<>> /\ batch' = Tail(batch) /\ drained' = drained + 1
        /\ UNCHANGED <<workers, completions, pending_workers>>
    BY <1>7 DEF WakeNext
  <2>2. Len(Tail(batch)) = Len(batch) - 1
    BY <1>1, <2>1
  <2>3. /\ drained' = drained + 1 /\ workers' = workers /\ completions' = completions
        /\ pending_workers' = pending_workers
    BY <2>1
  <2>4. CountInv' <=> pending_workers = Cardinality(workers) + Len(completions) + Len(Tail(batch)) + (drained + 1)
    BY <2>1, <2>3 DEF CountInv
  <2>5. pending_workers = Cardinality(workers) + Len(completions) + (Len(batch) - 1) + (drained + 1)
    BY <1>1
  <2> QED
    BY <2>2, <2>4, <2>5
<1>8. CASE WakeEnd
  <2>1. /\ batch = <<>> /\ drained' = 0 /\ UNCHANGED <<workers, completions, batch>>
        /\ pending_workers' = IF pending_workers < drained THEN 0 ELSE pending_workers - drained
    BY <1>8 DEF WakeEnd
  <2>2. ~(pending_workers < drained)
    BY <1>1
  <2> QED
    BY <1>1, <2>1, <2>2 DEF CountInv
<1>9. ASSUME NEW f \in Future, \/ AsyncCall(f) \/ AsyncWait(f) \/ CallFunction(f)
                               \/ AwaitResolved(f) \/ AwaitSuspend(f) \/ AwaitDrive(f)
      PROVE  CountInv'
  BY <1>2, <1>9 DEF AsyncCall, AsyncWait, CallFunction, AwaitResolved, AwaitSuspend, AwaitDrive
<1>10. ASSUME NEW v \in Value, Return(v) PROVE CountInv'
  BY <1>2, <1>10 DEF Return
<1>11. CASE Exit \/ RuntimeError \/ EndBuiltin \/ Halt \/ LoopExit \/ RunTask
  BY <1>2, <1>11 DEF Exit, RuntimeError, EndBuiltin, Halt, LoopExit, RunTask
<1>12. CASE PollStart \/ PollFire \/ PollSkip \/ PollEnd
  BY <1>2, <1>12 DEF PollStart, PollFire, PollSkip, PollEnd
<1>13. CASE NewRun \/ Destroy \/ Free \/ Dead \/ UNCHANGED vars
  BY <1>2, <1>13 DEF NewRun, Destroy, Free, Dead, vars
<1> QED
  BY <1>4, <1>5, <1>6, <1>7, <1>8, <1>9, <1>10, <1>11, <1>12, <1>13 DEF Next, Bytecode, Scheduler

\* future_resolve ends with its future resolved, and resolves no other.
LEMMA ResolveStates ==
  ASSUME TypeOK, NEW g \in Future, NEW v, Resolve(g, v)
  PROVE  state'[g] = 1 /\ \A f \in Future : state'[f] = 0 => state[f] = 0
<1>1. state \in [Future -> {0, 1}]
  BY DEF TypeOK
<1>2. \/ state[g] # 0 /\ state' = state
      \/ state[g] = 0 /\ state' = [state EXCEPT ![g] = 1]
  BY Zenon DEF Resolve
<1> QED
  BY <1>1, <1>2

\* Taking an element off a list loses no other one.
LEMMA RemoveRange ==
  ASSUME NEW S, NEW s \in Seq(S), NEW n \in 1 .. Len(s)
  PROVE  \A x \in Range(s) : x = s[n] \/ x \in Range(RemoveAt(s, n))
<1> DEFINE a == SubSeq(s, 1, n - 1)
           b == SubSeq(s, n + 1, Len(s))
<1>1. a \in Seq(S) /\ b \in Seq(S) /\ DOMAIN s = 1 .. Len(s) /\ Len(s) \in Nat
  OBVIOUS
<1>2. /\ \A i \in 1 .. n - 1 : i \in DOMAIN a /\ a[i] = s[i]
      /\ \A i \in n + 1 .. Len(s) : i - n \in DOMAIN b /\ b[i - n] = s[i]
  BY <1>1
<1> HIDE DEF a, b
<1>3. Range(a \o b) = Range(a) \cup Range(b)
  BY <1>1, RangeConcat
<1>4. RemoveAt(s, n) = a \o b
  BY DEF RemoveAt, a, b
<1>5. ASSUME NEW i \in 1 .. Len(s), i # n PROVE s[i] \in Range(a) \cup Range(b)
  <2>1. i \in 1 .. n - 1 \/ i \in n + 1 .. Len(s)
    BY <1>1, <1>5
  <2> QED
    BY <1>2, <2>1 DEF Range
<1>6. \A x \in Range(s) : \E i \in 1 .. Len(s) : x = s[i]
  BY <1>1 DEF Range
<1> QED
  BY <1>3, <1>4, <1>5, <1>6

Sourced(f) ==
  f \in Range(timers) \/ f \in workers \/ Delivers(completions, f) \/ Delivers(batch, f)

\* Every action keeps SourceInv: a timer or a result leaves its queue only to be delivered.
LEMMA SourceStep == TypeOK /\ Inv /\ ThreadInv /\ SourceInv /\ [Next]_vars => SourceInv'
<1> SUFFICES ASSUME TypeOK, Inv, ThreadInv, SourceInv, [Next]_vars PROVE SourceInv'
  OBVIOUS
<1> USE DEF heap, posted, wakeup, flags, control
<1>1. /\ kind \in [Future -> {"free", "body", "leaf"}] /\ timers \in Seq(Future)
      /\ completions \in Seq(Entry) /\ batch \in Seq(Entry) /\ workers \in SUBSET Future
  BY DEF TypeOK
<1>2. \A f \in Future : kind[f] = "leaf" /\ state[f] = 0 /\ ctl # "dead" => Sourced(f)
  BY DEF SourceInv, Sourced
\* What a step has to show.
<1>3. ASSUME ctl' # "dead" => ctl # "dead",
             \A f \in Future : kind'[f] = "leaf" /\ state'[f] = 0 =>
               Sourced(f)' \/ (kind[f] = "leaf" /\ state[f] = 0 /\ (Sourced(f) => Sourced(f)'))
      PROVE  SourceInv'
  BY <1>2, <1>3 DEF SourceInv, Sourced
<1>4. ASSUME UNCHANGED <<timers, workers, completions, batch>>
      PROVE  \A f \in Future : Sourced(f)' <=> Sourced(f)
  BY <1>4 DEF Sourced
<1>5. ASSUME UNCHANGED <<kind, timers, workers, completions, batch>>, ctl' # "dead" => ctl # "dead",
             state' = state \/ \E g \in Future : \E v : Resolve(g, v)
      PROVE  SourceInv'
  BY <1>3, <1>4, <1>5, ResolveStates
<1>6. ASSUME NEW f \in Future, AsyncCall(f) \/ CallFunction(f) PROVE SourceInv'
  <2>1. /\ NewBody(f) /\ ctl # "dead" /\ UNCHANGED <<timers, workers, completions, batch>>
    BY <1>6 DEF AsyncCall, CallFunction
  <2>2. \A g \in Future : kind'[g] = "leaf" => kind[g] = "leaf" /\ g # f
    BY <1>1, <2>1 DEF NewBody
  <2>3. \A g \in Future : g # f => state'[g] = state[g]
    <3>1. state \in [Future -> {0, 1}]
      BY DEF TypeOK
    <3> QED
      BY <2>1, <3>1 DEF NewBody
  <2> QED
    BY <1>3, <1>4, <2>1, <2>2, <2>3
<1>7. ASSUME NEW f \in Future, AsyncWait(f) PROVE SourceInv'
  <2>1. /\ NewLeaf(f) /\ ctl # "dead" /\ state' = state /\ UNCHANGED <<workers, completions, batch>>
        /\ timers' = <<f>> \o timers
    BY <1>7 DEF AsyncWait
  <2>2. \A g \in Future : kind'[g] = "leaf" => kind[g] = "leaf" \/ g = f
    BY <1>1, <2>1 DEF NewLeaf
  <2>3. <<f>> \in Seq(Future) /\ Range(<<f>>) = {f}
    BY DEF Range
  <2>4. Range(timers') = {f} \cup Range(timers)
    <3> DEFINE h == <<f>>
    <3>1. h \in Seq(Future) /\ Range(h) = {f} /\ timers' = h \o timers
      BY <2>1, <2>3
    <3> HIDE DEF h
    <3> QED
      BY <1>1, <3>1, RangeConcat
  <2> QED
    BY <1>3, <2>1, <2>2, <2>4 DEF Sourced
\* A result is posted.
<1>8. ASSUME NEW e \in Entry, completions' = <<e>> \o completions
      PROVE  \A g \in Future : Delivers(completions', g) <=> e.fut = g \/ Delivers(completions, g)
  <2>1. /\ 1 \in DOMAIN completions' /\ completions'[1] = e
        /\ \A i \in DOMAIN completions : i + 1 \in DOMAIN completions' /\ completions'[i + 1] = completions[i]
        /\ \A i \in DOMAIN completions' : i = 1 \/ (i - 1 \in DOMAIN completions
                                                   /\ completions'[i] = completions[i - 1])
    BY <1>1, <1>8
  <2> QED
    BY <2>1 DEF Delivers
<1>9. ASSUME NEW f \in Future, AsyncWork(f) PROVE SourceInv'
  <2>1. /\ NewLeaf(f) /\ ctl # "dead" /\ state' = state /\ timers' = timers /\ batch' = batch
    BY <1>9 DEF AsyncWork
  <2>2. \A g \in Future : kind'[g] = "leaf" => kind[g] = "leaf" \/ g = f
    BY <1>1, <2>1 DEF NewLeaf
  <2>3. CASE workers' = workers \cup {f} /\ completions' = completions
    BY <1>3, <2>1, <2>2, <2>3 DEF Sourced
  <2>4. CASE completions' = <<[fut |-> f, val |-> None]>> \o completions /\ workers' = workers
    <3>1. [fut |-> f, val |-> None] \in Entry
      BY DEF Entry, Result
    <3>2. \A g \in Future : Delivers(completions', g) <=> f = g \/ Delivers(completions, g)
      BY <1>8, <2>4, <3>1
    <3> QED
      BY <1>3, <2>1, <2>2, <2>4, <3>2 DEF Sourced
  <2> QED
    BY <1>9, <2>3, <2>4 DEF AsyncWork
<1>10. ASSUME NEW f \in Future, NEW v \in Value, WorkerPost(f, v) PROVE SourceInv'
  <2>1. /\ workers' = workers \ {f} /\ UNCHANGED <<kind, state, timers, batch, ctl>>
        /\ completions' = <<[fut |-> f, val |-> v]>> \o completions
    BY <1>10 DEF WorkerPost
  <2>2. [fut |-> f, val |-> v] \in Entry
    BY DEF Entry, Result
  <2>3. \A g \in Future : Delivers(completions', g) <=> f = g \/ Delivers(completions, g)
    BY <1>8, <2>1, <2>2
  <2> QED
    BY <1>3, <2>1, <2>3 DEF Sourced
<1>11. CASE Drain
  <2>1. /\ batch = <<>> /\ ctl # "dead"
    BY <1>11 DEF Drain, ThreadInv, Idling, Looping
  <2>2. /\ batch' = completions /\ UNCHANGED <<kind, state, timers, workers>>
    BY <1>11 DEF Drain
  <2>3. \A g \in Future : ~Delivers(batch, g)
    BY <2>1 DEF Delivers
  <2>4. \A g \in Future : Delivers(completions, g) <=> Delivers(batch', g)
    BY <2>2
  <2> QED
    BY <1>3, <2>1, <2>2, <2>3, <2>4 DEF Sourced
<1>12. CASE WakeNext
  <2>1. /\ batch # <<>> /\ batch' = Tail(batch) /\ Resolve(Head(batch).fut, Head(batch).val)
        /\ ctl' = ctl /\ UNCHANGED <<kind, timers, workers, completions>>
    BY <1>12 DEF WakeNext
  <2>2. /\ Head(batch) = batch[1] /\ 1 \in DOMAIN batch
        /\ \A i \in DOMAIN batch : i = 1 \/ (i - 1 \in DOMAIN batch' /\ batch'[i - 1] = batch[i])
    BY <1>1, <2>1
  <2>3. Head(batch).fut \in Future
    <3>1. batch[1] \in Entry
      BY <1>1, <2>2
    <3>2. \A e \in Entry : e.fut \in Future
      BY DEF Entry
    <3> QED
      BY <2>2, <3>1, <3>2
  <2>4. \A g \in Future : Delivers(batch, g) => Delivers(batch', g) \/ g = Head(batch).fut
    BY <2>2 DEF Delivers
  <2>5. state'[Head(batch).fut] = 1 /\ \A g \in Future : state'[g] = 0 => state[g] = 0
    BY <2>1, <2>3, ResolveStates
  <2> QED
    BY <1>3, <2>1, <2>4, <2>5 DEF Sourced
<1>13. CASE PollFire
  <2>1. /\ cursor \in 1 .. Len(timers) /\ timers' = RemoveAt(timers, cursor)
        /\ Resolve(timers[cursor], None) /\ ctl' = ctl
        /\ UNCHANGED <<kind, workers, completions, batch>>
    BY <1>1, <1>13 DEF PollFire
  <2>2. timers[cursor] \in Future
    BY <1>1, <2>1
  <2>3. \A g \in Range(timers) : g = timers[cursor] \/ g \in Range(timers')
    BY <1>1, <2>1, RemoveRange
  <2>4. state'[timers[cursor]] = 1 /\ \A g \in Future : state'[g] = 0 => state[g] = 0
    BY <2>1, <2>2, ResolveStates
  <2> QED
    BY <1>3, <2>1, <2>3, <2>4 DEF Sourced
<1>14. CASE Free \/ Dead
  BY <1>14 DEF Free, Dead, SourceInv, vars
<1>15. ASSUME NEW f \in Future, AwaitResolved(f) \/ AwaitSuspend(f) \/ AwaitDrive(f) PROVE SourceInv'
  BY <1>5, <1>15 DEF AwaitResolved, AwaitSuspend, AwaitDrive
<1>16. ASSUME NEW v \in Value, Return(v) PROVE SourceInv'
  <2>1. current_task \in Future
    BY <1>16 DEF Return, TypeOK, Context
  <2> QED
    BY <1>5, <1>16, <2>1 DEF Return
<1>17. CASE Exit \/ RuntimeError \/ EndBuiltin \/ Halt \/ LoopExit \/ RunTask
  BY <1>5, <1>17 DEF Exit, RuntimeError, EndBuiltin, Halt, LoopExit, RunTask, Looping
<1>18. CASE WakeEnd \/ PollStart \/ PollSkip \/ PollEnd \/ NewRun \/ Destroy \/ UNCHANGED vars
  BY <1>5, <1>18 DEF WakeEnd, PollStart, PollSkip, PollEnd, NewRun, Destroy, Idling, Looping, vars
<1> QED
  BY <1>6, <1>7, <1>9, <1>10, <1>11, <1>12, <1>13, <1>14, <1>15, <1>16, <1>17, <1>18
     DEF Next, Bytecode, Scheduler

\* Every action keeps PlacedInv: a coroutine that leaves the processor is queued or has
\* registered with what it awaits, and one that is woken is queued.
LEMMA PlacedStep ==
  TypeOK /\ Inv /\ ThreadInv /\ BornInv /\ PlacedInv /\ [Next]_vars => PlacedInv'
<1> SUFFICES ASSUME TypeOK, Inv, ThreadInv, BornInv, PlacedInv, [Next]_vars PROVE PlacedInv'
  OBVIOUS
<1> USE DEF heap, posted, wakeup, flags, control
<1>1. /\ kind \in [Future -> {"free", "body", "leaf"}] /\ state \in [Future -> {0, 1}]
      /\ awaiting \in [Future -> Context] /\ ready \in Seq(Future) /\ waiters \in [Future -> Seq(Future)]
      /\ drives \in Seq(Drive) /\ Null \notin Future
  BY FutureAssumption DEF TypeOK
\* What a step has to show.
<1>2. ASSUME UNCHANGED run, Healthy' => Healthy,
             \A f \in Future : kind'[f] = "body" /\ state'[f] = 0 /\ Healthy' =>
               \/ Placed(f)'
               \/ kind[f] = "body" /\ state[f] = 0 /\ born'[f] = born[f] /\ (Placed(f) => Placed(f)')
      PROVE  PlacedInv'
  BY <1>2 DEF PlacedInv
<1>3. ASSUME UNCHANGED <<kind, born, run>>, Healthy' => Healthy,
             \A f \in Future : state'[f] = 0 => state[f] = 0 /\ (Placed(f) => Placed(f)')
      PROVE  PlacedInv'
  BY <1>2, <1>3
<1>4. ASSUME UNCHANGED <<kind, state, born, ready, awaiting, drives, current_task, run>>,
             Healthy' => Healthy
      PROVE  PlacedInv'
  BY <1>3, <1>4 DEF Placed, Runnable, Executing
\* Errors and os.exit lift the promise.
<1>5. ASSUME ~Healthy' PROVE PlacedInv'
  BY <1>5 DEF PlacedInv
<1>6. ASSUME NEW why, NEW target, Enter(why, target)
      PROVE  \A f \in Future : Executing(f) => Executing(f)'
  <2> DEFINE d == [why |-> why, target |-> target, task |-> current_task]
  <2>1. drives' = Append(drives, d) /\ d.task = current_task
    BY <1>6 DEF Enter
  <2> HIDE DEF d
  <2>2. /\ Len(drives) + 1 \in DOMAIN drives' /\ drives'[Len(drives) + 1] = d
        /\ \A i \in DOMAIN drives : i \in DOMAIN drives' /\ drives'[i] = drives[i]
    BY <1>1, <2>1
  <2> QED
    BY <2>1, <2>2 DEF Executing
\* A new coroutine is queued behind the others.
<1>7. ASSUME NEW f \in Future, NewBody(f)
      PROVE  /\ Range(ready) \subseteq Range(ready') /\ (state'[f] = 0 => f \in Range(ready'))
             /\ \A g \in Future \ {f} : kind'[g] = kind[g] /\ born'[g] = born[g] /\ state'[g] = state[g]
  <2>1. \A g \in Future \ {f} : kind'[g] = kind[g] /\ born'[g] = born[g] /\ state'[g] = state[g]
    <3>1. born \in [Future -> 0 .. MaxRuns]
      BY DEF TypeOK
    <3> QED
      BY <1>1, <1>7, <3>1 DEF NewBody
  <2>2. CASE ready' = Append(ready, f)
    <3>1. Range(Append(ready, f)) = Range(ready) \cup {f}
      BY <1>1, RangeAppend
    <3> QED
      BY <2>1, <2>2, <3>1
  <2>3. CASE ready' = ready /\ state' = [state EXCEPT ![f] = 1]
    BY <1>1, <2>1, <2>3
  <2> QED
    BY <1>7, <2>2, <2>3 DEF NewBody
<1>8. ASSUME NEW f \in Future, AsyncCall(f) PROVE PlacedInv'
  <2>1. /\ NewBody(f) /\ UNCHANGED <<awaiting, drives, current_task, run, ctl, exit_requested>>
        /\ had_error' = had_error \/ had_error' = TRUE
    BY <1>8 DEF AsyncCall, NewBody
  <2>2. Healthy' => Healthy
    BY <2>1 DEF Healthy
  <2> QED
    BY <1>2, <1>7, <2>1, <2>2 DEF Placed, Runnable, Executing
<1>9. ASSUME NEW f \in Future, CallFunction(f) PROVE PlacedInv'
  <2>1. /\ NewBody(f) /\ Enter("call", f) /\ UNCHANGED <<awaiting, run, exit_requested>>
        /\ had_error' = had_error \/ had_error' = TRUE
        /\ ctl # "dead"
    BY <1>9 DEF CallFunction, NewBody
  <2>2. Healthy' => Healthy
    BY <2>1 DEF Healthy
  <2> QED
    BY <1>2, <1>6, <1>7, <2>1, <2>2 DEF Placed, Runnable
<1>10. ASSUME NEW f \in Future, AwaitDrive(f) PROVE PlacedInv'
  <2>1. /\ Enter("await", f) /\ ctl # "dead"
        /\ UNCHANGED <<kind, state, born, ready, awaiting, run, had_error, exit_requested>>
    BY <1>10 DEF AwaitDrive
  <2> QED
    BY <1>3, <1>6, <2>1 DEF Placed, Runnable, Healthy
<1>11. CASE Halt
  <2>1. /\ ctl = "code" /\ current_task = Null
        /\ UNCHANGED <<kind, state, born, ready, awaiting, run, had_error, exit_requested>>
    BY <1>11 DEF Halt
  <2>2. CASE Enter("halt", Null)
    BY <1>3, <1>6, <2>1, <2>2 DEF Placed, Runnable, Healthy
  <2>3. CASE EndSlice /\ UNCHANGED drives
    BY <1>4, <2>1, <2>3 DEF EndSlice, Healthy
  <2> QED
    BY <1>11, <2>2, <2>3 DEF Halt
\* A suspended coroutine waits.
<1>12. ASSUME NEW f \in Future, AwaitSuspend(f) PROVE PlacedInv'
  <2>1. /\ current_task \in Future /\ awaiting' = [awaiting EXCEPT ![current_task] = f]
        /\ UNCHANGED <<kind, state, born, ready, drives, run, had_error, exit_requested>> /\ ctl = "code"
    BY <1>12 DEF AwaitSuspend, TypeOK, Context
  <2>2. awaiting'[current_task] # Null /\ \A g \in Future \ {current_task} : awaiting'[g] = awaiting[g]
    BY <1>1, <2>1
  <2>3. \A g \in Future : Placed(g) => Placed(g)'
    BY <2>1, <2>2 DEF Placed, Runnable, Executing
  <2> QED
    BY <1>3, <2>1, <2>3 DEF Healthy
\* A resolved future queues what waited for it.
<1>13. ASSUME NEW g \in Future, NEW v, Resolve(g, v), drives' = drives,
              current_task' = current_task \/ current_task = g
       PROVE  \A f \in Future : state'[f] = 0 => state[f] = 0 /\ (Placed(f) => Placed(f)')
  <2>1. state'[g] = 1 /\ \A f \in Future : state'[f] = 0 => state[f] = 0
    BY <1>13, ResolveStates
  <2>2. CASE state[g] # 0
    <3>1. ready' = ready /\ awaiting' = awaiting
      BY <1>13, <2>2 DEF Resolve
    <3> QED
      BY <1>13, <2>1, <3>1 DEF Placed, Runnable, Executing
  <2>3. CASE state[g] = 0
    <3>1. /\ ready' = ready \o waiters[g]
          /\ \A w \in Future : awaiting'[w] = IF w \in Range(waiters[g]) THEN Null ELSE awaiting[w]
      BY <1>13, <2>3 DEF Resolve
    <3>2. Range(ready') = Range(ready) \cup Range(waiters[g])
      BY <1>1, <3>1, RangeConcat
    <3> QED
      BY <1>13, <2>1, <3>1, <3>2 DEF Placed, Runnable, Executing
  <2> QED
    BY <1>1, <2>2, <2>3
<1>14. ASSUME NEW v \in Value, Return(v) PROVE PlacedInv'
  <2>1. /\ Resolve(current_task, v) /\ EndSlice /\ ctl = "code" /\ current_task \in Future
        /\ UNCHANGED <<kind, born, drives, run, had_error, exit_requested>>
    BY <1>14 DEF Return, TypeOK, Context
  <2> QED
    BY <1>3, <1>13, <2>1 DEF Healthy
<1>15. CASE WakeNext
  <2>1. /\ Resolve(Head(batch).fut, Head(batch).val) /\ batch # <<>>
        /\ UNCHANGED <<kind, born, drives, current_task, ctl, run, had_error, exit_requested>>
    BY <1>15 DEF WakeNext
  <2>2. Head(batch).fut \in Future
    <3>1. Head(batch) \in Entry
      BY <2>1 DEF TypeOK
    <3> QED
      BY <3>1 DEF Entry
  <2> QED
    BY <1>3, <1>13, <2>1, <2>2 DEF Healthy
<1>16. CASE PollFire
  <2>1. /\ Resolve(timers[cursor], None) /\ cursor \in DOMAIN timers
        /\ UNCHANGED <<kind, born, drives, current_task, ctl, run, had_error, exit_requested>>
    BY <1>16 DEF PollFire
  <2>2. timers[cursor] \in Future
    BY <2>1 DEF TypeOK
  <2> QED
    BY <1>3, <1>13, <2>1, <2>2 DEF Healthy
\* Leaving a loop resumes what it interrupted.
<1>17. CASE LoopExit
  <2>1. /\ drives # <<>> /\ drives' = SubSeq(drives, 1, Len(drives) - 1) /\ current_task = Null
        /\ current_task' = drives[Len(drives)].task /\ ctl # "dead"
        /\ UNCHANGED <<kind, state, born, ready, awaiting, run, had_error, exit_requested>>
    BY <1>17 DEF LoopExit, Looping, Front, Top, ThreadInv
  <2>2. \A i \in DOMAIN drives : i = Len(drives) \/ (i \in DOMAIN drives' /\ drives'[i] = drives[i])
    BY <1>1, <2>1
  <2>3. \A f \in Future : Placed(f) => Placed(f)'
    BY <1>1, <2>1, <2>2 DEF Placed, Runnable, Executing
  <2> QED
    BY <1>3, <2>1, <2>3 DEF Healthy
<1>18. CASE RunTask
  <2>1. /\ ready # <<>> /\ ready' = Tail(ready) /\ current_task' = Head(ready) /\ current_task = Null
        /\ UNCHANGED <<kind, state, born, awaiting, drives, run, had_error, exit_requested>> /\ ctl # "dead"
    BY <1>18 DEF RunTask, Looping, ThreadInv
  <2>2. \A i \in DOMAIN ready : ready[i] = Head(ready) \/ (i - 1 \in DOMAIN ready' /\ ready'[i - 1] = ready[i])
    BY <1>1, <2>1
  <2>3. \A f \in Range(ready) : f = current_task' \/ f \in Range(ready')
    BY <2>1, <2>2 DEF Range
  <2>4. \A f \in Future : Placed(f) => Placed(f)'
    BY <1>1, <2>1, <2>3 DEF Placed, Runnable, Executing
  <2> QED
    BY <1>3, <2>1, <2>4 DEF Healthy
<1>19. CASE Exit \/ RuntimeError
  BY <1>5, <1>19 DEF Exit, RuntimeError, Healthy
<1>20. ASSUME NEW f \in Future, AsyncWait(f) \/ AsyncWork(f) PROVE PlacedInv'
  <2>1. /\ NewLeaf(f) /\ UNCHANGED <<state, ready, awaiting, drives, run, had_error, exit_requested>>
        /\ ctl = "code" /\ AfterBuiltin(exit_requested)
    BY <1>20 DEF AsyncWait, AsyncWork
  <2>2. CASE exit_requested
    BY <1>5, <2>1, <2>2 DEF Healthy
  <2>3. CASE ~exit_requested
    <3>1. current_task' = current_task
      BY <2>1, <2>3 DEF AfterBuiltin
    <3>2. \A g \in Future : kind'[g] = "body" => kind[g] = "body" /\ born'[g] = born[g]
      <4>1. born \in [Future -> 0 .. MaxRuns]
        BY DEF TypeOK
      <4> QED
        BY <1>1, <2>1, <4>1 DEF NewLeaf
    <3>3. \A g \in Future : Placed(g) => Placed(g)'
      BY <2>1, <3>1 DEF Placed, Runnable, Executing
    <3>4. Healthy' => Healthy
      BY <2>1 DEF Healthy
    <3> QED
      BY <1>2, <2>1, <3>2, <3>3, <3>4
  <2> QED
    BY <2>2, <2>3
<1>21. CASE EndBuiltin
  BY <1>4, <1>5, <1>21 DEF EndBuiltin, Healthy
<1>22. ASSUME NEW f \in Future, AwaitResolved(f) PROVE PlacedInv'
  BY <1>4, <1>22 DEF AwaitResolved, Healthy
<1>23. CASE Drain \/ WakeEnd \/ PollStart \/ PollSkip \/ PollEnd
  BY <1>4, <1>23 DEF Drain, WakeEnd, PollStart, PollSkip, PollEnd, Idling, Looping, Healthy
<1>24. CASE (\E f \in Future, v \in Value : WorkerPost(f, v)) \/ Destroy \/ UNCHANGED vars
  <2>1. UNCHANGED <<kind, state, born, ready, awaiting, drives, current_task, run>>
    BY <1>24 DEF WorkerPost, Destroy, vars
  <2>2. had_error' = had_error /\ exit_requested' = exit_requested /\ (ctl' = ctl \/ ctl = "idle")
    BY <1>24 DEF WorkerPost, Destroy, vars
  <2>3. Healthy' => Healthy
    BY <2>2 DEF Healthy
  <2> QED
    BY <1>4, <2>1, <2>3
<1>25. CASE Free \/ Dead
  BY <1>5, <1>25 DEF Free, Dead, Healthy, vars
\* No coroutine belongs to the run that begins.
<1>26. CASE NewRun
  <2>1. run' = run + 1 /\ UNCHANGED <<kind, born>> /\ run \in Nat
    BY <1>26, BoundAssumption DEF NewRun, TypeOK
  <2>2. \A f \in Future : kind[f] = "body" => born[f] \in 1 .. run
    BY DEF BornInv
  <2>3. \A f \in Future : kind'[f] = "body" => born'[f] # run'
    BY <2>1, <2>2
  <2> QED
    BY <2>3 DEF PlacedInv
<1> QED
  BY <1>8, <1>9, <1>10, <1>11, <1>12, <1>14, <1>15, <1>16, <1>17, <1>18, <1>19, <1>20, <1>21, <1>22,
     <1>23, <1>24, <1>25, <1>26 DEF Next, Bytecode, Scheduler

\* Every action keeps IdleInv: a run ends cleanly only out of the halt loop, once all is quiet.
LEMMA IdleStep == TypeOK /\ Inv /\ ThreadInv /\ IdleInv /\ [Next]_vars => IdleInv'
<1> SUFFICES ASSUME TypeOK, Inv, ThreadInv, IdleInv, [Next]_vars PROVE IdleInv'
  OBVIOUS
<1> USE DEF heap, posted, wakeup, flags, control
<1>1. ASSUME UNCHANGED <<ctl, ready, timers, pending_workers, had_error, exit_requested>>
      PROVE  IdleInv'
  BY <1>1 DEF IdleInv, Healthy
<1>2. ASSUME ctl' # "idle" \/ ~Healthy' PROVE IdleInv'
  BY <1>2 DEF IdleInv
<1>3. ASSUME NEW f \in Future, AsyncCall(f) \/ AwaitResolved(f) PROVE IdleInv'
  BY <1>2, <1>3 DEF AsyncCall, AwaitResolved
<1>4. ASSUME NEW f \in Future, CallFunction(f) \/ AwaitDrive(f) \/ AwaitSuspend(f) PROVE IdleInv'
  BY <1>2, <1>4 DEF CallFunction, AwaitDrive, AwaitSuspend, Enter, EndSlice
<1>5. ASSUME NEW f \in Future, AsyncWait(f) \/ AsyncWork(f) PROVE IdleInv'
  <2>1. /\ ctl = "code" /\ exit_requested' = exit_requested
        /\ exit_requested \/ ctl' = ctl
    BY <1>5 DEF AsyncWait, AsyncWork, AfterBuiltin
  <2> QED
    BY <1>2, <2>1 DEF Healthy
<1>6. ASSUME NEW v \in Value, Return(v) PROVE IdleInv'
  BY <1>2, <1>6 DEF Return, EndSlice
<1>7. CASE Exit \/ RuntimeError
  BY <1>2, <1>7 DEF Exit, RuntimeError, Healthy
<1>8. CASE EndBuiltin
  <2>1. exit_requested' = exit_requested /\ (exit_requested \/ ctl' = "code")
    BY <1>8 DEF EndBuiltin
  <2> QED
    BY <1>2, <2>1 DEF Healthy
<1>9. CASE Halt
  <2>1. CASE had_error \/ exit_requested
    BY <1>2, <1>9, <2>1 DEF Halt, Healthy
  <2>2. CASE ~(had_error \/ exit_requested)
    BY <1>2, <1>9, <2>2 DEF Halt, Enter
  <2> QED
    BY <2>1, <2>2
\* The drain of OP_HALT ends without an error only when it finds nothing to wait for.
<1>10. CASE LoopExit
  <2>1. /\ had_error' = had_error /\ exit_requested' = exit_requested
        /\ UNCHANGED <<ready, timers, pending_workers>>
    BY <1>10 DEF LoopExit
  <2>2. CASE had_error
    BY <1>2, <2>1, <2>2 DEF Healthy
  <2>3. CASE ~had_error /\ ctl' = "idle"
    <3>1. Quiet \/ TargetResolved
      BY <1>10, <2>3 DEF LoopExit
    <3>2. Top.why \notin {"await", "call"}
      BY <1>10, <2>3 DEF LoopExit
    <3>3. Top \in Drive
      BY <1>10 DEF LoopExit, Looping, Top, TypeOK
    <3>4. Top.why = "halt"
      BY <3>2, <3>3 DEF Drive
    <3>5. Quiet
      BY <3>1, <3>4 DEF TargetResolved
    <3> QED
      BY <2>1, <3>5 DEF Quiet, IdleInv
  <2> QED
    BY <1>2, <2>2, <2>3
<1>11. CASE RunTask \/ Drain \/ PollStart \/ PollEnd
  BY <1>2, <1>11 DEF RunTask, Drain, PollStart, PollEnd
<1>12. CASE WakeNext \/ WakeEnd \/ PollFire \/ PollSkip
  BY <1>2, <1>12 DEF WakeNext, WakeEnd, PollFire, PollSkip
<1>13. CASE (\E f \in Future, v \in Value : WorkerPost(f, v)) \/ Dead \/ UNCHANGED vars
  BY <1>1, <1>13 DEF WorkerPost, Dead, vars
<1>14. CASE NewRun \/ Destroy \/ Free
  BY <1>2, <1>14 DEF NewRun, Destroy, Free
<1> QED
  BY <1>3, <1>4, <1>5, <1>6, <1>7, <1>8, <1>9, <1>10, <1>11, <1>12, <1>13, <1>14
     DEF Next, Bytecode, Scheduler

\* The ledger holds before the first run.
LEMMA InitLedger == Init => Ledger
<1> SUFFICES ASSUME Init PROVE Ledger
  OBVIOUS
<1>1. Cardinality({}) = 0 /\ Len(<<>>) = 0
  BY FS_EmptySet
<1>2. CountInv
  BY <1>1 DEF Init, CountInv
<1>3. ThreadInv /\ BornInv /\ SourceInv /\ PlacedInv /\ IdleInv
  BY DEF Init, ThreadInv, BornInv, SourceInv, PlacedInv, IdleInv
<1> QED
  BY <1>2, <1>3 DEF Ledger

\* The three invariants hold together in every reachable state.
LEMMA LedgerCorrect == Spec => [](TypeOK /\ Inv /\ Ledger)
<1>1. Init => TypeOK /\ Inv /\ Ledger
  BY InitTyped, InitInv, InitLedger
<1>2. TypeOK /\ Inv /\ Ledger /\ [Next]_vars => (TypeOK /\ Inv /\ Ledger)'
  <2> SUFFICES ASSUME TypeOK, Inv, Ledger, [Next]_vars PROVE (TypeOK /\ Inv /\ Ledger)'
    OBVIOUS
  <2>1. ThreadInv /\ BornInv /\ CountInv /\ SourceInv /\ PlacedInv /\ IdleInv
    BY DEF Ledger
  <2>2. TypeOK' /\ Inv'
    BY TypeStep, InvStep
  <2>3. ThreadInv' /\ BornInv' /\ CountInv' /\ SourceInv' /\ PlacedInv' /\ IdleInv'
    BY <2>1, ThreadStep, BornStep, CountStep, SourceStep, PlacedStep, IdleStep
  <2> QED
    BY <2>2, <2>3 DEF Ledger
<1> QED
  BY <1>1, <1>2, PTL DEF Spec

\* When pending_workers is zero, no worker runs and no result is under way.
LEMMA NothingPosted ==
  ASSUME TypeOK, CountInv, pending_workers = 0
  PROVE  workers = {} /\ completions = <<>> /\ batch = <<>>
<1>1. /\ IsFiniteSet(workers) /\ Cardinality(workers) \in Nat
      /\ completions \in Seq(Entry) /\ batch \in Seq(Entry) /\ drained \in Nat
      /\ Len(completions) \in Nat /\ Len(batch) \in Nat
  BY FutureAssumption, FS_Subset, FS_CardinalityType DEF TypeOK
<1>2. Cardinality(workers) = 0 /\ Len(completions) = 0 /\ Len(batch) = 0
  BY <1>1 DEF CountInv
<1> QED
  BY <1>1, <1>2, FS_EmptySet

\* No coroutine and no pending future is forgotten, neither while a run goes on nor when
\* it ends (future_start, OP_AWAIT, future_resolve, the loops, OP_HALT).
THEOREM NothingForgottenCorrect == Spec => []NothingForgotten
<1>1. TypeOK /\ Inv /\ Ledger => NoCoroutineLost
  <2> SUFFICES ASSUME TypeOK, PlacedInv, NEW f \in Future, kind[f] = "body", state[f] = 0,
                      born[f] = run, Healthy
               PROVE  Places(f) # {}
    BY DEF NoCoroutineLost, Ledger, Healthy
  <2>1. Placed(f) /\ f # Null
    BY FutureAssumption DEF PlacedInv
  <2>2. CASE \E i \in DOMAIN ready : ready[i] = f
    BY <2>2 DEF Places
  <2>3. CASE \E i \in DOMAIN drives : drives[i].task = f
    BY <2>3 DEF Places
  <2>4. CASE current_task = f
    BY <2>4 DEF Places
  <2>5. CASE awaiting[f] # Null
    BY <2>5 DEF Places
  <2> QED
    BY <2>1, <2>2, <2>3, <2>4, <2>5 DEF Placed, Runnable, Executing, Range
<1>2. TypeOK /\ Inv /\ Ledger => CleanRunLeavesOnlyCycles
  <2> SUFFICES ASSUME TypeOK, Inv, Ledger, ctl = "idle", run = 1, Healthy
               PROVE  /\ ready = <<>> /\ timers = <<>> /\ workers = {} /\ completions = <<>>
                      /\ \A f \in Future : kind[f] # "free" /\ state[f] = 0 =>
                           awaiting[f] # Null /\ state[awaiting[f]] = 0
    BY DEF CleanRunLeavesOnlyCycles, Healthy
  <2>1. ready = <<>> /\ timers = <<>> /\ pending_workers = 0
    BY DEF Ledger, IdleInv
  <2>2. workers = {} /\ completions = <<>> /\ batch = <<>>
    BY <2>1, NothingPosted DEF Ledger
  <2>3. ASSUME NEW f \in Future, kind[f] # "free", state[f] = 0
        PROVE  awaiting[f] # Null /\ state[awaiting[f]] = 0
    <3>1. kind[f] # "leaf"
      BY <2>1, <2>2, <2>3 DEF Ledger, SourceInv, Delivers, Range
    <3>2. kind[f] = "body" /\ born[f] = run
      BY <2>3, <3>1 DEF TypeOK, Ledger, BornInv
    <3>3. Placed(f)
      BY <2>3, <3>2 DEF Ledger, PlacedInv
    <3>4. ~Runnable(f)
      <4>1. current_task = Null /\ drives = <<>>
        BY DEF Ledger, ThreadInv, Inv, DriveInv
      <4> QED
        BY <2>1, <4>1, FutureAssumption DEF Runnable, Executing, Range
    <3> QED
      BY <3>3, <3>4 DEF Placed, Inv, AwaitInv
  <2> QED
    BY <2>1, <2>2, <2>3
<1> QED
  BY <1>1, <1>2, LedgerCorrect, PTL DEF NothingForgotten

\* The top level stops waiting for a future without an error only when nothing is left
\* that could resolve it (vm_drive_until).
THEOREM GivesUpCorrect == Spec => GivesUpOnlyWhenStuck
<1>1. TypeOK /\ Inv /\ Ledger /\ [Next]_vars =>
        ((/\ drives # <<>> /\ drives' = <<>> /\ drives[1].why = "await"
          /\ state[drives[1].target] = 0 /\ ~had_error)
         => \A f \in Future : kind[f] # "free" /\ state[f] = 0 =>
              Sources(f) = {} /\ (Places(f) = {} \/ awaiting[f] # Null))
  <2> SUFFICES ASSUME TypeOK, Inv, Ledger, [Next]_vars, drives # <<>>, drives' = <<>>,
                      drives[1].why = "await", state[drives[1].target] = 0, ~had_error,
                      NEW f \in Future
               PROVE  Sources(f) = {} /\ (Places(f) = {} \/ awaiting[f] # Null)
    OBVIOUS
  <2>1. drives \in Seq(Drive) /\ Null \notin Future
    BY FutureAssumption DEF TypeOK
  <2>2. \A why, target : ~Enter(why, target)
    BY <2>1 DEF Enter
  <2>3. LoopExit
    BY <2>2 DEF Next, Bytecode, Scheduler, AsyncCall, AsyncWait, AsyncWork, AwaitResolved, AwaitSuspend,
      AwaitDrive, CallFunction, Return, Exit, RuntimeError, EndBuiltin, Halt, RunTask, Drain, WakeNext,
      WakeEnd, PollStart, PollFire, PollSkip, PollEnd, WorkerPost, NewRun, Destroy, Free, Dead, vars, control
  <2>4. Len(drives) = 1 /\ Top = drives[1] /\ ctl \in {"head", "ready"}
    <3>1. Looping /\ drives' = SubSeq(drives, 1, Len(drives) - 1)
      BY <2>3 DEF LoopExit, Front
    <3>2. Len(drives) \in Nat /\ Len(drives) # 0
      BY <2>1
    <3>3. Len(SubSeq(drives, 1, Len(drives) - 1)) = Len(drives) - 1
      <4> DEFINE n == Len(drives)
      <4>1. n \in Nat \ {0} /\ n - 1 \in Nat
        BY <3>2
      <4> HIDE DEF n
      <4>2. Len(SubSeq(drives, 1, n - 1)) = n - 1
        BY <2>1, <4>1
      <4> QED
        BY <4>2 DEF n
    <3>4. Len(drives) = 1
      <4>1. SubSeq(drives, 1, Len(drives) - 1) = <<>>
        BY <3>1
      <4>2. Len(SubSeq(drives, 1, Len(drives) - 1)) = 0
        BY <4>1
      <4> QED
        BY <3>2, <3>3, <4>2
    <3> QED
      BY <3>1, <3>4 DEF Looping, Top
  <2>5. Quiet /\ completions = <<>>
    BY <2>3, <2>4 DEF LoopExit, TargetResolved
  <2>6. workers = {} /\ batch = <<>>
    BY <2>5, NothingPosted DEF Quiet, Ledger
  <2>7. Sources(f) = {}
    BY <2>5, <2>6 DEF Quiet, Sources
  <2>8. current_task = Null /\ \A i \in DOMAIN drives : drives[i].task = Null
    BY <2>1, <2>4 DEF Ledger, ThreadInv
  <2>9. awaiting[f] = Null => Places(f) = {}
    BY <2>1, <2>5, <2>8 DEF Quiet, Places
  <2> QED
    BY <2>7, <2>9
<1> QED
  BY <1>1, LedgerCorrect, PTL DEF Spec, GivesUpOnlyWhenStuck
=============================================================================
