------------------------- MODULE CompletionQueueProofs -------------------------
(***************************************************************************)
(* The worker mailbox, for any finite set of tasks: the slot counter is    *)
(* exact, a parked VM thread is never forgotten, and no thread touches a   *)
(* VM that vm_destroy has freed.                                           *)
(***************************************************************************)
EXTENDS CompletionQueue, FiniteSetTheorems, TLAPS

Working == {t \in Task : thread[t] = "works"}

\* os_spawn_worker is at work exactly between its two steps, on a task nobody has seen.
SpawnInv ==
  /\ task # None <=> pc = "spawn"
  /\ task # None => thread[task] = "none" /\ task \notin completions \cup batch \cup resolved

\* Only a publishing worker holds the mutex, and its completion is still in the list.
MutexInv ==
  /\ \A t \in Task : thread[t] = "publishes" <=> mutex = t
  /\ mutex \in completions \cup {None}

\* A drain is in progress only where vm_drain_completions runs.
DrainInv ==
  batch # {} \/ drained # {} => pc \in {"resolve", "discardAll"}

\* Past its test vm_destroy has seen the counter at zero.
SweepInv == pc \in {"sweep", "freed"} => pending_workers = 0

IInv == /\ TypeOK /\ SpawnInv /\ MutexInv /\ DrainInv /\ SweepInv
        /\ DeliveredOnce /\ PendingIsExact /\ NoLostWakeup

LEMMA OutstandingFinite ==
  ASSUME TypeOK
  PROVE  /\ Outstanding \subseteq Task /\ IsFiniteSet(Outstanding)
         /\ Cardinality(Outstanding) \in Nat
<1>1. Outstanding \subseteq Task
  BY DEF Outstanding, TypeOK
<1> QED
  BY <1>1, TaskAssumption, FS_Subset, FS_CardinalityType

\* Every step keeps the protocol between the VM thread and the workers.
LEMMA ProtocolStep ==
  ASSUME IInv, [Next]_vars
  PROVE  /\ SpawnInv' /\ MutexInv' /\ DrainInv' /\ DeliveredOnce'
<1> USE TaskAssumption DEF IInv
<1>1. CASE NewRun \/ EndRun \/ AsyncCall \/ Sleep \/ EnterLoop
  BY <1>1 DEF NewRun, EndRun, AsyncCall, Sleep, EnterLoop, queue, SpawnInv, MutexInv, DrainInv,
              DeliveredOnce
<1>2. ASSUME NEW t \in Task, Reserve(t)
      PROVE  SpawnInv' /\ MutexInv' /\ DrainInv' /\ DeliveredOnce'
  BY <1>2 DEF Reserve, SpawnInv, MutexInv, DrainInv, DeliveredOnce
<1>3. CASE Started
  BY <1>3 DEF Started, queue, SpawnInv, MutexInv, DrainInv, DeliveredOnce, TypeOK
<1>4. CASE StartFails
  BY <1>4 DEF StartFails, SpawnInv, MutexInv, DrainInv, DeliveredOnce, TypeOK
<1>5. CASE Slice \/ Decide \/ Park \/ Wake \/ Spurious \/ ParkTimed \/ UnparkTimed \/ PollNone
  BY <1>5 DEF Slice, Decide, Park, Wake, Spurious, Unpark, ParkTimed, UnparkTimed, PollNone,
              queue, SpawnInv, MutexInv, DrainInv, DeliveredOnce
<1>6. CASE PollFires \/ Destroy \/ DestroyTest \/ Freed \/ UNCHANGED vars
  BY <1>6 DEF PollFires, Destroy, DestroyTest, Freed, vars, queue, SpawnInv, MutexInv, DrainInv,
              DeliveredOnce
<1>7. CASE DrainTake
  BY <1>7 DEF DrainTake, Locked, SpawnInv, MutexInv, DrainInv, DeliveredOnce
<1>8. ASSUME NEW t \in Task, Resolve(t)
      PROVE  SpawnInv' /\ MutexInv' /\ DrainInv' /\ DeliveredOnce'
  BY <1>8 DEF Resolve, SpawnInv, MutexInv, DrainInv, DeliveredOnce
<1>9. CASE Release
  BY <1>9 DEF Release, SpawnInv, MutexInv, DrainInv, DeliveredOnce
<1>10. ASSUME NEW t \in Task, Publish(t)
      PROVE  SpawnInv' /\ MutexInv' /\ DrainInv' /\ DeliveredOnce'
  BY <1>10 DEF Publish, Locked, SpawnInv, MutexInv, DrainInv, DeliveredOnce, TypeOK
<1>11. ASSUME NEW t \in Task, Unlock(t)
      PROVE  SpawnInv' /\ MutexInv' /\ DrainInv' /\ DeliveredOnce'
  BY <1>11 DEF Unlock, SpawnInv, MutexInv, DrainInv, DeliveredOnce, TypeOK
<1> QED
  BY <1>1, <1>2, <1>3, <1>4, <1>5, <1>6, <1>7, <1>8, <1>9, <1>10, <1>11
  DEF Next, Code, Loop, Worker

\* The slot counter follows the outstanding tasks.
LEMMA CountStep ==
  ASSUME IInv, [Next]_vars
  PROVE  PendingIsExact'
<1> USE TaskAssumption DEF IInv
<1> DEFINE n == Cardinality(Outstanding)
<1>0. pending_workers = n /\ n \in Nat /\ IsFiniteSet(Outstanding)
  BY OutstandingFinite DEF PendingIsExact
<1>1. ASSUME Outstanding' = Outstanding, pending_workers' = pending_workers
      PROVE  PendingIsExact'
  BY <1>0, <1>1 DEF PendingIsExact
<1>2. CASE NewRun \/ EndRun \/ AsyncCall \/ Sleep \/ EnterLoop \/ Slice \/ Decide
  BY <1>1, <1>2 DEF NewRun, EndRun, AsyncCall, Sleep, EnterLoop, Slice, Decide, queue, Outstanding
<1>3. CASE Park \/ Wake \/ Spurious \/ ParkTimed \/ UnparkTimed \/ PollNone \/ PollFires
           \/ Destroy \/ DestroyTest \/ Freed \/ UNCHANGED vars
  BY <1>1, <1>3 DEF Park, Wake, Spurious, Unpark, ParkTimed, UnparkTimed, PollNone, PollFires,
                    Destroy, DestroyTest, Freed, vars, queue, Outstanding
<1>4. ASSUME NEW t \in Task, Reserve(t) PROVE PendingIsExact'
  <2>1. t \notin Outstanding /\ Outstanding' = Outstanding \cup {t}
    BY <1>4 DEF Reserve, Outstanding, SpawnInv, DeliveredOnce
  <2>2. Cardinality(Outstanding \cup {t}) = n + 1
    BY <1>0, <2>1, FS_AddElement
  <2> QED
    BY <1>0, <1>4, <2>1, <2>2 DEF Reserve, PendingIsExact
<1>5. CASE Started
  <2>1. task \in Task /\ thread[task] = "none"
    BY <1>5 DEF Started, SpawnInv, TypeOK
  <2>2. {t \in Task : thread'[t] = "works"} = {t \in Task : thread[t] = "works"} \cup {task}
    BY <1>5, <2>1 DEF Started, TypeOK
  <2>3. Outstanding' = Outstanding
    BY <1>5, <2>1, <2>2 DEF Started, queue, Outstanding
  <2> QED
    BY <1>1, <1>5, <2>3 DEF Started, queue
<1>6. CASE StartFails
  <2>1. Outstanding' = Outstanding
    BY <1>6 DEF StartFails, Outstanding, SpawnInv, TypeOK
  <2> QED
    BY <1>1, <1>6, <2>1 DEF StartFails
<1>7. CASE DrainTake
  <2>1. batch = {}
    BY <1>7 DEF DrainTake, DrainInv
  <2>2. Outstanding' = Outstanding
    BY <1>7, <2>1 DEF DrainTake, Outstanding
  <2> QED
    BY <1>1, <1>7, <2>2 DEF DrainTake
<1>8. ASSUME NEW t \in Task, Resolve(t) PROVE PendingIsExact'
  <2>1. Outstanding' = Outstanding
    BY <1>8 DEF Resolve, Outstanding
  <2> QED
    BY <1>1, <1>8, <2>1 DEF Resolve
<1>9. CASE Release
  <2>1. /\ drained \subseteq Outstanding
        /\ Outstanding' = Outstanding \ drained
    BY <1>9 DEF Release, Outstanding, DeliveredOnce, SpawnInv
  <2>2. /\ IsFiniteSet(drained) /\ Cardinality(drained) \in Nat /\ Cardinality(drained) <= n
    BY <1>0, <2>1, FS_Subset, FS_CardinalityType
  <2>3. Cardinality(Outstanding \ drained) = n - Cardinality(drained)
    <3>1. Outstanding \cap drained = drained
      BY <2>1
    <3> QED
      BY <1>0, <2>1, <2>2, <3>1, FS_Difference
  <2> QED
    BY <1>0, <1>9, <2>1, <2>2, <2>3 DEF Release, PendingIsExact
<1>10. ASSUME NEW t \in Task, Publish(t) PROVE PendingIsExact'
  <2>1. {u \in Task : thread'[u] = "works"} = {u \in Task : thread[u] = "works"} \ {t}
    BY <1>10 DEF Publish, TypeOK
  <2>2. Outstanding' = Outstanding
    BY <1>10, <2>1 DEF Publish, Outstanding
  <2> QED
    BY <1>1, <1>10, <2>2 DEF Publish
<1>11. ASSUME NEW t \in Task, Unlock(t) PROVE PendingIsExact'
  <2>1. {u \in Task : thread'[u] = "works"} = {u \in Task : thread[u] = "works"}
    BY <1>11 DEF Unlock, TypeOK
  <2>2. Outstanding' = Outstanding
    BY <1>11, <2>1 DEF Unlock, Outstanding
  <2> QED
    BY <1>1, <1>11, <2>2 DEF Unlock
<1> QED
  BY <1>2, <1>3, <1>4, <1>5, <1>6, <1>7, <1>8, <1>9, <1>10, <1>11 DEF Next, Code, Loop, Worker

\* A VM thread that parks leaves a worker behind that will signal.
LEMMA WakeupStep ==
  ASSUME IInv, [Next]_vars
  PROVE  NoLostWakeup'
<1> USE TaskAssumption DEF IInv
<1>1. ASSUME Park \/ Unpark PROVE NoLostWakeup'
  <2>1. batch = {} /\ drained = {} /\ task = None
    BY <1>1 DEF Park, Unpark, DrainInv, SpawnInv
  <2>2. completions = {} /\ pending_workers > 0 => \E t \in Task : thread[t] = "works"
    <3> SUFFICES ASSUME completions = {}, pending_workers > 0
                 PROVE  \E t \in Task : thread[t] = "works"
      OBVIOUS
    <3>1. Outstanding # {}
      BY FS_EmptySet, OutstandingFinite DEF PendingIsExact
    <3> QED
      BY <2>1, <3>1 DEF Outstanding
  <2> QED
    BY <1>1, <2>2 DEF Park, Unpark, queue, NoLostWakeup
<1>2. CASE \E t \in Task : Publish(t)
  BY <1>2 DEF Publish, NoLostWakeup
<1>3. ASSUME NEW t \in Task, Unlock(t) PROVE NoLostWakeup'
  <2>1. \A u \in Task : thread[u] = "works" => thread'[u] = "works"
    BY <1>3 DEF Unlock, TypeOK
  <2> QED
    BY <1>3, <2>1 DEF Unlock, NoLostWakeup
<1>4. CASE Code
  BY <1>4 DEF Code, NewRun, EndRun, AsyncCall, Sleep, Reserve, Started, StartFails, EnterLoop,
              NoLostWakeup
<1>5. CASE Slice \/ DrainTake \/ Release \/ Decide \/ ParkTimed \/ UnparkTimed \/ PollNone \/ PollFires
  BY <1>5 DEF Slice, DrainTake, Release, Decide, ParkTimed, UnparkTimed, PollNone, PollFires,
              NoLostWakeup
<1>6. CASE (\E t \in Task : Resolve(t)) \/ Destroy \/ DestroyTest
  BY <1>6 DEF Resolve, Destroy, DestroyTest, NoLostWakeup
<1>7. CASE Freed \/ UNCHANGED vars
  BY <1>7 DEF Freed, vars, NoLostWakeup
<1> QED
  BY <1>1, <1>2, <1>3, <1>4, <1>5, <1>6, <1>7 DEF Next, Loop, Worker, Wake, Spurious

LEMMA TypeStep ==
  ASSUME IInv, [Next]_vars
  PROVE  TypeOK' /\ SweepInv'
<1> USE TaskAssumption, BoundAssumption DEF IInv
<1>1. ASSUME NewRun \/ EndRun \/ EnterLoop PROVE TypeOK' /\ SweepInv'
  BY <1>1 DEF NewRun, EndRun, EnterLoop, queue, TypeOK, Pc, SweepInv
<1>2. ASSUME AsyncCall \/ Sleep PROVE TypeOK' /\ SweepInv'
  BY <1>2 DEF AsyncCall, Sleep, queue, TypeOK, SweepInv
<1>8. ASSUME NEW t \in Task, Reserve(t) PROVE TypeOK' /\ SweepInv'
  BY <1>8 DEF Reserve, TypeOK, Pc, SweepInv
<1>9. ASSUME Started \/ StartFails PROVE TypeOK' /\ SweepInv'
  BY <1>9 DEF Started, StartFails, queue, TypeOK, Pc, SweepInv, SpawnInv
<1>10. ASSUME Slice \/ Decide \/ PollNone PROVE TypeOK' /\ SweepInv'
  BY <1>10 DEF Slice, Decide, PollNone, queue, TypeOK, Pc, SweepInv
<1>11. ASSUME Park \/ Wake \/ Spurious PROVE TypeOK' /\ SweepInv'
  BY <1>11 DEF Park, Wake, Spurious, Unpark, queue, TypeOK, Pc, SweepInv
<1>12. ASSUME ParkTimed \/ UnparkTimed PROVE TypeOK' /\ SweepInv'
  BY <1>12 DEF ParkTimed, UnparkTimed, queue, TypeOK, Pc, SweepInv
<1>13. ASSUME DrainTake PROVE TypeOK' /\ SweepInv'
  BY <1>13 DEF DrainTake, TypeOK, Pc, SweepInv
<1>3. CASE \E t \in Task : Resolve(t)
  BY <1>3 DEF Resolve, TypeOK, SweepInv
<1>4. CASE Release
  <2>1. IsFiniteSet(drained) /\ Cardinality(drained) \in Nat
    BY FS_Subset, FS_CardinalityType DEF TypeOK
  <2> QED
    BY <1>4, <2>1 DEF Release, TypeOK, Pc, SweepInv
<1>5. CASE PollFires
  BY <1>5 DEF PollFires, queue, TypeOK, Pc, SweepInv
<1>6. CASE Destroy \/ DestroyTest \/ Freed \/ UNCHANGED vars
  BY <1>6 DEF Destroy, DestroyTest, Freed, vars, queue, TypeOK, Pc, SweepInv
<1>7. ASSUME NEW t \in Task, Worker(t) PROVE TypeOK' /\ SweepInv'
  BY <1>7 DEF Worker, Publish, Unlock, TypeOK, SweepInv
<1> QED
  BY <1>1, <1>2, <1>3, <1>4, <1>5, <1>6, <1>7, <1>8, <1>9, <1>10, <1>11, <1>12, <1>13
  DEF Next, Code, Loop

LEMMA Initially == Init => IInv
<1>1. Init => Outstanding = {} /\ Cardinality({}) = 0
  BY FS_EmptySet DEF Init, Outstanding
<1>2. Init => TypeOK
  <2>1. Init => timers \in 0 .. MaxTimers /\ calls \in 0 .. MaxCalls
    BY BoundAssumption DEF Init
  <2>2. Init => pc \in Pc
    BY DEF Init, Pc
  <2>3. Init => thread \in [Task -> {"none", "works", "publishes", "gone"}]
    BY DEF Init
  <2>4. Init => /\ task \in Task \cup {None} /\ mutex \in Task \cup {None}
                /\ completions \subseteq Task /\ batch \subseteq Task
                /\ drained \subseteq Task /\ resolved \subseteq Task
                /\ pending_workers \in Nat /\ ready \in Nat
    BY DEF Init
  <2>5. Init => signalled \in BOOLEAN
    BY Zenon DEF Init
  <2> QED
    BY <2>1, <2>2, <2>3, <2>4, <2>5, Zenon DEF TypeOK
<1>3. Init => SpawnInv /\ MutexInv /\ DrainInv /\ SweepInv
  BY TaskAssumption DEF Init, SpawnInv, MutexInv, DrainInv, SweepInv
<1>4. Init => DeliveredOnce /\ PendingIsExact /\ NoLostWakeup
  BY <1>1 DEF Init, DeliveredOnce, PendingIsExact, NoLostWakeup
<1> QED
  BY <1>2, <1>3, <1>4 DEF IInv

LEMMA Invariant == Spec => []IInv
<1>1. IInv /\ [Next]_vars => IInv'
  BY ProtocolStep, CountStep, WakeupStep, TypeStep DEF IInv
<1> QED
  BY Initially, <1>1, PTL DEF Spec

\* A freed VM has no outstanding task, so no thread that will still use it.
LEMMA FreedIsLast == IInv => NoThreadOutlivesVM
<1> SUFFICES ASSUME IInv, pc = "freed", NEW t \in Task PROVE thread[t] \in {"none", "gone"}
  BY DEF NoThreadOutlivesVM
<1>1. Outstanding = {}
  BY OutstandingFinite, FS_EmptySet DEF IInv, SweepInv, PendingIsExact
<1>2. thread[t] # "works" /\ t \notin completions
  BY <1>1 DEF Outstanding
<1>3. thread[t] # "publishes"
  BY <1>2, TaskAssumption DEF IInv, MutexInv
<1> QED
  BY <1>2, <1>3 DEF IInv, TypeOK

\* The mailbox keeps its types for any finite set of tasks.
THEOREM MailboxTypes == Spec => []TypeOK
  BY Invariant, PTL DEF IInv

\* The slot counter is exact for any number of tasks; the clamp never acts.
THEOREM PendingCorrect == Spec => []PendingIsExact
  BY Invariant, PTL DEF IInv

\* vm_destroy never frees a VM that a worker thread will still touch.
THEOREM DestroyIsSafe == Spec => []NoThreadOutlivesVM
  BY Invariant, FreedIsLast, PTL

\* No wakeup of the parked VM thread is lost.
THEOREM WakeupCorrect == Spec => []NoLostWakeup
  BY Invariant, PTL DEF IInv

\* Every completion is resolved at most once.
THEOREM DeliveryCorrect == Spec => []DeliveredOnce
  BY Invariant, PTL DEF IInv
=============================================================================
