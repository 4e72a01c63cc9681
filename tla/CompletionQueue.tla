---------------------------- MODULE CompletionQueue ----------------------------
(***************************************************************************)
(* The mailbox between worker threads and the VM thread (core/vm.c), at    *)
(* the grain of its mutex and condition variable. A builtin reserves a     *)
(* slot in pending_workers and starts a thread; the thread publishes one   *)
(* completion and signals; the VM thread drains in its scheduler loops,    *)
(* parks while there is nothing to run, and in vm_destroy outlives every   *)
(* thread. Critical sections of the VM thread are single steps; a worker   *)
(* publishes and unlocks in two, so that the VM may be freed in between.   *)
(*                                                                         *)
(* The order of the completions does not matter here, so they are sets;    *)
(* AsyncScheduler models it.                                               *)
(***************************************************************************)
EXTENDS Integers, FiniteSets

CONSTANTS Task,       \* asynchronous builtin calls, each run by its own thread
          None,
          MaxTimers,  \* bound on timers pending at once
          MaxCalls    \* bound on the async calls of the program

ASSUME TaskAssumption  == IsFiniteSet(Task) /\ None \notin Task
ASSUME BoundAssumption == MaxTimers \in Nat /\ MaxCalls \in Nat

VARIABLES
  pc,               \* where the VM thread is
  task,             \* the task os_spawn_worker is starting
  thread,           \* thread[t]: "none", "works", "publishes" or "gone"
  mutex,            \* the worker that holds completion_mutex, or None
  completions,      \* published, not yet taken
  pending_workers,
  batch,            \* taken by the drain in progress, not yet resolved
  drained,          \* resolved by the drain in progress, slots not yet released
  resolved,         \* tasks whose future has been resolved
  signalled,        \* completion_cond was signalled while the VM thread waits
  ready, timers,    \* how many coroutines are queued, how many timers pend
  calls             \* async calls the program may still make

vars == <<pc, task, thread, mutex, completions, pending_workers, batch, drained,
          resolved, signalled, ready, timers, calls>>
queue == <<mutex, completions, pending_workers, batch, drained>>

\* "code" runs bytecode; "loop" ... "poll" is a scheduler loop; "idle" is between
\* runs; "dying" ... "freed" is vm_destroy.
Pc == {"code", "spawn", "loop", "resolve", "decide", "wait", "parked", "timed", "poll",
       "idle", "dying", "discard", "discardAll", "sweep", "freed"}

TypeOK ==
  /\ pc \in Pc /\ task \in Task \cup {None}
  /\ thread \in [Task -> {"none", "works", "publishes", "gone"}]
  /\ mutex \in Task \cup {None}
  /\ completions \subseteq Task /\ batch \subseteq Task
  /\ drained \subseteq Task /\ resolved \subseteq Task
  /\ pending_workers \in Nat
  /\ signalled \in BOOLEAN
  /\ ready \in Nat /\ timers \in 0 .. MaxTimers /\ calls \in 0 .. MaxCalls

Init ==
  /\ pc = "idle" /\ task = None
  /\ thread = [t \in Task |-> "none"]
  /\ mutex = None /\ completions = {} /\ batch = {} /\ drained = {} /\ resolved = {}
  /\ pending_workers = 0
  /\ signalled = FALSE
  /\ ready = 0 /\ timers = 0 /\ calls = MaxCalls

Locked == mutex # None

-----------------------------------------------------------------------------
(* The VM thread runs bytecode.                                             *)

\* apex_run_string starts a script.
NewRun ==
  /\ pc = "idle" /\ pc' = "code"
  /\ UNCHANGED <<task, thread, queue, resolved, signalled, ready, timers, calls>>

\* os.exit or an error ends the run, whatever is pending; so does a loop that has
\* nothing left.
EndRun ==
  /\ pc = "code" /\ pc' = "idle"
  /\ UNCHANGED <<task, thread, queue, resolved, signalled, ready, timers, calls>>

\* OP_ASYNC_CALL queues a coroutine.
AsyncCall ==
  /\ pc = "code" /\ calls > 0
  /\ calls' = calls - 1 /\ ready' = ready + 1
  /\ UNCHANGED <<pc, task, thread, queue, resolved, signalled, timers>>

\* vm_schedule_timer.
Sleep ==
  /\ pc = "code" /\ timers < MaxTimers /\ calls > 0
  /\ timers' = timers + 1 /\ calls' = calls - 1
  /\ UNCHANGED <<pc, task, thread, queue, resolved, signalled, ready>>

\* os_spawn_worker reserves the slot before the thread can finish.
Reserve(t) ==
  /\ pc = "code" /\ thread[t] = "none" /\ t \notin completions \cup batch \cup resolved
  /\ ~Locked
  /\ pending_workers' = pending_workers + 1
  /\ task' = t /\ pc' = "spawn"
  /\ UNCHANGED <<thread, mutex, completions, batch, drained, resolved, signalled, ready,
                 timers, calls>>

\* pthread_create succeeds.
Started ==
  /\ pc = "spawn"
  /\ thread' = [thread EXCEPT ![task] = "works"]
  /\ task' = None /\ pc' = "code"
  /\ UNCHANGED <<queue, resolved, signalled, ready, timers, calls>>

\* Mutant of StartFails: the slot is given back, but nothing is published.
StartFailsSilently ==
  /\ pc = "spawn" /\ ~Locked
  /\ task' = None /\ pc' = "code"
  /\ UNCHANGED <<thread, queue, resolved, signalled, ready, timers, calls>>

\* pthread_create fails: the VM thread publishes none itself.
StartFails ==
  /\ pc = "spawn" /\ ~Locked
  /\ completions' = completions \cup {task}
  /\ task' = None /\ pc' = "code"
  /\ UNCHANGED <<thread, mutex, pending_workers, batch, drained, resolved, signalled, ready,
                 timers, calls>>

\* OP_AWAIT or OP_HALT goes to the scheduler loop.
EnterLoop ==
  /\ pc = "code" /\ pc' = "loop"
  /\ UNCHANGED <<task, thread, queue, resolved, signalled, ready, timers, calls>>

-----------------------------------------------------------------------------
(* The scheduler loop.                                                      *)

\* scheduler_pop and a slice.
Slice ==
  /\ pc = "loop" /\ ready > 0
  /\ ready' = ready - 1 /\ pc' = "code"
  /\ UNCHANGED <<task, thread, queue, resolved, signalled, timers, calls>>

\* Mutant of DrainTake: vm->completions is not reset.
DrainTakeKeeps ==
  /\ ~Locked
  /\ \/ pc = "loop" /\ ready = 0 /\ pc' = IF completions = {} THEN "decide" ELSE "resolve"
     \/ pc = "discard" /\ pc' = IF completions = {} THEN "dying" ELSE "discardAll"
     \/ pc = "sweep" /\ pc' = IF completions = {} THEN "freed" ELSE "discardAll"
  /\ batch' = completions
  /\ UNCHANGED <<task, thread, mutex, completions, pending_workers, drained, resolved,
                 signalled, ready, timers, calls>>

\* vm_drain_completions takes the whole list: from a loop whose ready queue is
\* empty, from vm_destroy, and in its final sweep.
DrainTake ==
  /\ ~Locked
  /\ \/ pc = "loop" /\ ready = 0 /\ pc' = IF completions = {} THEN "decide" ELSE "resolve"
     \/ pc = "discard" /\ pc' = IF completions = {} THEN "dying" ELSE "discardAll"
     \/ pc = "sweep" /\ pc' = IF completions = {} THEN "freed" ELSE "discardAll"
  /\ batch' = completions /\ completions' = {}
  /\ UNCHANGED <<task, thread, mutex, pending_workers, drained, resolved, signalled, ready,
                 timers, calls>>

\* future_resolve of one completion; a coroutine may have been waiting for it.
Resolve(t) ==
  /\ pc \in {"resolve", "discardAll"} /\ t \in batch
  /\ batch' = batch \ {t} /\ drained' = drained \cup {t} /\ resolved' = resolved \cup {t}
  /\ ready' \in {ready, ready + 1}
  /\ UNCHANGED <<pc, task, thread, mutex, completions, pending_workers, signalled, timers,
                 calls>>

\* Mutant of Release: one slot per drain, however many completions it resolved.
ReleaseOne ==
  /\ pc \in {"resolve", "discardAll"} /\ batch = {} /\ ~Locked
  /\ pending_workers' = IF pending_workers = 0 THEN 0 ELSE pending_workers - 1
  /\ drained' = {}
  /\ pc' = IF pc = "resolve" THEN "loop" ELSE "dying"
  /\ UNCHANGED <<task, thread, mutex, completions, batch, resolved, signalled, ready, timers,
                 calls>>

\* Mutant of Release: count starts at one and the counter is not clamped.
ReleaseFromOne ==
  /\ pc \in {"resolve", "discardAll"} /\ batch = {} /\ ~Locked
  /\ pending_workers' = pending_workers - (Cardinality(drained) + 1)
  /\ drained' = {}
  /\ pc' = IF pc = "resolve" THEN "loop" ELSE "dying"
  /\ UNCHANGED <<task, thread, mutex, completions, batch, resolved, signalled, ready, timers,
                 calls>>

\* The drain releases the slots of what it resolved, clamped at zero.
Release ==
  /\ pc \in {"resolve", "discardAll"} /\ batch = {} /\ ~Locked
  /\ pending_workers' = IF pending_workers < Cardinality(drained) THEN 0
                        ELSE pending_workers - Cardinality(drained)
  /\ drained' = {}
  /\ pc' = IF pc = "resolve" THEN "loop" ELSE "dying"
  /\ UNCHANGED <<task, thread, mutex, completions, batch, resolved, signalled, ready, timers,
                 calls>>

\* Nothing ran and nothing was drained: wait for what pends, or leave the loop.
Decide ==
  /\ pc = "decide"
  /\ pc' = IF timers > 0 \/ pending_workers > 0 THEN "wait" ELSE "code"
  /\ UNCHANGED <<task, thread, queue, resolved, signalled, ready, timers, calls>>

\* Mutant of Park: the predicate was tested before the lock was taken.
ParkUnchecked ==
  /\ pc = "wait" /\ timers = 0 /\ ~Locked
  /\ pc' = "parked" /\ signalled' = FALSE
  /\ UNCHANGED <<task, thread, queue, resolved, ready, timers, calls>>

\* wait_for_next_timer with workers only: under the lock, wait if nothing has been
\* published.
Park ==
  /\ pc = "wait" /\ timers = 0 /\ ~Locked
  /\ pc' = IF completions = {} /\ pending_workers > 0 THEN "parked" ELSE "poll"
  /\ signalled' = FALSE
  /\ UNCHANGED <<task, thread, queue, resolved, ready, timers, calls>>

\* The wait ends: tested again.
Unpark ==
  /\ pc = "parked" /\ ~Locked
  /\ pc' = IF completions = {} /\ pending_workers > 0 THEN "parked" ELSE "poll"
  /\ signalled' = FALSE
  /\ UNCHANGED <<task, thread, queue, resolved, ready, timers, calls>>
Wake     == signalled /\ Unpark
Spurious == ~signalled /\ Unpark

\* With a timer: already due, or a sleep without workers, or a wait with a deadline.
ParkTimed ==
  /\ pc = "wait" /\ timers > 0
  /\ \/ pc' = "poll"
     \/ pending_workers > 0 /\ completions = {} /\ ~Locked /\ pc' = "timed"
  /\ signalled' = FALSE
  /\ UNCHANGED <<task, thread, queue, resolved, ready, timers, calls>>
UnparkTimed ==
  /\ pc = "timed" /\ ~Locked
  /\ pc' = "poll" /\ signalled' = FALSE
  /\ UNCHANGED <<task, thread, queue, resolved, ready, timers, calls>>

\* poll_timers: any of the timers may be due, or none yet.
PollNone ==
  /\ pc = "poll" /\ pc' = "loop"
  /\ UNCHANGED <<task, thread, queue, resolved, signalled, ready, timers, calls>>
PollFires ==
  /\ pc = "poll" /\ pc' = "loop"
  /\ \E due \in 1 .. timers :
       /\ timers' = timers - due
       /\ ready' \in ready .. ready + due
  /\ UNCHANGED <<task, thread, queue, resolved, signalled, calls>>

-----------------------------------------------------------------------------
(* vm_destroy.                                                              *)

\* The host destroys an idle VM, with whatever is still pending.
Destroy ==
  /\ pc = "idle" /\ pc' = "dying"
  /\ UNCHANGED <<task, thread, queue, resolved, signalled, ready, timers, calls>>

\* Mutant of DestroyTest: an empty mailbox is taken for the end.
DestroyTestMailbox ==
  /\ pc = "dying" /\ ~Locked
  /\ pc' = IF completions = {} THEN "sweep" ELSE "discard"
  /\ UNCHANGED <<task, thread, queue, resolved, signalled, ready, timers, calls>>

\* vm_destroy reads the counter under the lock.
DestroyTest ==
  /\ pc = "dying" /\ ~Locked
  /\ pc' = IF pending_workers = 0 THEN "sweep" ELSE "discard"
  /\ UNCHANGED <<task, thread, queue, resolved, signalled, ready, timers, calls>>

-----------------------------------------------------------------------------
(* Worker threads.                                                          *)

\* Mutant of Publish: no APEX_COND_SIGNAL.
PublishUnsignalled(t) ==
  /\ thread[t] = "works" /\ ~Locked
  /\ mutex' = t /\ completions' = completions \cup {t}
  /\ thread' = [thread EXCEPT ![t] = "publishes"]
  /\ UNCHANGED <<pc, task, pending_workers, batch, drained, resolved, signalled, ready, timers,
                 calls>>

\* vm_push_completion under the lock: publish, then signal.
Publish(t) ==
  /\ thread[t] = "works" /\ ~Locked
  /\ mutex' = t /\ completions' = completions \cup {t}
  /\ thread' = [thread EXCEPT ![t] = "publishes"]
  /\ signalled' = (signalled \/ pc \in {"parked", "timed"})
  /\ UNCHANGED <<pc, task, pending_workers, batch, drained, resolved, ready, timers, calls>>

\* The last thing a worker does with the VM.
Unlock(t) ==
  /\ thread[t] = "publishes"
  /\ mutex' = None
  /\ thread' = [thread EXCEPT ![t] = "gone"]
  /\ UNCHANGED <<pc, task, completions, pending_workers, batch, drained, resolved, signalled,
                 ready, timers, calls>>

Freed == pc = "freed" /\ UNCHANGED vars

Code    == NewRun \/ EndRun \/ AsyncCall \/ Sleep \/ (\E t \in Task : Reserve(t))
           \/ Started \/ StartFails \/ EnterLoop
Loop    == Slice \/ DrainTake \/ (\E t \in Task : Resolve(t)) \/ Release \/ Decide
           \/ Park \/ Wake \/ Spurious \/ ParkTimed \/ UnparkTimed \/ PollNone \/ PollFires
Worker(t) == Publish(t) \/ Unlock(t)

Next == Code \/ Loop \/ Destroy \/ DestroyTest \/ (\E t \in Task : Worker(t)) \/ Freed

Spec == Init /\ [][Next]_vars

\* Blocking functions return, slices end, the VM thread does not stop in a loop, a
\* signalled wait ends, and the clock reaches every deadline. Nobody has to start a
\* run, destroy the VM, or be woken without a signal.
Fairness ==
  /\ \A t \in Task : WF_vars(Worker(t))
  /\ WF_vars(EnterLoop \/ EndRun)
  /\ WF_vars(Started \/ StartFails)
  /\ WF_vars(Slice \/ DrainTake \/ (\E t \in Task : Resolve(t)) \/ Release \/ Decide)
  /\ WF_vars(Park \/ Wake \/ ParkTimed \/ UnparkTimed)
  /\ WF_vars(PollNone) /\ SF_vars(PollFires)
  /\ WF_vars(DestroyTest)

LiveSpec == Spec /\ Fairness

-----------------------------------------------------------------------------
(* Properties.                                                              *)

\* What os_spawn_worker started and no drain has accounted for.
Outstanding ==
  {t \in Task : thread[t] = "works"} \cup completions \cup batch \cup drained
  \cup ({task} \ {None})

\* pending_workers counts every task between its reservation and the release of its
\* slot, whatever the threads do (os_spawn_worker, vm_drain_completions). The clamp in
\* the drain never acts.
PendingIsExact == pending_workers = Cardinality(Outstanding)

\* No thread touches a VM that vm_destroy has freed: not its mailbox, and not the mutex
\* it may still have to unlock.
NoThreadOutlivesVM ==
  pc = "freed" => \A t \in Task : thread[t] \in {"none", "gone"}

\* A VM thread waiting without a deadline has been signalled, or a worker is still to
\* publish and signal (wait_for_next_timer: tested under the lock).
NoLostWakeup ==
  pc = "parked" /\ ~signalled =>
    completions = {} /\ \E t \in Task : thread[t] = "works"

\* A completion is in one place, and is never resolved twice.
DeliveredOnce ==
  /\ completions \cap batch = {} /\ completions \cap resolved = {} /\ batch \cap resolved = {}
  /\ drained \subseteq resolved
  /\ \A t \in Task : thread[t] = "works" => t \notin completions \cup batch \cup resolved

\* A future handed to a worker is resolved, unless its run ends first.
EveryTaskResolves ==
  \A t \in Task : (thread[t] = "works") ~> (t \in resolved \/ pc = "idle")

\* vm_destroy returns once the workers do.
DestroyReturns == (pc = "dying") ~> (pc = "freed")
=============================================================================
