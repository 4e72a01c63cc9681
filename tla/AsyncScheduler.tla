---------------------------- MODULE AsyncScheduler ----------------------------
(***************************************************************************)
(* The async runtime of the Apex VM (source/core/vm.c): futures, the ready *)
(* queue, timers, background workers, the loops that drive them            *)
(* (vm_drive_until and the drain of OP_HALT), os.exit, runtime errors,     *)
(* callbacks from ui.run, repeated runs on one VM and vm_destroy.          *)
(*                                                                         *)
(* One VM thread executes bytecode; worker threads only push completions.  *)
(* The bytecode of a script is abstracted to the instructions that touch   *)
(* this state, chosen freely: any script is one resolution of the choices. *)
(***************************************************************************)
EXTENDS Naturals, FiniteSets, SequencesExt

CONSTANTS Future,      \* the FutureObjects a program may allocate
          Null,        \* NULL; as current_task it means top-level code
          Value, None, \* values scripts return, and Apex's none
          MaxDrives,   \* bound on nested scheduler loops
          MaxRuns      \* bound on the scripts run on this VM

ASSUME FutureAssumption == Null \notin Future /\ IsFiniteSet(Future)
ASSUME ValueAssumption == None \notin Value /\ Null \notin Value \cup {None}
ASSUME BoundAssumption == MaxDrives \in Nat /\ MaxRuns \in Nat

VARIABLES
  kind,       \* kind[f]: "free" (not allocated), "body" (func_idx >= 0), "leaf"
  state,      \* state[f]: 0 pending, 1 resolved
  result,     \* result[f]: the value it resolved with
  waiters,    \* waiters[f]: coroutines registered on f, in order
  awaiting,   \* awaiting[f]: the future coroutine f is suspended on, or Null
  dest,       \* dest[f]: saved_dest_reg >= 0
  reg,        \* reg[c]: the register the last await of context c writes
  born,       \* born[f]: the run whose chunk f's func_idx and saved_ip index
  ready,      \* the ready queue
  timers,     \* the timer list, newest first
  workers,    \* futures whose worker thread has not posted its result
  completions,\* the completion list, newest first
  pending_workers,
  batch,      \* the list vm_drain_completions detached, still to resolve
  drained,    \* entries of that list already resolved
  cursor,     \* position of poll_timers in the timer list
  current_task,
  ctl,        \* what the VM thread is doing, see Control
  drives,     \* active scheduler loops, innermost last
  had_error, exit_requested,
  run,        \* number of the current run
  asked       \* history: asked[c] is the future of c's last await

heap    == <<kind, state, result, waiters, awaiting, dest, reg, born, asked>>
posted  == <<workers, completions, pending_workers>>
wakeup  == <<batch, drained, cursor>>
flags   == <<had_error, exit_requested, run>>
control == <<current_task, ctl, drives>>
vars    == <<heap, ready, timers, posted, wakeup, control, flags>>

(***************************************************************************)
(* code     bytecode of current_task (or of the top level) is running      *)
(* builtin  inside ui.run, between two callbacks                           *)
(* head     at the outer loop test of the innermost scheduler loop         *)
(* ready    at the inner loop test, after a slice                          *)
(* wake     vm_drain_completions, resolving the futures of batch            *)
(* poll     poll_timers, walking the timer list                            *)
(* idle     no script is running; destroy and dead: vm_destroy             *)
(***************************************************************************)
Control == {"code", "builtin", "head", "ready", "wake", "poll",
            "idle", "destroy", "dead"}
Result  == Value \cup {None}
Context == Future \cup {Null}
Drive   == [why : {"await", "call"}, target : Future, task : Context]
      \cup [why : {"halt"}, target : {Null}, task : Context]
Entry   == [fut : Future, val : Result]

TypeOK ==
  /\ kind \in [Future -> {"free", "body", "leaf"}]
  /\ state \in [Future -> {0, 1}]
  /\ result \in [Future -> Result]
  /\ waiters \in [Future -> Seq(Future)]
  /\ awaiting \in [Future -> Context]
  /\ dest \in [Future -> BOOLEAN]
  /\ reg \in [Context -> Result]
  /\ asked \in [Context -> Context]
  /\ born \in [Future -> 0 .. MaxRuns]
  /\ ready \in Seq(Future)
  /\ timers \in Seq(Future)
  /\ workers \in SUBSET Future
  /\ completions \in Seq(Entry)
  /\ pending_workers \in Nat
  /\ batch \in Seq(Entry)
  /\ drained \in Nat
  /\ cursor \in Nat
  /\ current_task \in Context
  /\ ctl \in Control
  /\ drives \in Seq(Drive)
  /\ had_error \in BOOLEAN /\ exit_requested \in BOOLEAN
  /\ run \in 0 .. MaxRuns

\* vm_create: an idle VM with nothing allocated.
Init ==
  /\ kind = [f \in Future |-> "free"]
  /\ state = [f \in Future |-> 0]
  /\ result = [f \in Future |-> None]
  /\ waiters = [f \in Future |-> <<>>]
  /\ awaiting = [f \in Future |-> Null]
  /\ dest = [f \in Future |-> FALSE]
  /\ reg = [c \in Context |-> None]
  /\ asked = [c \in Context |-> Null]
  /\ born = [f \in Future |-> 0]
  /\ ready = <<>> /\ timers = <<>>
  /\ workers = {} /\ completions = <<>> /\ pending_workers = 0
  /\ batch = <<>> /\ drained = 0 /\ cursor = 0
  /\ current_task = Null /\ ctl = "idle" /\ drives = <<>>
  /\ had_error = FALSE /\ exit_requested = FALSE /\ run = 0

Top == drives[Len(drives)]

-----------------------------------------------------------------------------
(* Running bytecode.                                                        *)

\* The slice ends: vm_execute returns to the loop that started it, or, for the
\* top level, to the host.
EndSlice ==
  /\ ctl' = IF current_task = Null THEN "idle" ELSE "ready"
  /\ current_task' = Null

\* future_resolve. Waiters get the value in their own registers and are queued
\* in the order they registered.
Resolve(f, v) ==
  IF state[f] # 0
  THEN UNCHANGED <<state, result, waiters, awaiting, dest, reg, ready>>
  ELSE LET woken == Range(waiters[f])
       IN  /\ state' = [state EXCEPT ![f] = 1]
           /\ result' = [result EXCEPT ![f] = v]
           /\ reg' = [c \in Context |->
                        IF c \in woken /\ dest[c] THEN v ELSE reg[c]]
           /\ dest' = [w \in Future |->
                         IF w \in woken THEN FALSE ELSE dest[w]]
           /\ awaiting' = [w \in Future |->
                             IF w \in woken THEN Null ELSE awaiting[w]]
           /\ ready' = ready \o waiters[f]
           /\ waiters' = [waiters EXCEPT ![f] = <<>>]

\* Mutant of NewBody: a failed start leaves NULL as the result.
NewBodyUnset(f) ==
  /\ kind[f] = "free"
  /\ kind' = [kind EXCEPT ![f] = "body"]
  /\ born' = [born EXCEPT ![f] = run]
  /\ state' = [state EXCEPT ![f] = 1]
  /\ result' = [result EXCEPT ![f] = Null]
  /\ UNCHANGED <<ready, had_error>>

\* A new FutureObject with a body, and future_start on it: the coroutine is
\* queued, or, when its pool cannot be allocated, resolved with none.
NewBody(f) ==
  /\ kind[f] = "free"
  /\ kind' = [kind EXCEPT ![f] = "body"]
  /\ born' = [born EXCEPT ![f] = run]
  /\ \/ /\ ready' = Append(ready, f)
        /\ UNCHANGED <<state, result, had_error>>
     \/ /\ had_error' = TRUE
        /\ state' = [state EXCEPT ![f] = 1]
        /\ result' = [result EXCEPT ![f] = None]
        /\ UNCHANGED ready

\* OP_ASYNC_CALL: the body is queued eagerly, the caller goes on.
AsyncCall(f) ==
  /\ ctl = "code"
  /\ NewBody(f)
  /\ UNCHANGED <<waiters, awaiting, dest, reg, asked, timers, posted, wakeup,
                 control, exit_requested, run>>

\* What OP_CALL_BUILTIN and OP_ASYNC_CALL_BUILTIN do after any builtin.
AfterBuiltin(exiting) ==
  IF exiting THEN EndSlice ELSE UNCHANGED <<current_task, ctl>>

NewLeaf(f) ==
  /\ kind[f] = "free"
  /\ kind' = [kind EXCEPT ![f] = "leaf"]
  /\ born' = [born EXCEPT ![f] = run]

\* OP_ASYNC_CALL_BUILTIN on os.wait: a leaf future and a timer at the list head.
AsyncWait(f) ==
  /\ ctl = "code"
  /\ NewLeaf(f)
  /\ timers' = <<f>> \o timers
  /\ AfterBuiltin(exit_requested)
  /\ UNCHANGED <<state, result, waiters, awaiting, dest, reg, asked, ready,
                 posted, wakeup, drives, flags>>

\* OP_ASYNC_CALL_BUILTIN on a blocking builtin: a worker slot is reserved, then
\* the thread starts or, when it cannot, the VM thread posts none itself.
AsyncWork(f) ==
  /\ ctl = "code"
  /\ NewLeaf(f)
  /\ pending_workers' = pending_workers + 1
  /\ \/ workers' = workers \cup {f} /\ UNCHANGED completions
     \/ /\ completions' = <<[fut |-> f, val |-> None]>> \o completions
        /\ UNCHANGED workers
  /\ AfterBuiltin(exit_requested)
  /\ UNCHANGED <<state, result, waiters, awaiting, dest, reg, asked, ready,
                 timers, wakeup, drives, flags>>

\* os.exit; also any builtin called once exit_requested is set.
Exit ==
  /\ ctl = "code"
  /\ exit_requested' = TRUE
  /\ EndSlice
  /\ UNCHANGED <<heap, ready, timers, posted, wakeup, drives, had_error, run>>

\* An instruction that raises a runtime error.
RuntimeError ==
  /\ ctl = "code"
  /\ had_error' = TRUE
  /\ EndSlice
  /\ UNCHANGED <<heap, ready, timers, posted, wakeup, drives, exit_requested, run>>

\* Any allocated future may be in a register or a global of the code that runs:
\* apex_run_string clears the globals, but a coroutine left over from an earlier
\* run keeps its registers and may store them there.
Held(f) == kind[f] # "free"

\* Mutant of AwaitResolved: the value is moved out of the future, not copied.
AwaitMoves(f) ==
  /\ ctl = "code" /\ Held(f) /\ state[f] = 1
  /\ reg' = [reg EXCEPT ![current_task] = result[f]]
  /\ asked' = [asked EXCEPT ![current_task] = f]
  /\ result' = [result EXCEPT ![f] = None]
  /\ UNCHANGED <<kind, state, waiters, awaiting, dest, born, ready,
                 timers, posted, wakeup, control, flags>>

\* OP_AWAIT on a resolved future.
AwaitResolved(f) ==
  /\ ctl = "code" /\ Held(f) /\ state[f] = 1
  /\ reg' = [reg EXCEPT ![current_task] = result[f]]
  /\ asked' = [asked EXCEPT ![current_task] = f]
  /\ UNCHANGED <<kind, state, result, waiters, awaiting, dest, born, ready,
                 timers, posted, wakeup, control, flags>>

\* Mutant of AwaitSuspend: no back-reference to the awaited future.
AwaitUnlinked(f) ==
  /\ ctl = "code" /\ Held(f) /\ state[f] = 0
  /\ current_task # Null
  /\ waiters' = [waiters EXCEPT ![f] = Append(@, current_task)]
  /\ dest' = [dest EXCEPT ![current_task] = TRUE]
  /\ asked' = [asked EXCEPT ![current_task] = f]
  /\ EndSlice
  /\ UNCHANGED <<kind, state, result, awaiting, reg, born, ready, timers, posted,
                 wakeup, drives, flags>>

\* OP_AWAIT on a pending future inside a coroutine: suspend.
AwaitSuspend(f) ==
  /\ ctl = "code" /\ Held(f) /\ state[f] = 0
  /\ current_task # Null
  /\ waiters' = [waiters EXCEPT ![f] = Append(@, current_task)]
  /\ awaiting' = [awaiting EXCEPT ![current_task] = f]
  /\ dest' = [dest EXCEPT ![current_task] = TRUE]
  /\ asked' = [asked EXCEPT ![current_task] = f]
  /\ EndSlice
  /\ UNCHANGED <<kind, state, result, reg, born, ready, timers, posted, wakeup,
                 drives, flags>>

\* Mutant of Enter: the interrupted context is not saved.
EnterUnsaved(why, target) ==
  /\ drives' = Append(drives, [why |-> why, target |-> target, task |-> Null])
  /\ ctl' = "head"
  /\ current_task' = Null

\* Entering a scheduler loop.
Enter(why, target) ==
  /\ drives' = Append(drives,
                      [why |-> why, target |-> target, task |-> current_task])
  /\ ctl' = "head"
  /\ current_task' = Null

\* OP_AWAIT on a pending future at the top level: vm_drive_until.
AwaitDrive(f) ==
  /\ ctl = "code" /\ Held(f) /\ state[f] = 0
  /\ current_task = Null /\ Len(drives) < MaxDrives
  /\ asked' = [asked EXCEPT ![Null] = f]
  /\ Enter("await", f)
  /\ UNCHANGED <<kind, state, result, waiters, awaiting, dest, reg, born, ready,
                 timers, posted, wakeup, flags>>

\* OP_RETURN at call depth 0 of a coroutine.
Return(v) ==
  /\ ctl = "code" /\ current_task # Null
  /\ Resolve(current_task, v)
  /\ EndSlice
  /\ UNCHANGED <<kind, born, asked, timers, posted, wakeup, drives, flags>>

\* ui.run delivers an event: apex_call_function runs the handler as a coroutine
\* of its own under a nested vm_drive_until.
CallFunction(f) ==
  /\ ctl \in {"code", "builtin"} /\ Len(drives) < MaxDrives
  /\ NewBody(f)
  /\ Enter("call", f)
  /\ UNCHANGED <<waiters, awaiting, dest, reg, asked, timers, posted, wakeup,
                 exit_requested, run>>

\* ui.run returns to the bytecode that called it.
EndBuiltin ==
  /\ ctl = "builtin"
  /\ IF exit_requested
     THEN EndSlice
     ELSE ctl' = "code" /\ UNCHANGED current_task
  /\ UNCHANGED <<heap, ready, timers, posted, wakeup, drives, flags>>

\* OP_HALT at the top level: drain the scheduler unless an error or os.exit
\* stopped the script.
Halt ==
  /\ ctl = "code" /\ current_task = Null /\ Len(drives) < MaxDrives
  /\ IF had_error \/ exit_requested
     THEN EndSlice /\ UNCHANGED drives
     ELSE Enter("halt", Null)
  /\ UNCHANGED <<heap, ready, timers, posted, wakeup, flags>>

-----------------------------------------------------------------------------
(* The scheduler loops. vm_drive_until and the drain of OP_HALT share their *)
(* body; they differ in the test of the outer loop. Neither tests           *)
(* exit_requested.                                                          *)

Looping == ctl \in {"head", "ready"} /\ drives # <<>>

\* The target of the innermost loop is resolved; a halt loop has none.
TargetResolved == Top.why # "halt" /\ state[Top.target] = 1

\* Mutant of Quiet: timers do not keep a loop alive.
QuietWithTimers == ready = <<>> /\ pending_workers = 0

\* Nothing can become runnable any more.
Quiet == ready = <<>> /\ timers = <<>> /\ pending_workers = 0

\* The loop ends. An await loop is the top level's; the register gets none when
\* the target is still pending.
LoopExit ==
  /\ Looping
  /\ \/ had_error
     \/ TargetResolved /\ (ctl = "head" \/ ready = <<>>)
     \/ Quiet /\ (Top.why = "halt" \/ completions = <<>>)
  /\ drives' = Front(drives)
  /\ current_task' = Top.task
  /\ ctl' = CASE Top.why = "await" -> "code"
              [] Top.why = "call"  -> "builtin"
              [] OTHER             -> "idle"
  /\ reg' = IF Top.why = "await"
            THEN [reg EXCEPT ![Null] = IF TargetResolved
                                       THEN result[Top.target] ELSE None]
            ELSE reg
  /\ UNCHANGED <<kind, state, result, waiters, awaiting, dest, born, asked, ready,
                 timers, posted, wakeup, flags>>

\* Mutant of RunTask: the coroutine stays queued while it runs.
RunTaskUnpopped ==
  /\ Looping /\ ~had_error
  /\ ready # <<>>
  /\ ctl = "head" => ~TargetResolved
  /\ current_task' = Head(ready)
  /\ ctl' = "code"
  /\ UNCHANGED <<heap, ready, timers, posted, wakeup, drives, flags>>

\* scheduler_pop and vm_context_enter: the oldest ready coroutine gets a slice.
RunTask ==
  /\ Looping /\ ~had_error
  /\ ready # <<>>
  /\ ctl = "head" => ~TargetResolved
  /\ current_task' = Head(ready)
  /\ ready' = Tail(ready)
  /\ ctl' = "code"
  /\ UNCHANGED <<heap, timers, posted, wakeup, drives, flags>>

\* Nothing is ready and the loop goes on: its idle half.
Idling == Looping /\ ~had_error /\ ready = <<>> /\ ~TargetResolved

\* vm_drain_completions detaches the list; the loops and vm_destroy call it.
Drain ==
  /\ Idling \/ ctl = "destroy"
  /\ completions # <<>>
  /\ batch' = completions
  /\ completions' = <<>>
  /\ ctl' = "wake"
  /\ UNCHANGED <<heap, ready, timers, workers, pending_workers, drained, cursor,
                 current_task, drives, flags>>

\* ... and resolves the detached futures, newest first.
WakeNext ==
  /\ ctl = "wake" /\ batch # <<>>
  /\ Resolve(Head(batch).fut, Head(batch).val)
  /\ batch' = Tail(batch)
  /\ drained' = drained + 1
  /\ UNCHANGED <<kind, born, asked, timers, posted, cursor, control, flags>>

\* ... then gives the worker slots back. The scheduler loops start over.
WakeEnd ==
  /\ ctl = "wake" /\ batch = <<>>
  /\ pending_workers' = IF pending_workers < drained
                        THEN 0 ELSE pending_workers - drained
  /\ drained' = 0
  /\ ctl' = IF drives = <<>> THEN "destroy" ELSE "head"
  /\ UNCHANGED <<heap, ready, timers, workers, completions, batch, cursor,
                 current_task, drives, flags>>

\* wait_for_next_timer has returned and poll_timers starts at the list head. A
\* worker may have posted since the loop saw no completions.
PollStart ==
  /\ Idling /\ timers # <<>>
  /\ ctl' = "poll"
  /\ cursor' = 1
  /\ UNCHANGED <<heap, ready, timers, posted, batch, drained, current_task,
                 drives, flags>>

\* Mutant of PollFire: the timer stays in the list.
PollFireKept ==
  /\ ctl = "poll" /\ cursor \in DOMAIN timers
  /\ Resolve(timers[cursor], None)
  /\ UNCHANGED <<kind, born, asked, timers, posted, wakeup, control, flags>>

\* The timer at the cursor is due: unlink it and resolve its future.
PollFire ==
  /\ ctl = "poll" /\ cursor \in DOMAIN timers
  /\ Resolve(timers[cursor], None)
  /\ timers' = RemoveAt(timers, cursor)
  /\ UNCHANGED <<kind, born, asked, posted, wakeup, control, flags>>

\* The timer at the cursor is not due.
PollSkip ==
  /\ ctl = "poll" /\ cursor \in DOMAIN timers
  /\ cursor' = cursor + 1
  /\ UNCHANGED <<heap, ready, timers, posted, batch, drained, control, flags>>

PollEnd ==
  /\ ctl = "poll" /\ cursor \notin DOMAIN timers
  /\ ctl' = "head"
  /\ cursor' = 0
  /\ UNCHANGED <<heap, ready, timers, posted, batch, drained, current_task,
                 drives, flags>>

-----------------------------------------------------------------------------
(* Workers and the host.                                                    *)

\* A worker thread posts its result with vm_push_completion.
WorkerPost(f, v) ==
  /\ f \in workers
  /\ workers' = workers \ {f}
  /\ completions' = <<[fut |-> f, val |-> v]>> \o completions
  /\ UNCHANGED <<heap, ready, timers, pending_workers, wakeup, control, flags>>

\* The host runs the next script on the VM (apex_run_string).
NewRun ==
  /\ ctl = "idle" /\ run < MaxRuns
  /\ run' = run + 1
  /\ had_error' = FALSE /\ exit_requested' = FALSE
  /\ ctl' = "code"
  /\ UNCHANGED <<heap, ready, timers, posted, wakeup, current_task, drives>>

\* vm_destroy waits for the workers ...
Destroy ==
  /\ ctl = "idle" /\ run > 0
  /\ ctl' = "destroy"
  /\ UNCHANGED <<heap, ready, timers, posted, wakeup, current_task, drives, flags>>

\* ... and then releases timers and queued coroutines and frees the VM.
Free ==
  /\ ctl = "destroy" /\ pending_workers = 0 /\ completions = <<>>
  /\ timers' = <<>> /\ ready' = <<>>
  /\ ctl' = "dead"
  /\ UNCHANGED <<heap, posted, wakeup, current_task, drives, flags>>

Dead == ctl = "dead" /\ UNCHANGED vars

Bytecode ==
  \/ \E f \in Future : \/ AsyncCall(f) \/ AsyncWait(f) \/ AsyncWork(f)
                       \/ AwaitResolved(f) \/ AwaitSuspend(f) \/ AwaitDrive(f)
                       \/ CallFunction(f)
  \/ \E v \in Value : Return(v)
  \/ Exit \/ RuntimeError \/ EndBuiltin \/ Halt

Scheduler ==
  \/ LoopExit \/ RunTask
  \/ Drain \/ WakeNext \/ WakeEnd
  \/ PollStart \/ PollFire \/ PollSkip \/ PollEnd

Next ==
  \/ Bytecode
  \/ Scheduler
  \/ \E f \in Future, v \in Value : WorkerPost(f, v)
  \/ NewRun \/ Destroy \/ Free \/ Dead

Spec == Init /\ [][Next]_vars

-----------------------------------------------------------------------------
(* Fairness. The VM thread keeps running its loops; workers finish; a timer *)
(* the loops keep polling is eventually due; and, the one assumption about  *)
(* scripts, a slice of bytecode ends.                                       *)

Fairness ==
  /\ WF_vars(Scheduler)
  /\ WF_vars(\E v \in Value : Return(v)) /\ WF_vars(Halt) /\ WF_vars(EndBuiltin)
  /\ \A f \in Future :
       /\ WF_vars(\E v \in Value : WorkerPost(f, v))
       /\ SF_vars(PollFire /\ timers[cursor] = f)

LiveSpec == Spec /\ Fairness

-----------------------------------------------------------------------------
(* Properties.                                                              *)

WaitsOn(w, f) == w \in Range(waiters[f])

\* An executing context: it has the VM thread or is below a nested loop.
Executing(f) == current_task = f \/ \E i \in DOMAIN drives : drives[i].task = f

\* It may get the VM thread again without being woken.
Runnable(f) == f \in Range(ready) \/ Executing(f)

Places(f) == {<<"ready", i>> : i \in {j \in DOMAIN ready : ready[j] = f}}
        \cup {<<"below", i>> : i \in {j \in DOMAIN drives : drives[j].task = f}}
        \cup {<<"runs", f>> : c \in {current_task} \cap {f}}
        \cup {<<"waits", awaiting[f]>> : c \in {awaiting[f]} \ {Null}}

Sources(f) == {<<"timer", i>> : i \in {j \in DOMAIN timers : timers[j] = f}}
         \cup {<<"done", i>> : i \in {j \in DOMAIN completions : completions[j].fut = f}}
         \cup {<<"wake", i>> : i \in {j \in DOMAIN batch : batch[j].fut = f}}
         \cup {<<"work", f>> : w \in workers \cap {f}}

\* A coroutine is never in two places at once: queued twice, queued while it
\* waits, or resumed while it already runs below a nested loop (future_resolve,
\* scheduler_push, the loops). A finished one is in none.
NeverInTwoPlaces ==
  \A f \in Future :
    /\ \A p, q \in Places(f) : p = q
    /\ state[f] = 1 => Places(f) = {}

\* No wakeup is lost: until an error or os.exit stops the run, every unfinished
\* coroutine of the run is queued, waiting or executing (future_start,
\* OP_AWAIT, future_resolve).
NoCoroutineLost ==
  \A f \in Future :
    kind[f] = "body" /\ state[f] = 0 /\ born[f] = run /\ ctl # "dead"
      /\ ~had_error /\ ~exit_requested
    => Places(f) # {}

\* awaiting and the waiter lists agree: w's back-reference names the one
\* pending future whose list holds w, so value_decref on either side finds the
\* other (OP_AWAIT, future_resolve, value_decref).
WaitersMatchAwaiting ==
  \A w, f \in Future :
    WaitsOn(w, f) <=> awaiting[w] = f /\ state[f] = 0 /\ dest[w]

\* A coroutine that can run again, or runs, after an await has in its register
\* the value of the very future it awaited, whatever resolved in between.
ResumesWithAwaitedValue ==
  \A c \in Future :
    asked[c] # Null /\ awaiting[c] = Null
    => state[asked[c]] = 1 /\ reg[c] = result[asked[c]]

\* A run that neither failed nor exited leaves no work behind: what is still
\* unfinished waits on something unfinished, a cycle of awaits.
CleanRunLeavesOnlyCycles ==
  ctl = "idle" /\ run = 1 /\ ~had_error /\ ~exit_requested =>
    /\ ready = <<>> /\ timers = <<>> /\ workers = {} /\ completions = <<>>
    /\ \A f \in Future : kind[f] # "free" /\ state[f] = 0 =>
         awaiting[f] # Null /\ state[awaiting[f]] = 0

\* Nothing is forgotten, neither while a run goes on nor when it ends.
NothingForgotten == NoCoroutineLost /\ CleanRunLeavesOnlyCycles

\* A future resolves once and keeps its value (the state test of
\* future_resolve against timers, workers, OP_RETURN and reruns).
ResolvesOnce ==
  [][\A f \in Future : state[f] = 1 => state'[f] = 1 /\ result'[f] = result[f]]_vars

\* The top level's await gives up without an error only when no coroutine,
\* timer or worker is left that could ever resolve its future.
GivesUpOnlyWhenStuck ==
  [][ (/\ drives # <<>> /\ drives' = <<>> /\ drives[1].why = "await"
       /\ state[drives[1].target] = 0 /\ ~had_error)
      => \A f \in Future : kind[f] # "free" /\ state[f] = 0 =>
           Sources(f) = {} /\ (Places(f) = {} \/ awaiting[f] # Null) ]_vars

\* The inductive invariant behind the properties above, in parts.

\* A suspended coroutine is in the list of the pending future it awaits, and in
\* no other list.
AwaitInv ==
  /\ \A w, f \in Future : WaitsOn(w, f) <=> awaiting[w] = f
  /\ \A w \in Future : awaiting[w] # Null =>
       dest[w] /\ asked[w] = awaiting[w] /\ state[awaiting[w]] = 0

\* Only unfinished coroutines are queued, executing or suspended, and an address
\* not yet allocated is in no use.
KindInv ==
  \A c \in Future :
    /\ Runnable(c) => kind[c] = "body" /\ state[c] = 0 /\ awaiting[c] = Null
    /\ awaiting[c] # Null => kind[c] = "body" /\ state[c] = 0
    /\ kind[c] = "free" => state[c] = 0 /\ waiters[c] = <<>>

\* Only leaf futures have a timer or a worker.
LeafInv ==
  /\ \A i \in DOMAIN timers : kind[timers[i]] = "leaf"
  /\ \A i \in DOMAIN batch : kind[batch[i].fut] = "leaf"
  /\ \A i \in DOMAIN completions : kind[completions[i].fut] = "leaf"
  /\ \A f \in workers : kind[f] = "leaf"

\* The queue, the waiter lists and the loops hold each coroutine once.
PlaceInv ==
  /\ IsInjective(ready)
  /\ \A f \in Future : IsInjective(waiters[f])
  /\ \A i \in DOMAIN drives : drives[i].task # Null =>
       /\ drives[i].task \notin Range(ready) \cup {current_task}
       /\ \A j \in DOMAIN drives : drives[j].task = drives[i].task => i = j
  /\ current_task \notin Range(ready)

\* Top-level code runs below every loop: only its await and its halt, and the
\* callbacks it delivers, open the outermost one.
DriveInv ==
  /\ ctl \in {"idle", "destroy", "dead"} => drives = <<>>
  /\ ctl \in {"code", "builtin"} /\ current_task = Null => drives = <<>>
  /\ \A i \in DOMAIN drives :
       drives[i].why # "call" \/ drives[i].task = Null => i = 1

Inv == /\ AwaitInv /\ KindInv /\ LeafInv /\ PlaceInv /\ DriveInv
       /\ ResumesWithAwaitedValue

\* The promise of await (AwaitContract), with the top level blocked while its
\* vm_drive_until is on the stack.
Contract == INSTANCE AwaitContract WITH
  Unset <- Null,
  outcome <- [f \in Future |-> IF state[f] = 1 THEN result[f] ELSE Null],
  blocked <- [c \in Context |->
                IF c # Null THEN awaiting[c]
                ELSE IF drives # <<>> /\ drives[1].why = "await"
                     THEN drives[1].target ELSE Null],
  got <- reg

ImplementsContract == Contract!Spec

\* os.exit "exits the program immediately": no coroutine gets a slice after it.
ExitStopsTheProgram ==
  [][exit_requested => current_task' \in {Null, current_task}]_vars

\* A coroutine that is queued, or suspended on a timer or a worker, gets the VM
\* thread again, unless the run ends in an error or is over (the loops, their
\* waits and the wakeups of future_resolve).
RunnableRuns ==
  \A c \in Future :
    (c \in Range(ready) \/ \E f \in Future : WaitsOn(c, f) /\ kind[f] = "leaf")
      ~> current_task = c \/ had_error \/ ctl \in {"idle", "destroy", "dead"}
=============================================================================
