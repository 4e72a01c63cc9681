----------------------------- MODULE CallContexts -----------------------------
(***************************************************************************)
(* Function calls of several contexts on the one call_stack of the VM      *)
(* (core/vm.c). The top level and every coroutine have registers of their  *)
(* own, but they all push into vm->call_stack: entering a context swaps    *)
(* call_depth and nothing else. A coroutine that suspends, or opens a      *)
(* nested scheduler loop, inside a function leaves frames there that the   *)
(* next context overwrites.                                                *)
(*                                                                         *)
(* The history variable chain records the frames each context pushed.      *)
(***************************************************************************)
EXTENDS Naturals, Sequences

CONSTANTS Coroutine, Null,
          Site,        \* call sites
          MaxDepth,    \* VM_MAX_CALL_FRAMES - 1
          MaxLoops,    \* bound on nested scheduler loops
          MaxRuns,     \* bound on the scripts run on this VM
          DeepSwitch   \* whether code inside a function gives up the VM thread

ASSUME DepthAssumption == MaxDepth \in Nat \ {0} /\ MaxRuns \in Nat
ASSUME NullAssumption == Null \notin Coroutine \cup Site
ASSUME SwitchAssumption == DeepSwitch \in BOOLEAN

VARIABLES
  call_stack,  \* the shared array of frames
  call_depth,
  current,     \* the executing context: a coroutine, or Null for the top level
  ctl,         \* "code", "loop" (in a scheduler loop) or "idle"
  loops,       \* saved contexts of the active scheduler loops, innermost last
  saved_depth, \* saved_depth[c]: saved_call_depth of coroutine c
  status,      \* status[c]: "new", "ready", "runs", "waits" or "over"
  run,
  chain        \* history: chain[c], the frames context c pushed and has not popped

vars == <<call_stack, call_depth, current, ctl, loops, saved_depth, status, run, chain>>

Context == Coroutine \cup {Null}
Frame   == [site : Site, of : Context]
NoFrame == [site |-> Null, of |-> Null]

TypeOK ==
  /\ call_stack \in [0 .. MaxDepth - 1 -> Frame \cup {NoFrame}]
  /\ call_depth \in 0 .. MaxDepth
  /\ current \in Context
  /\ ctl \in {"code", "loop", "idle"}
  /\ loops \in Seq([of : Context, depth : 0 .. MaxDepth])
  /\ saved_depth \in [Coroutine -> 0 .. MaxDepth]
  /\ status \in [Coroutine -> {"new", "ready", "runs", "waits", "over"}]
  /\ run \in 0 .. MaxRuns
  /\ chain \in [Context -> Seq(Frame)]

Init ==
  /\ call_stack = [i \in 0 .. MaxDepth - 1 |-> NoFrame]
  /\ call_depth = 0 /\ current = Null /\ ctl = "idle" /\ loops = <<>>
  /\ saved_depth = [c \in Coroutine |-> 0]
  /\ status = [c \in Coroutine |-> "new"]
  /\ run = 0
  /\ chain = [c \in Context |-> <<>>]

Top == loops[Len(loops)]

\* Code may give up the VM thread at depth 0, where the parser allows await, and
\* inside a function if DeepSwitch.
MaySwitch == call_depth = 0 \/ DeepSwitch

\* vm_context_capture and vm_context_restore after a slice that stopped at depth d.
SliceEnd(d) ==
  /\ saved_depth' = [saved_depth EXCEPT ![current] = d]
  /\ ctl' = "loop"
  /\ call_depth' = Top.depth
  /\ current' = Top.of

\* Mutant of Call: no overflow check.
CallUnchecked(s) ==
  /\ ctl = "code" /\ call_depth \in DOMAIN call_stack \cup {MaxDepth}
  /\ LET frame == [site |-> s, of |-> current]
     IN  /\ call_stack' = [call_stack EXCEPT ![call_depth] = frame]
         /\ chain' = [chain EXCEPT ![current] = Append(@, frame)]
  /\ call_depth' = call_depth + 1
  /\ UNCHANGED <<current, ctl, loops, saved_depth, status, run>>

\* Mutant of Call: call_depth is incremented before the frame is written.
CallPushesFirst(s) ==
  /\ ctl = "code" /\ call_depth < MaxDepth
  /\ LET frame == [site |-> s, of |-> current]
     IN  /\ call_stack' = [call_stack EXCEPT ![call_depth + 1] = frame]
         /\ chain' = [chain EXCEPT ![current] = Append(@, frame)]
  /\ call_depth' = call_depth + 1
  /\ UNCHANGED <<current, ctl, loops, saved_depth, status, run>>

\* OP_CALL and its variants.
Call(s) ==
  /\ ctl = "code" /\ call_depth < MaxDepth
  /\ LET frame == [site |-> s, of |-> current]
     IN  /\ call_stack' = [call_stack EXCEPT ![call_depth] = frame]
         /\ chain' = [chain EXCEPT ![current] = Append(@, frame)]
  /\ call_depth' = call_depth + 1
  /\ UNCHANGED <<current, ctl, loops, saved_depth, status, run>>

\* Mutant of Return: the frame pointer is read before it is decremented.
ReturnKeepsFrame ==
  /\ ctl = "code" /\ call_depth > 0
  /\ chain' = [chain EXCEPT ![current] = SubSeq(@, 1, Len(@) - 1)]
  /\ UNCHANGED <<call_stack, call_depth, current, ctl, loops, saved_depth, status, run>>

\* OP_RETURN inside a function: execution goes on at call_stack[call_depth - 1].
Return ==
  /\ ctl = "code" /\ call_depth > 0
  /\ call_depth' = call_depth - 1
  /\ chain' = [chain EXCEPT ![current] = SubSeq(@, 1, Len(@) - 1)]
  /\ UNCHANGED <<call_stack, current, ctl, loops, saved_depth, status, run>>

\* OP_RETURN of a coroutine body.
Finish ==
  /\ ctl = "code" /\ call_depth = 0 /\ current # Null
  /\ status' = [status EXCEPT ![current] = "over"]
  /\ SliceEnd(0)
  /\ UNCHANGED <<call_stack, loops, run, chain>>

\* OP_AWAIT on a pending future inside a coroutine.
Suspend ==
  /\ ctl = "code" /\ current # Null /\ MaySwitch
  /\ status' = [status EXCEPT ![current] = "waits"]
  /\ SliceEnd(call_depth)
  /\ UNCHANGED <<call_stack, loops, run, chain>>

\* os.exit, a runtime error, or the end of the main function: the slice ends where
\* it stands. At the top level the run ends, and call_depth keeps its value.
Stop ==
  /\ ctl = "code"
  /\ IF current = Null
     THEN ctl' = "idle" /\ UNCHANGED <<call_depth, current, saved_depth, status>>
     ELSE SliceEnd(call_depth) /\ status' = [status EXCEPT ![current] = "over"]
  /\ UNCHANGED <<call_stack, loops, run, chain>>

\* OP_ASYNC_CALL: a coroutine starts at depth 0.
Start(c) ==
  /\ ctl = "code" /\ status[c] = "new"
  /\ status' = [status EXCEPT ![c] = "ready"]
  /\ UNCHANGED <<call_stack, call_depth, current, ctl, loops, saved_depth, run, chain>>

\* Top-level await, OP_HALT and apex_call_function: vm_context_save.
OpenLoop ==
  /\ ctl = "code" /\ MaySwitch /\ Len(loops) < MaxLoops
  /\ loops' = Append(loops, [of |-> current, depth |-> call_depth])
  /\ ctl' = "loop"
  /\ UNCHANGED <<call_stack, call_depth, current, saved_depth, status, run, chain>>

\* What a suspended coroutine waits for arrives.
Wake(c) ==
  /\ ctl = "loop" /\ status[c] = "waits"
  /\ status' = [status EXCEPT ![c] = "ready"]
  /\ UNCHANGED <<call_stack, call_depth, current, ctl, loops, saved_depth, run, chain>>

\* vm_context_enter: the coroutine's own depth, the shared frames.
Resume(c) ==
  /\ ctl = "loop" /\ status[c] = "ready"
  /\ current' = c /\ call_depth' = saved_depth[c]
  /\ ctl' = "code"
  /\ status' = [status EXCEPT ![c] = "runs"]
  /\ UNCHANGED <<call_stack, loops, saved_depth, run, chain>>

\* The loop ends: vm_context_restore, and the code that opened it goes on.
CloseLoop ==
  /\ ctl = "loop"
  /\ current' = Top.of /\ call_depth' = Top.depth
  /\ loops' = SubSeq(loops, 1, Len(loops) - 1)
  /\ ctl' = "code"
  /\ UNCHANGED <<call_stack, saved_depth, status, run, chain>>

\* apex_run_string on the VM: vm_execute starts the main function at the depth
\* the last run left.
NewRun ==
  /\ ctl = "idle" /\ run < MaxRuns
  /\ run' = run + 1
  /\ ctl' = "code"
  /\ chain' = [chain EXCEPT ![Null] = <<>>]
  /\ UNCHANGED <<call_stack, call_depth, current, loops, saved_depth, status>>

Over == ctl = "idle" /\ run = MaxRuns /\ UNCHANGED vars

Next ==
  \/ \E s \in Site : Call(s)
  \/ Return \/ Finish \/ Suspend \/ Stop
  \/ \E c \in Coroutine : Start(c) \/ Wake(c) \/ Resume(c)
  \/ OpenLoop \/ CloseLoop \/ NewRun \/ Over

Spec == Init /\ [][Next]_vars

-----------------------------------------------------------------------------
(* Properties.                                                              *)

\* The depth of the executing context is the number of calls it has pending,
\* however slices, nested loops and runs interleave (the saves of call_depth in
\* vm_context_save, vm_context_enter and vm_context_capture).
DepthIsCallsPending == ctl = "code" => call_depth = Len(chain[current])

\* A context that gave up the VM thread holds no frames, so the frames of the one
\* that runs now overwrite nothing it still needs (OP_AWAIT, vm_context_save).
SwitchedAtZero ==
  /\ \A c \in Coroutine : status[c] \in {"new", "ready", "waits"} =>
       saved_depth[c] = 0 /\ chain[c] = <<>>
  /\ \A i \in DOMAIN loops : loops[i].depth = 0 /\ chain[loops[i].of] = <<>>

\* The scheduler loops of vm_drive_until nest: the top level opened the outermost,
\* no context has two, and a context that stands in a loop is neither queued nor
\* executing (prev_task in vm_drive_until).
LoopsNest ==
  /\ ctl = "idle" => loops = <<>> /\ current = Null
  /\ ctl = "loop" => loops # <<>> /\ current = Top.of
  /\ loops # <<>> => loops[1].of = Null
  /\ \A i \in DOMAIN loops :
       /\ loops[i].of \in Coroutine => status[loops[i].of] = "runs"
       /\ ctl = "code" => loops[i].of # current
       /\ \A j \in DOMAIN loops : loops[i].of = loops[j].of => i = j
  /\ ctl = "code" /\ current # Null => status[current] = "runs" /\ loops # <<>>

\* Every frame below the depth of the executing context is the one it pushed, so
\* OP_RETURN continues at its own call site with its own registers.
ReturnsToCaller ==
  ctl = "code" =>
    \A i \in 1 .. Len(chain[current]) : call_stack[i - 1] = chain[current][i]
=============================================================================
