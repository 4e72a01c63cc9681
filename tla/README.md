# Verification of Apex

TLA+ models of the Apex implementation (`source/`), checked with TLC, and theorems about them
checked with TLAPS. Paths are relative to `src/`; `vm.c` is `source/core/vm.c`.

1. [The system](#1-the-system) – inventory of components
2. [The models](#2-the-models) – which module models what, and how it corresponds to the code
3. [The runs](#3-the-runs) – what is checked, with which bounds
4. [Fairness](#4-fairness)
5. [The proofs](#5-the-proofs)
6. [Where the code and its documentation differ](#6-where-the-code-and-its-documentation-differ)
7. [What is not modelled](#7-what-is-not-modelled)
8. [Plan](#8-plan)

## 1. The system

Apex is a scripting language. A tokenizer, a parser and a code generator with optimisers turn a
script into bytecode; a register VM runs it, with an x86-64 JIT for numeric code. A standard
library, a UI toolkit and a C embedding API sit around the VM.

| Component | State | Operations | What is hard | What makes it correct |
|---|---|---|---|---|
| Async runtime (`vm.c` 1090–1551, 4029–4245) | futures, ready ring, timers, completion list, `pending_workers`, `current_task` | OP_ASYNC_CALL, OP_AWAIT, OP_RETURN, `future_resolve`, `vm_drive_until`, `poll_timers`, `vm_drain_completions`, `vm_destroy` | coroutines and worker threads interleave; loops nest through `ui.run`; exit and errors cut runs short | a coroutine is in one place; it resumes with the value it awaited; nothing runnable is lost; loops stop only when nothing is left |
| Completion mailbox (`vm.c` 1158–1196, 1451–1491, 1699–1715) | mutex, condition variable, list, counter | post, drain, park, destroy | true concurrency with worker threads | no lost wakeup, exact count, no thread outlives the VM |
| Interpreter (`vm.c` 1949–4260) | registers, frames, `call_stack`, iterators | opcodes | one call stack shared by all contexts; several runs on one VM | a return goes to its caller |
| Tables (`vm.c` 583–1060, 3018–3423; `libraries/table`) | array part, hash part, `generation`, inline caches, loop states | get, set, remove, clear, iterate | one map in two representations; pointers kept across mutations | reads find what was written; no stale pointer is used; a loop sees each entry once |
| Memory (`vm.c` 380–700, 1740–1790) | reference counts, tracked tables | incref, decref, cycle sweep | cycles; results that are part of one | nothing reachable is freed |
| Tokenizer and parser (`core/tokenizer.c`, `core/parser.c`) | indentation stack, token cursor, symbol table with scopes and types, depth counters, module cache | one function per construct; an import parses another file | some fifty ways out of a statement in error; counters and flags that must follow the nesting; a file imported again comes from a cache | a program is accepted exactly if it keeps the rules of the language, and the tree is what was written |
| Code generator, optimisers (`compiler/`) | chunk, register pool, value and number caches, jump targets | one function per node; fusion at each emission; passes over the chunk | facts about registers that jumps, loops and later writes make stale; rewrites of code a jump lands in | the chunk does what the script says |
| JIT (`jit/`) | code page, analysis | compile loops and functions | falling back to the interpreter in the middle | as the interpreter |
| Blocking libraries (`libraries/os`, json, csv, xml, zip, base, regex) | worker tasks | builtins | each call may run on a thread | one result for each call |
| UI (`libraries/ui`) | staged and shown tree, widgets, event queue, gesture (pressed, hovered, focused, dragged), menus, dialog | `ui.run`, `ui.render`, `ui.dialog`, pointer and key events, handlers | the tree may be replaced in the middle of a gesture or a batch; events merge; handlers run bytecode under the loop | the screen shows the newest tree; a handler sees the latest value; a click comes from its press |
| Embedding API (`utils/apex_api.c`) | value stack, VM | run, push, pop, call | several runs on one VM | a run starts from a clean state |
| Command line, loader (`utils/`) | import graph | load, compile, build | import cycles | each module once, before its users |

The components meet in the VM. Bytecode asks for work; libraries start threads that post
completions into the mailbox; the scheduler loops on the VM thread drain it and resume coroutines;
`ui.run` calls handlers, which are bytecode again and may open a second scheduler loop under the
first; the embedding host runs chunk after chunk on one VM. All bytecode runs on one thread, so
apart from the mailbox "concurrency" means interleaving at OP_AWAIT and in nested loops.

The hazards found in the code, with their lines and the properties that cover them, are listed in
`PROJECT.json`.

## 2. The models

| Module | Models | Refines / uses |
|---|---|---|
| `AwaitContract` | abstract: what `await` promises, without a scheduler | |
| `AsyncScheduler` | the async runtime on the VM thread | implements `AwaitContract` |
| `CompletionQueue` | the mailbox at the grain of its mutex and condition variable | the same code as AsyncScheduler's `Drain`, `WakeNext`, `WorkerPost`, seen from the threads |
| `CallContexts` | calls of several contexts on the one call stack | the same switches as in AsyncScheduler, with frames instead of futures |
| `AwaitSyntax` | the parser's judgement of `await` | decides which programs AsyncScheduler and CallContexts meet |
| `AwaitEmission` | which builtin calls become asynchronous | decides which calls CompletionQueue meets |
| `Tokenizer` | text to tokens: layout, strings | |
| `Names` | the symbol table, types, constants | |
| `Expressions` | the Pratt parser, interpolations | Tokenizer, Names |
| `Parser` | statements, blocks, imports, recovery from errors | Expressions |
| `Grammar`, `Rules` | abstract: the text of a syntax tree, and the rules a tree must keep, by recursion over it | Names (expressions only) |
| `FrontEnd` | a program from its text to its tree or its refusal | Parser, compared with Rules |
| `Await` | composes AwaitSyntax and AwaitEmission: declarations are parsed, then calls in them are emitted | AwaitSyntax, AwaitEmission |
| `ApexTable` | a table as a map in two parts | |
| `TableIteration` | the hash part with loops and inline caches | the chains behind `ApexTable`'s `hash` |
| `Tables` | puts the two in one specification | ApexTable, TableIteration |
| `Bytecode` | the instructions of one function and the interpreter's loop over them | |
| `Emission` | appending an instruction: fusion, caches, jump targets, the register pool | Bytecode |
| `Codegen` | the code of expressions, statements and a function | Emission |
| `ChunkPasses` | jump threading and compaction of a finished chunk | Bytecode |
| `Meaning` | abstract: what a function of the language does, without code | Bytecode (values only) |
| `NativeAnalysis` | what the JIT finds out about a function before compiling it | Bytecode |
| `NativeCode` | emission of machine code over a register cache, and a machine that runs it | NativeAnalysis |
| `Assembly` | compact code turned into machine code and called in place of the interpreter | ChunkPasses; NativeCode, compared with Bytecode |
| `Compiler` | the stages a function goes through | Codegen, compared with Meaning; Assembly |
| `UiLoop` | the message loop of `ui.run`: queue, handlers, reuse of the tree, repaint | its handlers are AsyncScheduler's `CallFunction` |
| `UiPointer` | what is kept of a gesture; menus and the dialog | |
| `Ui` | puts the two in one specification | UiLoop, UiPointer |
| `BytecodeProofs` | theorems about ChunkPasses and Emission | |
| `NativeProofs` | theorems about NativeAnalysis, NativeCode and Assembly | |
| other `*Proofs` | theorems about the module of that name | |
| `MC*` | TLC instances | |

Definitions marked *Mutant of …* are faulty variants of the definition they precede; no
specification uses them. They show that a property depends on the code it is about.

### AsyncScheduler

Bytecode is reduced to the instructions that touch the scheduler, chosen freely, so every script
is one resolution of the choices. A future is an address; `kind` says whether it is free, runs a
function (`func_idx >= 0`) or stands for a timer or a worker (a *leaf*). The fields `state`,
`result`, `waiters` and `awaiting` are those of `FutureObject`; `dest` is `saved_dest_reg >= 0`;
`reg[c]` is the one register that the last await of `c` writes. The ready ring is a sequence,
timers and completions are sequences with the newest first, as the linked lists are.

`ctl` is the position of the VM thread: in bytecode, in a builtin that may call back, in a
scheduler loop (draining the ready queue, waking a batch, polling timers) or outside the program.
`drives` is the C stack of scheduler loops: `vm_drive_until` for an await at the top level or for
`apex_call_function`, and the drain of OP_HALT. Each element keeps `prev_task`.

| Actions | Code |
|---|---|
| `AsyncCall`, `AsyncWait`, `AsyncWork`, `AfterBuiltin`, `Exit`, `RuntimeError` | OP_ASYNC_CALL, `os.wait`, `os_run_async_or_sync`, exit checks, `os.exit`, errors |
| `AwaitResolved`, `AwaitSuspend`, `AwaitDrive` | the three outcomes of OP_AWAIT |
| `Return`, `Halt`, `CallFunction`, `EndBuiltin` | end of a coroutine, of the main program, of a handler |
| `RunTask`, `Idling`, `LoopExit`, `TargetResolved`, `Quiet` | the two loops |
| `Drain`, `WakeNext`, `WakeEnd`, `PollStart`, `PollFire`, `PollSkip`, `PollEnd` | completions and timers |
| `WorkerPost`, `NewRun`, `Destroy`, `Free` | threads, the host |

Time is abstract: whether a timer is due is a choice. `os_spawn_worker` that fails to start a
thread posts at once, which is a `WorkerPost` that comes early. `future_start` may fail to
allocate: the future is then resolved with none and `had_error` set.

### CompletionQueue

The steps of AsyncScheduler on the mailbox are atomic; here they are split where the mutex is
released. A worker publishes and signals under the mutex and unlocks in a second step, so
`vm_destroy` can get in between. The VM thread decides to wait, locks, tests the list and parks in
one critical section (`Park`); `Wake` needs a signal, `Spurious` does not. Because `vm_destroy`
reads the counter and then destroys the mutex, the order between "slot released" and "thread has
left the mutex" is what `NoThreadOutlivesVM` is about. Coroutines are only counted (`ready`,
`timers`).

### CallContexts

`call_stack` is the one array of frames; `saved_depth`, `loops` and `status` are what a context
switch saves. `chain[c]` is history: the frames that context `c` pushed and has not popped.
`DeepSwitch` says whether code inside a function may give up the VM thread. The language forbids
`await` there, and with `DeepSwitch = FALSE` the properties hold; the parser's holes (AwaitSyntax)
and handlers called from `ui.run` inside a function make it TRUE in real programs.

### AwaitSyntax and AwaitEmission

`async_depth`, `top_level_depth` and `pending_async` are the parser's fields; `open` is the
nesting the parser does not record, with what each scope declares. `last` compares the parser's
verdict on the last `await` (`placeOk`, `callOk`) with the meaning of the program (`placeLegal`,
`callLegal`). `current_call_is_awaited` is the code generator's flag; `nodes` is its C recursion
over an expression; `code` is the last call emitted. `Await` runs one after the other: a behaviour
parses declarations, then generates the expressions found in them, and the parser's state stands
still meanwhile. Every step of it is a step of AwaitSyntax or leaves AwaitSyntax's variables
alone, so the theorems about the parser carry over.

### Tokenizer, Names, Expressions, Parser, FrontEnd

The text of a program is a sequence of lexemes: blanks with their width, newlines, comments, the
characters of a string, and other tokens as they are. `Tokenize` turns it into tokens, as
`tokenizer_tokenize` does: what it decides is the layout and the escapes. A parser is a record with
the fields of `Parser` in `parser.c`; one operator for each `parse_` function takes a parser and
gives the parser after it and the node, which may be missing as in the code. Errors are names, not
messages. `Prescanned` is the first half of `parse_program`, `ParseOne` a turn of its loop; an
`import` makes a parser of its own for the file, which shares the cache, and copies the symbols
over. Where the code would use a node that is missing, the error `crash` is reported.

`Grammar` writes a tree down with no more parentheses than the documented table of precedences asks
for, and `Rules` says which rules a tree breaks, from the environment inwards: neither knows of
tokens, positions, or counters. `JudgesRight` compares verdicts. `Unkept` names the rules that the
parser does not keep (section 6). `ReadsAsWritten` compares trees where the text was made from
one; where it was not (a program with one lexeme dropped, doubled, exchanged or replaced) and is accepted
all the same, the tree written down again must have the same tokens, so nothing was passed over.
`skipped` is a ghost for what the parser passes over without an error.

The parser itself, built with the limits of the run, was given the 4958 programs of the run and
some 9000 random ones: verdict and tree are those of the model (28 of the garbled programs crash it, where
the model says so), but for the digits of numbers and a comment that swallows the rest of its line.

### ApexTable and TableIteration

`ApexTable` keeps the array part with its capacity and count, the hash part as a map, and
`contents`, the map the script wrote. `SetKey` is `table_set` (which puts near integer keys into
the array part), `SetIndexed` is `table_set_int` as the typed opcodes call it; `Lookup`,
`LiteralRead` and `NumberRead` are the three ways of reading. `table_remove` and `table.clear`
are `Remove` and `Clear`. `Grow` is the doubling, stated as the least fitting power of two.

`TableIteration` models the hash part with its chains, because a loop keeps a pointer
into them: a chain is a set of entries, its order the order `newer` in which they were put in front. `generation` is the counter that the loop and the caches test. `visits` and `untouched`
are history: how often the current loop saw each key, and whether the entries are those it began
with. An entry is an address that can be allocated again after it was freed.

`Tables` has the variables of both modules; a behaviour uses the one or the other, which is what
keeps the instance small.

### Bytecode, Emission, Codegen, ChunkPasses, Meaning, Compiler

The compiler is a sequential program, so it is modelled as operators on a generator record `cg`
(the chunk, the register pool, the caches, the locals), one operator for each function of
`codegen_*.c`. An instruction is a tuple `<<opcode, operand 0, operand 1, operand 2>>`; `Emit` is
`emit`, with the fusion rules of `opt_peephole.c` in their order and what each does to the value
numbering table (`opt_lvn.c`) and the number cache (`opt_const_cache.c`). 
A machine in `Bytecode` is a pc, how the run has ended, and a frame: registers, arguments, the
counters of range loops, the output, the value returned. The interpreter's `switch` is
split by what a case does: `Effect` to the frame, `Taken` and `Target` to the pc, `EndedBy` to the
run. `Step` puts them together and `After` iterates it.

`ChunkPasses` is a specification of its own: any chunk whose jumps stay in it is threaded, then
compacted. `Assembly` takes its variables `code`, `entry` and `stage` and adds `native` (the machine
code): `Assemble` is the JIT. `Compiler` takes these and adds `body` (the function compiled) and
`gen` (the generator as it was left). `Generate` and `Optimize` are
the steps of `codegen_generate`, `Translate` is `Assemble`. The generated chunk is run on `Bytecode` for every input and compared with
`Meaning`, an evaluator of the syntax tree that knows no registers; after each pass its run is
compared with the one before (`PassesKeepTheRun`).

`flaws` is a ghost: it notes the emissions in which the compiler does something that can be wrong
(section 6). Nothing emitted depends on it. `CodeMeansTheSource` is about functions in which no
flaw happened, and `EveryFlawBites` gives for each flaw a function that it alone makes
misbehave, so no flaw excuses more than what goes wrong.

Numbers are integers, calls of other functions are opaque, and a chunk holds one function. The
chunks of all programs of the run were compared with those the real compiler emits: they are the
same instruction by instruction, except for one witness (`jumpIntoNop`), whose never patched jump
goes somewhere else in a whole chunk.

### NativeAnalysis, NativeCode, Assembly

The JIT compiles a function whole when `jit_analyze` accepts it. An emitter record `e` has the cache
of xmm registers in front of the frame's slots (`XmmCache`), the machine code so far, the place of
each pc in it and the snapshots that forward jumps leave for their labels; there is one operator
for each function of `x86_64_emit_*.c`. A machine instruction moves a value between a register and
a slot, computes on registers as a bytecode instruction does on slots (in doubles, or through a
helper of the runtime where the operands are not known to be numbers), jumps, or calls; a call
leaves junk in the registers. Most emitters come in two definitions, one that loads the operands and one
for what is done once they are in registers, because that is how they are proved. `Live` says which
slots some path still reads; only the ghosts use it. Its own ghost `flaws` marks where the emission goes
wrong, and `guessed` where the running code took a value for one of another kind: none for a number, or a result for
none. `NativeAgrees` compares a run of the machine code that has ended with the
interpreter's run of the bytecode it was made of, for the arguments the interpreter hands over (numbers).
It takes for granted that the code is `Usual`: slots in the frame, no test that leads to itself. `Compiler`'s type
invariant has that of all code compiled, and that no run is left uncompared because it was cut (`InTime`).

About 1900 runs of randomly made functions were compared with the JIT itself, with its 15
registers: the model predicts the result and the output of each, wrong ones included, but for ten
in which a flaw makes the code read a register or slot nothing has written.

### UiLoop, UiPointer, Ui

A descriptor is the address of its table and what it describes; `last`, `hashed` and `shown` are
`last_tree`, `hashed_tree` with what it described then, and what the widgets in the pool were built
from. `Digest` is the hash of what a descriptor describes, any function: the code's hash takes of
a string longer than 32 bytes the length and 16 bytes at either end (`ui_hash.c` 23–34). `UiLoop` has an
action for each part of the loop in `ui_impl_run`: a tick, the window events of a pump, the batch of
queued events, what a handler may do (render, return a tree, open a dialog, shut down), and whether
to rebuild. `anim` says how far the opening of a dialog has come: its first tick only takes the time, and a
dialog that is closed before a later one never fades (`ui_state.c` 367–378).

`UiPointer` has one action for each pointer or key event, with the early returns of `ui_handle.c` as
guards and alternatives. A widget's id is a hash of its parent's and its key or index
(`ui_hash.c` 37–57), so a layout gives each id a set of kinds: a rebuild may put a panel where a field
was, and two siblings with one key share an id. The release looks up the kind the dragged id has by
then. `Ui` takes both modules: a behaviour follows the loop or a gesture.

## 3. The runs

| Run | Bounds | Shows |
|---|---|---|
| `scheduler` | 3 futures, 1 value, 2 nested loops, 2 runs | safety of the runtime, and that it implements AwaitContract |
| `liveness` | 3 futures, 2 nested loops, 1 run | `RunnableRuns` |
| `contexts` | 2 coroutines, 2 sites, depth 2, 3 loops, 1 run, no deep switch | returns go to their callers |
| `mailbox` | 3 workers, 2 timers, 3 calls | mutual exclusion with workers: counts, wakeups, destroy; liveness of both sides |
| `parse` | 4958 texts; limits: 3 levels of blocks, 5 of expressions, chains of 12 | the verdict of the parser against the rules, its tree against the grammar, its counters after errors |
| `await` | 3 nested declarations, 4 asynchronous ones, 5 nested nodes | legal awaits accepted, flat programs judged exactly, but for functions declared later; awaited builtins asynchronous |
| `tables` | 4 indexes, 1 string, 2 values; 3 keys, 3 entries, capacity 2 to 8, 4 generations | the two parts form a map; no stale pointer; nothing seen twice |
| `compile` | 4968 functions and 19 witnesses, 3 inputs, 2 entries in each cache, 2 pending breaks, 3 cached registers | the chunk does what the source means, the passes keep what it does, and so does the machine code |
| `ui` | 3 trees with 2 hashes, 2 addresses, 1 input, a queue of 2; 2 ids, 6 layouts | the screen, the handlers and the gestures agree with what was rendered and pressed |
| `exit_in_coroutine`, `shared_frames`, `removed_key` | as above, smaller | counterexamples, see section 6 |

Why the bounds are enough to meet the interesting cases:

* *scheduler*: with three futures one can be awaited by two others (waiter order), two can wait on
  each other (a cycle), and a coroutine, the leaf it awaits and a second coroutine that a nested
  loop runs exist together. Two nested loops is the smallest depth at which one loop runs a
  coroutine another loop's caller is waiting on; a second run starts on what an aborted first one
  left. Values only have to differ from none, so one is enough. The futures are symmetric.
* *mailbox*: three workers allow one completion being resolved, one in the list and one thread
  still publishing. Two timers and three calls let the ready queue refill while the VM parks. The
  liveness properties are checked on the same instance without symmetry.
* *contexts*: two coroutines and the top level are three users of the stack; depth 2 shows
  overwriting of an inner and an outer frame; `VM_MAX_CALL_FRAMES` is reached.
* *parse*: two operators in every position show precedence and associativity, three the
  mixing of `and` and `or`. Statements stand in every kind of block and these in every
  kind again, in pairs, so that a scope that is closed is followed by a use of its names. The limits 3, 5 and 12 instead of 16,
  256 and 512 are met from both sides. Four programs that use every statement are garbled at every lexeme
  in every way, which takes the parser through its returns in error; two uses of a module follow each pair of imports of
  a file, under its name, another name and through another file.
* *await*: three levels give every triple of plain and async declarations, and a plain
  sibling after an async one; the counters of the parser depend on the innermost and the
  outermost declaration only.
* *tables*: `TABLE_ARRAY_INIT` is 1 instead of 64 and the gap limit 2 instead of 1024, so that
  four indexes cross both: the array grows twice, a key starts in the hash part and is then
  shadowed. Both are constants of the module, and the theorems hold for every value.
  In the hash part the capacity starts at 2 instead of 8, so that three keys cause both rehashes; two of
  the keys share a bucket until the second. Four generations are one for each rehash and two for
  removals or clears. Three entries let one be freed and allocated again while a pointer to it is
  kept.
* *compile*: every function of the pool sets `x`, does two of 23 statements and ends in one of 5
  ways, so each pair of neighbouring statements meets, in each order, with a loop, a branch, a
  call or an assignment on either side. The caches hold 2 entries instead of 16 and 8, so
  that they overflow, and a loop keeps 2 pending breaks instead of 16. Three cached registers instead of 15 are
  the least an instruction with two operands and a result needs, and are evicted all the time. The inputs are two
  orders of numbers and one with none. `LoopFuel` (12 turns in `Meaning`), `StepFuel` (60
  instructions) and `OpFuel` (15 times ten machine instructions) bound the runs. A function whose `Meaning` needs more turns is compared with
  nothing; for the others a chunk or machine code that does not end within its bound is a
  violation, so the bounds hide nothing.
* *ui*: at each of two addresses there are two trees with different hashes, so that a tree comes to
  the address of another one; of the trees at different addresses, two are different with the same
  hash and two are the same. A queue of two overflows and merges. With two ids and six layouts, each
  id is a field in one layout and a panel, resizable or not, in another, is gone in a third, and one
  is a field and a panel at once.

Deadlock is checked in every run but `compile` and `parse`, where a compilation ends. In the others `Dead`,
`Over` and `Freed` are the states where the program has ended.

## 4. Fairness

*AsyncScheduler.* The VM thread keeps running its loops (weak fairness of `Scheduler`); a slice of
bytecode ends (`Return`, `Halt`, `EndBuiltin`), the one assumption about scripts; a worker's
blocking call returns (`WorkerPost`). `PollFire` is strongly fair for each timer: `poll_timers`
compares with a clock that does not stop, so a timer that is polled again and again is due at
some time. The VM thread is not assumed to prefer any coroutine; the FIFO queue does that.

*CompletionQueue.* Each thread is weakly fair, also in unlocking; the VM thread is weakly fair in
its loop, in its wait once signalled, and in `vm_destroy`; `PollFires` is strongly fair as above.
Nobody has to start a run or destroy the VM, and no spurious wakeup is assumed to come:
`EveryTaskResolves` rests on the signal in `vm_push_completion` (`vm.c` 1165) alone. The loops drain completions only while
the ready queue is empty (`vm.c` 1516–1530), so coroutines that keep each other ready could hold
them off for ever; `MaxCalls` excludes that, and the property is about programs that stop
spawning.

*Ui.* The loop goes on and handlers return (weak fairness). Strong fairness of `Faded` and of
`RebuildAndDraw`: the clock of an animation does not stop, and the user does not resize the
window for ever, which is what keeps a rebuild off. `Faded` is enabled only for a dialog of which
something was shown, as in the code; of others, nothing is assumed and nothing follows. Nothing else is
assumed of the user.

*Await*, *Tables*, *Compiler* and *FrontEnd* have no liveness: the first two describe input that may
stop at any point, the others functions that end (`prev_pos` ends the loops of the parser).

## 5. The proofs

All theorems hold for every value of the constants that satisfies the named `ASSUME`s: any finite
set of futures, any number of loops, keys, values and sizes.

* **AsyncSchedulerProofs.** `TypeCorrect` proves the type invariant step by step. `Inv` is the
  inductive invariant, in parts: `AwaitInv` (a suspended coroutine is in exactly the list of the
  pending future it awaits), `KindInv` (only unfinished coroutines are queued, executing or
  suspended), `LeafInv` (only leaves have timers and workers), `PlaceInv` (queue, lists and loops
  hold each coroutine once), `DriveInv` (the top level stands below every loop). None of the
  properties is inductive alone: that `RunTask` cannot resume a coroutine twice needs that
  `future_resolve` never queues one that is queued already, which needs that waiter lists are
  disjoint, which is `AwaitInv`. From it follow `AwaitDelivers` (ResumesWithAwaitedValue),
  `WaitersCorrect`, `PlacesCorrect`, `ResolvesOnceCorrect`. `RuntimeKeepsContract` shows that every step
  is a step of `AwaitContract` or a stutter, under the mapping at the end of `AsyncScheduler`:
  the outcome of a future is its result once `state` is 1; the top level is blocked while its
  `vm_drive_until` is the outermost loop.
  What becomes of work is a second invariant, `Ledger`: `CountInv` (`pending_workers` is the
  number of running workers, posted and detached completions and those delivered in this
  turn), `SourceInv` (a pending leaf has a timer, a worker or a completion), `PlacedInv` (a pending
  coroutine is queued, executing or suspended), `ThreadInv`, `BornInv` and `IdleInv` (whose turn it
  is, and what a finished run leaves). It gives `NothingForgottenCorrect`, and with it
  `GivesUpCorrect`: a loop that leaves with its target pending has nothing left that could
  resolve it.
* **CompletionQueueProofs.** `IInv` adds to the type invariant where the spawn protocol stands
  (`SpawnInv`), that the thread that holds the mutex still has its completion in the list
  (`MutexInv`), where a drain is in progress, and that `vm_destroy` past its test has seen the
  counter at zero. `PendingCorrect`: the counter is the cardinality of the outstanding tasks, so
  the clamp in `vm_drain_completions` never acts. `DestroyIsSafe` is its consequence: a
  publishing thread's completion is outstanding, so the counter is not zero. `MailboxTypes`,
  `WakeupCorrect`, `DeliveryCorrect`.
* **CallContextsProofs.** For one run and `DeepSwitch = FALSE`, which are hypotheses of the
  theorems: `ContextTypes`, `DepthCorrect`, `ReturnsCorrect`, `LoopsCorrect`. The argument: a context that is
  switched out holds no frame (`SwitchedAtZero`), so whatever the executing one pushes overwrites
  nothing.
* **TablesProofs.** Of the two parts: `IndexesAgree`: an integer key is in the array part as
  last written, or in the hash part under an empty slot; `StringsAgree` for the others. With
  `SlotsInBounds` (slots past the count are empty, so growing loses nothing) this is inductive,
  and gives `TableTypes`, `ReadsCorrect`, `BoundsCorrect`, `DenseCorrect`.
  Of the hash part: `Shaped` says what a well-formed hash part is: an entry is in the chain of its
  key's bucket and in no other, each chain is strictly and totally ordered, no key has two entries.
  `Progress` says what a loop has seen as long as the structure stays: each key behind it once, none
  ahead of it, where "ahead" is the rest of the current chain and the later buckets. `Caches`: none
  is from a later generation than the table. With `NoneSeenTwice` these are inductive
  (`LoopInvCorrect`): a change of the structure raises `generation`, so a loop or a cache that
  passes its test stands on the structure it was made for. An insertion without a rehash does not
  raise it, but goes in front of its chain, where no pointer of a loop leads. `PointersCorrect`,
  `VisitsCorrect` and `TablesTypes` follow, through `ViewsCorrect`: `TablesSpec` implies the
  specifications of both parts.
* **BytecodeProofs**, of ChunkPasses. `PassesCorrect` says that jump threading and compaction keep the run of *every*
  chunk, from every frame, whatever bound cuts runs off: of all code the generator might
  emit, flawed or not. The relation between the two codes is a set of pairs of pcs. `KeepsUp`
  demands of it that related pcs hold the same instruction with related targets, or that the old
  code gets on to another related pc by no-ops and JUMPs alone; `Alike` carries it to machines,
  `MatchStep` to a step, `Simulation` to a run. For `thread_jumps` a pc is related to those its JUMPs
  lead to (`Leads`); a ring of JUMPs has to be shown to lead nowhere (`LeadsAway`). For
  `compact_bytecode` it is related to `NewPc`, the number of kept pcs below it: what lies between
  two pcs with one new pc is dropped (`NewPcOfOne`), and a dropped JUMP goes to the next
  instruction kept (`ThinnedIdle`). The passes and the runs are recursive functions; what they
  compute in n turns is proved by induction over a set of naturals (`Least`, `AllNaturals`), as the
  induction theorems of the library take an operator. `PassesTypes`: jumps stay in the code.
* **BytecodeProofs**, of Emission. The compiler's run checks what emission makes of whole functions; these theorems are
  about one emission, for every generator, instruction and register value. `FusionCorrect` has a lemma
  for each rule of `try_peephole_fuse` (`FusesLoad`, `FusesMove`, …): what stands in the place of two
  instructions does what they did. Exceptions: the moves that `LosesMove` describes; two negations or
  additions that cancel, of a boolean (`OnBoolean`: the two turn it into none, without them it stays); and a
  load that a move takes into another register may leave its temporary with the value it had.
  The invariant is `Known`: the entries of both caches are true of the registers (`LvnHolds`,
  `NumsHold`), and of the last instruction's destination they say no more than `Fresh` allows,
  since the next emission may fuse that instruction away. Without `Fresh` it is not inductive. `EmitCorrect`:
  every emission keeps it, but for flaws `moveThenWrite`, `staleNumber` and `undoneResult`, and
  has the right effect. What changes in the registers is the new instruction's destination, which
  `on_emit` strikes from the caches (`KnownAfter`), or the temporary. `NumberCorrect` and
  `ConstantCorrect`: adding an entry keeps it. `JoinCorrect`: behind a patched jump it holds of any
  registers. `LookupCorrect`: by it, the register a cache names has the value. Returns and FOR
  instructions are left out of `EmitCorrect`: a returned function has no registers to keep, and
  a loop's back edge brings others, which the run checks.
* **NativeProofs.** `NativeCorrect` says that machine code does what the interpreter does: for every
  function, arguments, registers left by earlier calls and number of cached registers, if the interpreter returns,
  the machine code returns too, the same value after the same calls. It is assumed that the code is
  `Regular` and `InitiallyPure` and that the arguments fit into the registers and the frame. Excepted are code for which
  a flaw was marked, code that may read a slot nobody wrote (`unset`) and runs that `guessed`.
  The proof is a simulation. A machine `Agrees` with a frame of the interpreter when the register cache
  over the slots in memory has the frame's value of every *live* slot; `Sim` adds the arguments pushed and
  the calls made. Of slots that are not live nothing can be said: the emitter throws them away. That `Live` is closed
  under the paths of the code, so that it may be used so, is `LiveCorrect`. `Does` is what a piece of emitted code does
  to a machine, in any code that has the piece: `DispatchCorrect` for the instructions that go on,
  `JumpCorrect`, `FusedCorrect` and `ReturnCorrect` for the others. At a jump both ways have to be right: at the label the
  cache is empty, or the one noted in `snap` for the one jump that leads there. `Course` is
  the emitters that the turns of `x86_64_emit_function` go through, `Laid` the code finished from the last of them. Later turns
  leave alone what earlier ones emitted, where they put labels and which caches they noted (`TurnLaid`), so it
  is known of each pc where its operations are in the finished code and for which cache they were emitted.
  The invariant of the two runs is `Tracks`: the machine has come to where the interpreter is
  (`Reached`); or the interpreter is between two instructions emitted as one (`Halfway`), at the end
  of the code, or caught in a JUMP to itself; or the machine guessed. `StepCorrect` keeps it, with one
  case for a dead store, one for a fused comparison and one for each kind of instruction. A result
  misjudged by `infer_return_type` had to be excepted here (section 6): the proof of `ReturnCorrect` failed without.
  `AssemblyCorrect` makes it an invariant: `NativeAgrees` holds of whatever code threading and
  compaction may come from, for every bound on the runs. That the machine code ends is in
  `NativeCorrect` and not in the property, whose bound is a constant.
* **AwaitProofs.** `DepthInv` relates `async_depth` to the number of open declarations that
  were counted in it; `NestInv` says that counted plain declarations stand inside counted ones.
  `LegalPlaceCorrect` and `FlatProgramsCorrect` follow. `AwaitSpec` implies the specification of AwaitSyntax, which gives the
  parser's theorems for the composition. `FlagInv` says what `current_call_is_awaited` is at each
  open node: it is up under every open await, and each await that closes leaves it up for those
  around it. `AwaitTypes`, `AwaitedCorrect`.
* **UiProofs.** `LoopInv` relates the batch, the newest change of each input and the handler that
  runs: `ChangesAreNewest` needs that an input has at most one change in the queue, which merging
  gives. From it `HandlerCorrect` and that a batch ends with nothing of it left. `BuiltFromHashed`
  (the widgets are those of the tree last hashed) carries `ScreenCorrect`, whatever function the hash
  is; `EdgePressesNothing` (while a press holds a panel's edge, nothing is pressed) carries
  `GesturesCorrect`, for any layouts. `MenusCorrect`, `UiTypes`.

Only model-checked: liveness (`RunnableRuns`, `EveryTaskResolves`, `DestroyReturns`, `WorkIsDone`)
and ENABLED, which the prover does not handle; and of the compiler and the parser all that
depends on the syntax tree (`CodeMeansTheSource`, `EveryFlawBites`, the types of
`Compiler` and `FrontEnd`, `JudgesRight`, `ReadsAsWritten`): their operators recur over trees and
token lists, which the prover can neither expand nor induct over. With the types, it is only
model-checked that the compiler's code is `Usual`.

## 6. Where the code and its documentation differ

Each has a run with a counterexample:

* `exit_in_coroutine` – `os.exit` in a coroutine sets `exit_requested`, which no scheduler loop
  tests (`vm.c` 1513, 4221): other coroutines still run.
* `shared_frames` – a context that gives up the VM thread inside a function finds its frames
  overwritten (`vm.c` 1347).
* `removed_key` – an integer key that is in both parts of a table survives `table.remove` with
  an older value (`vm.c` 961).

Seen in the same models, by the same reasoning, without a run of their own:

* A loop over a table never visits the last bucket of its hash part: the bound is tested after
  `bucket_index` was advanced (`vm.c` 3073), although "iteration visits all of them"
  (`resources/Apex_Pain-Free_Programming.md` 3308). `LoopVisitsOnce` excepts that bucket.
* An `apex_run_string` after a run that was stopped by `os.exit` or an error does not clear
  `ready` and `timers`: coroutines of the freed chunk run again (`apex_api.c` 885; AsyncScheduler
  has this behaviour, and `NothingForgotten` is therefore stated for runs that end by
  themselves). It does not reset `call_depth` either (`vm.c` 1965), which is why `CallContexts` is
  proved for one run.
* Nested declarations confuse the parser: `await` is accepted in a plain function nested in
  another function (`parser.c` 2114), and a plain function declared in an async one is marked
  async (`parser.c` 2649). `FlatProgramsJudgedRight` is exact for
  programs without nesting, but for functions declared later.
* A builtin in an argument of an awaited call is emitted as asynchronous, so the call receives a
  future (`codegen_expr.c` 243). `AwaitedIsAsync` says only that awaited builtins are asynchronous.
* `t[200]` with a literal index reads the array part only (`vm.c` 3206), and a numeric index
  returns an empty array slot without looking in the hash part (`vm.c` 3229). `DenseTableIsAMap`
  says when neither can happen.
* An insertion does not change `generation` unless it rehashes (`vm.c` 906), against the comment
  at `vm.h` 195; a loop then goes on over the changed table. `PointersAreLive` shows that this is
  safe for its pointer.

The parser, against `resources/EC_fDevelopers.md` (each was reproduced with it; the words in
brackets are members of `Unkept` or names of errors):

* It crashes on a missing node: `t[]`, `x = 1, )`, `for i =` without a comma, `m[.k` (`parser.c` 1355,
  2563, 3034, 2004) [crash].
* It passes over text without an error: the operator of `x = 1 +` at the end of a line (2254), the
  value in `constant c = +5` and the constant with it (2419), lines that are indented or
  outdented for no reason at the top level, whatever follows the expression in `"{x y}"`, an
  empty `"{}"` [skipped]. Two statements may stand on one line.
* `else` is a statement of its own (3514) [loneElse]; a ternary and a table need nothing after their last word
  [missing]; a comma may end the parameters.
* `break` and `continue` are accepted in a function declared in a loop: `loop_depth` is not reset
  [loopOutside]. A constant may be declared twice [again] and used before its line, when it has no
  value yet [early]. Only names are protected: a constant of a module can be assigned
  [theirConstant].
* Members a module does not have are accepted [noMember], as is `a[x]` with `a` unknown, taken for a member
  [undefinedObject], and an unknown name as the target of an assignment in an expression
  [undefinedTarget]. Inside an interpolation the places of `await`, `and` and `or` are not
  judged, its parser having no checks [inString].
* An async function cannot be awaited before its line (the prescan does not mark it) [awaitAhead],
  nor when its file was imported before: the cache keeps the symbols of the prescan
  only. An async function nested in another leaves `async_depth` raised: `await` is accepted from
  then on (2649).
* `"a{"` prints `aa{`: a brace that never closes leaves the start of the text where it was (1748–1842);
  `"a\}b"` keeps its backslash when the string has no `{`, and `"\\{x}"` prints `{x}`.
* The limit of operator chains is not one of `1+1+1+...`, as the comment at 2341 has it, nor
  of else-if chains: the chain is reset by every operand. It limits `f()()()...`.
* Errors of the tokenizer in an imported file are not looked at (3299). A file imported first
  in a branch that does not run is never run: later imports are placeholders (3279).
* Types are judged in textual order, whatever loops and calls do. A function declared in another
  replaces the global one of its name. `for 1 < x` is refused though `for x > 1` is not (2951).

The compiler emits code that does something else than the source, for the functions `Witnesses`
in `MCCompiler` and others. The name in brackets is the flaw of `Emission!FlawNames` that marks
it; each was reproduced with the compiler itself.

* [moveThenWrite] `MOVE d,a` before an instruction that reads and writes `d` is dropped for INC, DEC,
  CALL_1 whose function index is `d` and CALL_2; the same rule rewrites an immediate that equals a
  register number (`opt_peephole.c` 179–188).
* [loopHead] An instruction at the head of a while loop fuses with the one before it
  (`codegen_for.c`): the head is no marked target yet.
* [staleNumber, loopNumber] The number cache is not told of the register that a fusion frees, nor
  cleared at the head of a range loop (`codegen_for.c` 933): it names registers that no longer
  hold the number.
* [undoneResult] A pair like `x = x + 5; x = x - 5` that fusion cancels invalidates register 0 in
  the numbering table instead of the one undone (`codegen.c` 17): an entry whose result was computed
  into that register stays, where `opt_lvn.c` 46 means to "invalidate cache entries whose value
  the emitted instruction may have changed".
* [loopConst] A constant known before a loop that writes the variable is still known after it.
* [jumpIntoNop] The pc of a jump is taken before an emission that fuses it away (`codegen_if.c`
  155): the placeholder stays.
* [deadOverJump] The dead stores of a function are sought without regard to JUMP_IF_NONE and the
  SWITCH instructions (`opt_bc_dce.c` 38–68).
* [sharedHome] Copy propagation makes two names share a register and gives it back while one of
  them still lives there (`codegen_stmt.c` 128–175).
* [destReadByRight] `and` and `or` write their left side to the destination while the right
  side still reads it (`opt_dce.c` 174: "dest written only at end").
* [deadLoop] A while loop whose condition is a false constant returns early and leaves the loop
  depth raised (`codegen_for.c` 966).
* [breakLost] The seventeenth pending break of a loop emits nothing (`codegen_stmt.c` 501).
* [fallsOffEnd] A function that ends in an `if` without `else` whose body returns has no
  final RETURN_NONE (`codegen_fn.c` 319).
* Without a flaw of their own: `if none < 5` is taken while `none < 5` is false as a value; `x !=
  false` tests for truth; a cancelled pair leaves a boolean as it was, where the two
  instructions would make it none. `Meaning` calls such operands odd and says nothing of them.
  `collect_hoistable_numbers` never collects anything, and compaction leaves a JUMP to a no-op
  that was a JUMP unthreaded.

The JIT emits code that does something else than the interpreter (the name in brackets is the one
in `NativeCode!NativeFlawNames`; each was reproduced with the JIT on and off):

* [lostValue] MOVE hands the source's register over to the destination, and a call drops its arguments
  from the cache, without a write-back: a source that is read again is read from a slot never written
  (`x86_64_common.c` 96, `x86_64_emit_call.c` 9). `y = p`, a loop, `return y + p + q`.
* [cachedLabel] A comparison and jump suppress the flush in front of the label behind them
  (`did_flush`, `x86_64_emit_function.c` 379), which other jumps reach with an empty cache.
* [noneLabel] JUMP_IF_NONE and JUMP_IF_NOT_NONE are not among the jumps whose targets are collected
  (`x86_64_emit_function.c` 225–253): their label is emitted for the cache of the code above it.
* [noneAsZero] RETURN_NONE returns 0 where the kind of result is not known (`x86_64_emit_call.c` 110):
  a function that returns a call's result, or nothing, returns 0 for nothing.
* A comparison with an immediate is emitted on doubles whatever its operand
  (`jit_analysis.c` 493: "other jumps: pure emit matches interpreter"): after `x = none`, `x == 5`
  holds, as a NaN compares unordered. This is `guessed`; the witness [guess] shows it.
* The kind of result is inferred from the top of the code to its bottom, whatever the jumps
  (`jit_analysis.c` 259–384): a slot that is none on that walk, and that a loop writes a number to
  below a `return` of it, is said to be none, and `jit_box_return` (`vm.c` 1872–1906) returns none for the
  number. Also `guessed`; the witness [misjudged] shows it.

In the UI:

* A new tree at the address of the one last hashed is taken for unchanged and not shown
  (`ui_runtime.c` 33, whose line 18 says it rebuilds "from the last descriptor"). `ScreenShowsTree`
  excepts that case.
* So is a new tree with the same hash, and a string of more than 32 bytes is hashed by its length and its
  first and last 16 bytes (`ui_hash.c` 23–34, `ui_build.c` 657–661): a label changed in its middle
  stays as it was. `ScreenShowsTree` excepts trees with the same hash; without the exception
  it is violated.
* A dialog whose answer is chosen in the pump in which it was first ticked, or before, never fades: `anim_t`
  is 0, and `ui_tick` fades only what is above it (`ui_state.c` 367–378). "the actual emit happens when
  the fade finishes" (`ui_dialog.c` 359) then never comes, and the dialog, which draws nothing, keeps clicks
  and keys from the window until the script opens another. Reproduced with `ui_state.c` and `ui_dialog.c`.
  The third part of `WorkIsDone` is about dialogs of which something was shown; without that it
  is violated.
* A rebuild between a press and its release may give the id of the pressed field to a panel. The release
  then takes the path for panels, which leaves before it clears what is pressed (`ui_handle.c`
  782–799); a later release on that id clicks without a press, against line 804 ("click only if released on
  same widget"). `GestureFollowsPress` excepts it; without the exception it is violated.
* A dialog opened between a press and its release swallows the release, and a later one
  clicks without a press (`ui_handle.c` 739). `GestureFollowsPress` excepts it.
* The overflow menu is unknown to `ui_menubar_has_open` and to Escape, so it stands beside a context
  menu. `OneMenuOnTop` excepts it.
* Two changes of different kinds of one widget in a batch merge into the later one
  (`ui_events.c` 15–22); closing the window in a batch with other events can keep EV_CLOSE from
  the handler (`ui_runtime.c` 377); `ui.dialog` drops the answer of a dialog it replaces;
  the wheel scrolls under a modal dialog; a rebuild forgets a tab that is being dragged.

## 7. What is not modelled

* Arithmetic on doubles, strings, regular expressions, dates, formats, cryptography: pure functions
  without shared state.
* In the compiler: instructions on strings, tables and globals, match, unrolling of loops with a
  constant trip count, inlining of small functions, hoisting of invariants.
* Reference counts. An address in a model is free until it is allocated and, in AsyncScheduler,
  never freed; TableIteration frees entries, not tables.
* The positional part of a loop over a table: `array_index` runs over `array_part` by value, with
  no pointer kept.
* In the UI: layout, text editing, painting, and the Windows and macOS loops (there the paint callback
  clears `redraw_needed` without a rebuild; the model is of Linux, where it does nothing).
* Windows' versions of threads and clocks: the same protocol through other calls.
* In the JIT: native loops inside functions that are not compiled whole (`x86_64_emit_loop.c`), tables,
  strings and match, division, the encoding of machine instructions, the deoptimisation counters.
* In the parser: which characters make a lexeme, the digits of numbers, lines and columns, the words of
  errors, and how often an error is repeated.
* Files and the network.
* The components marked `not_modelled` in `PROJECT.json`, with the reason there.

The larger part of the repository by lines is in these: data libraries, drawing, platform code. They
are sequential functions of their input or calls of the operating system.

## 8. What is left

Worth doing next: `RegisterFrames` (`ensure_register_capacity`, `vm.c` 1224–1306, moves every
frame) and `ReadyRing` (`vm.c` 1095–1121, the ring buffer behind AsyncScheduler's sequence) as
refinements; reference counts and `cycle_sweep` with the result of a run and the table of a loop as
roots; native loops; the bodies of
imported modules in the code generator.
