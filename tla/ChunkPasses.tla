------------------------------ MODULE ChunkPasses ------------------------------
(***************************************************************************)
(* The two passes over a finished chunk: thread_jumps sends every jump     *)
(* past the JUMPs it lands on (opt_jump_targets.c), compact_bytecode drops *)
(* the no-ops and the JUMPs to the next instruction and renumbers the rest *)
(* (opt_bc_dce.c).  A chunk holds one function, entered at entry.          *)
(***************************************************************************)
EXTENDS Bytecode, FiniteSets

CONSTANTS Frames,      \* the registers the function may be entered with
          StepFuel     \* bound on a run: instructions

ASSUME RunAssumption ==
    /\ StepFuel \in Nat
    /\ \A regs \in Frames : regs = [r \in DOMAIN regs |-> regs[r]]

VARIABLES code, entry, stage
chunk == <<code, entry, stage>>

\* Mutant of PcSlots: the loop instructions are forgotten.
PcSlotsOfJumps(i) == IF i[1] \in JumpOps THEN {2} ELSE {}

\* The slots of an instruction that hold a pc.
PcSlots(i) == IF i[1] \in JumpOps THEN {2}                   \* op_has_pc_in_op0
              ELSE IF i[1] \in ForOps THEN {3}
              ELSE {}

Instruction == Opcodes \X Int \X Int \X Int

\* Code whose jumps stay in it or go to its end.
Chunk == {c \in Seq(Instruction) :
            \A at \in DOMAIN c : \A s \in PcSlots(c[at]) : c[at][s] \in 0 .. Len(c)}

\* An instruction with the pcs in to in place of its own.
Retarget(i, to) == [s \in 1 .. 4 |-> IF s \in PcSlots(i) THEN to[s] ELSE i[s]]

\* One turn of the loop of thread_jumps.
Threaded(c, at) ==
    [c EXCEPT ![at] = Retarget(c[at], [s \in PcSlots(c[at]) |-> FollowJumps(c, c[at][s], 32)])]

\* In place: a jump sees those before it already threaded.
ThreadJumps(c) ==
    LET done[n \in 0 .. Len(c)] == IF n = 0 THEN c ELSE Threaded(done[n - 1], n)
    IN  done[Len(c)]

\* the pc an instruction gets once those at the pcs in gone are dropped
NewPc(gone, pc) == Cardinality((0 .. (pc - 1)) \ gone)

\* Mutant of NewTarget: the jumps keep the pcs from before.
NewTargetUnchanged(c, gone, t) == t

\* what an operand or an address that holds a pc becomes
NewTarget(c, gone, t) == IF t \in 0 .. Len(c) THEN NewPc(gone, t) ELSE t

Pcs(c) == 0 .. (Len(c) - 1)

\* the pcs of the JUMPs that would land on what follows them
Pointless(c, gone) ==
    {pc \in Pcs(c) \ gone :
        /\ c[pc + 1][1] = "JUMP" /\ c[pc + 1][2] \in 0 .. Len(c)
        /\ NewPc(gone, c[pc + 1][2]) = NewPc(gone, pc) + 1}

\* One turn of the second loop of compact_bytecode.
Thinned(c, gone) == gone \cup Pointless(c, gone)

PlainJumps(c) == {pc \in Pcs(c) : c[pc + 1][1] = "JUMP"}

\* The loop ends once a turn drops no other JUMP.
Dropped(c) ==
    LET gone[n \in 0 .. Cardinality(PlainJumps(c))] ==
          IF n = 0 THEN {pc \in Pcs(c) : IsNop(c[pc + 1])} ELSE Thinned(c, gone[n - 1])
    IN  gone[Cardinality(PlainJumps(c))]

\* What is left, each instruction at its new pc with new targets.
Without(c, gone) ==
    LET kept == Pcs(c) \ gone
        to(pc) == [s \in PcSlots(c[pc + 1]) |-> NewTarget(c, gone, c[pc + 1][s])]
        moved(pc) == Retarget(c[pc + 1], to(pc))
    IN  [at \in 1 .. NewPc(gone, Len(c)) |-> moved(CHOOSE pc \in kept : NewPc(gone, pc) = at - 1)]

Compact(c) == Without(c, Dropped(c))

-------------------------------------------------------------------------------
\* What the generator hands over.
PassesInit == /\ code \in Chunk /\ entry \in 0 .. Len(code)
              /\ stage = "generated"

Thread == /\ stage = "generated"
          /\ code' = ThreadJumps(code)
          /\ stage' = "threaded"
          /\ UNCHANGED entry

Shrink == /\ stage = "threaded"
          /\ code' = Compact(code)
          /\ entry' = NewTarget(code, Dropped(code), entry)
          /\ stage' = "compact"

PassesSpec == PassesInit /\ [][Thread \/ Shrink]_chunk

\* thread_jumps and compact_bytecode change nothing anyone can see, of any
\* code the generator hands them, flawed or not.
PassesKeepTheRun ==
    [][stage \notin {"source", "compact"} => \A regs \in Frames :
          LET before == Run(code, entry, regs, StepFuel)
          IN  before.end # "out of fuel" => Run(code', entry', regs, StepFuel) = before]_chunk
===============================================================================
