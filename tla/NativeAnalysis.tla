---------------------------- MODULE NativeAnalysis ----------------------------
(***************************************************************************)
(* What source/jit finds out about a function before it compiles it: which *)
(* functions can be native, what they return, whether their arithmetic     *)
(* needs checks, where the jumps go.  code is the compact code of one      *)
(* function behind the JUMP over it; the functions it calls are taken to   *)
(* be native too.                                                          *)
(***************************************************************************)
EXTENDS Bytecode, SequencesExt

CONSTANT FrameSize     \* registers of a frame: at least REGISTER_INITIAL_SIZE

ASSUME FrameAssumption == FrameSize \in Nat

Slots == 0 .. (FrameSize - 1)

At(code, pc) == code[pc + 1]
End(code) == Len(code)                       \* one past the last pc
Body(code) == 1 .. (End(code) - 1)
OpAt(code, pc) == At(code, pc)[1]

UnaryOps == {"NEG", "INC", "DEC"}
EqJumps  == {"JUMP_IF_EQ", "JUMP_IF_NEQ", "JUMP_IF_EQ_NUM", "JUMP_IF_NEQ_NUM"}
-------------------------------------------------------------------------------
(***************************************************************************)
(* jit_analysis.c.  Every proof about types there walks the code once from *)
(* top to bottom, whatever the jumps.                                      *)
(***************************************************************************)
InitiallyPure(code) ==
    \A pc \in Body(code) :
        /\ OpAt(code, pc) \notin {"FOR_INIT", "FOR_NEXT", "FOR_NEXT_LOOP", "POP_ITER"}
        /\ OpAt(code, pc) \in JumpOps => At(code, pc)[2] \in 1 .. End(code)

\* What is known of each slot after an instruction; "any" is nothing.
KindsAfter(kinds, i) ==
    LET op == i[1]
    IN  CASE op \in CmpOps \cup {"LOAD_BOOL"} -> [kinds EXCEPT ![i[2]] = "bool"]
          [] op = "LOAD_NONE" -> [kinds EXCEPT ![i[2]] = "none"]
          [] op \in {"LOAD_NUM_IMM", "LOAD_NUM"} \cup ArithOps \cup ImmOps \cup UnaryOps ->
                [kinds EXCEPT ![i[2]] = "num"]
          [] op = "MOVE" -> [kinds EXCEPT ![i[2]] = kinds[i[3]]]
          [] op \in CallOps -> [kinds EXCEPT ![i[2]] = "any"]
          [] OTHER -> kinds

\* What is known before each instruction of the body, in order.
KindsBefore(code, first) ==
    FoldLeft(LAMBDA known, i : Append(known, KindsAfter(Last(known), i)),
             <<first>>, SubSeq(code, 2, Len(code)))

\* infer_return_type: "mixed" functions are not compiled.
ReturnType(code) ==
    LET known == KindsBefore(code, [s \in Slots |-> "any"])
        Kind(pc) == LET i == At(code, pc)
                    IN  CASE i[1] = "RETURN" -> known[pc][i[2]]
                          [] i[1] = "RETURN_BOOL" -> "bool"
                          [] i[1] = "RETURN_NONE" -> "none"
                          [] OTHER -> "num"
        kinds == {Kind(pc) : pc \in {p \in Body(code) : OpAt(code, p) \in ReturnOps}}
    IN  CASE "any" \in kinds -> "any"
          [] kinds \in {{"bool"}, {"num"}, {"none"}} -> CHOOSE k \in kinds : TRUE
          [] OTHER -> "mixed"

Compiled(code) == InitiallyPure(code) /\ ReturnType(code) # "mixed"

\* function_is_strictly_pure: arithmetic needs no checks, all operands being
\* numbers.  It assumes nothing of the result of a call.
StrictlyPure(code, arity) ==
    LET known == KindsBefore(code, [s \in Slots |-> IF s < arity THEN "num" ELSE "any"])
        Fits(i, k) ==
            CASE i[1] \in ArithOps \cup CmpOps \cup EqJumps -> k[i[3]] = "num" /\ k[i[4]] = "num"
              [] i[1] \in ImmOps \cup {"NEG"} -> k[i[3]] = "num"
              [] i[1] \in {"INC", "DEC"} -> k[i[2]] = "num"
              [] i[1] = "CALL_1" -> k[i[4]] = "num"
              [] i[1] = "CALL_2" -> k[i[4]] = "num" /\ k[i[4] + 1] = "num"
              [] i[1] \in {"PUSH_ARG", "CALL_BUILTIN"} -> FALSE
              [] OTHER -> TRUE
    IN  \A pc \in Body(code) : Fits(At(code, pc), known[pc])
-------------------------------------------------------------------------------
(***************************************************************************)
(* slot_read_before_write: from top to bottom again, and blind to PUSH_ARG *)
(* and the jumps on none, and to what CALL_BUILTIN writes.  Reads and      *)
(* Writes are what an instruction really reads and writes.                 *)
(***************************************************************************)
SeenReads(i) ==
    CASE i[1] \in {"MOVE", "NEG", "JUMP_IF_FALSE"} \cup ImmOps \cup ImmJumps -> {i[3]}
      [] i[1] \in ArithOps \cup CmpOps \cup RegJumps -> {i[3], i[4]}
      [] i[1] \in {"INC", "DEC", "RETURN", "RETURN_NUM", "RETURN_BOOL"} -> {i[2]}
      [] i[1] = "CALL_1" -> {i[4]}
      [] i[1] = "CALL_2" -> {i[4], i[4] + 1}
      [] OTHER -> {}
SeenWrites(i) ==
    IF i[1] \in {"MOVE", "CALL_1", "CALL_2"} \cup LoadOps \cup UnaryOps \cup ArithOps
                \cup ImmOps \cup CmpOps
    THEN {i[2]} ELSE {}

Reads(i) == SeenReads(i) \cup IF i[1] = "PUSH_ARG" THEN {i[2]}
                              ELSE IF i[1] \in NoneJumps THEN {i[3]} ELSE {}
Writes(i) == SeenWrites(i) \cup IF i[1] = "CALL_BUILTIN" THEN {i[2]} ELSE {}

ReadBeforeWrite(code, from, s) ==
    \E pc \in from .. (End(code) - 1) :
        /\ s \in SeenReads(At(code, pc))
        /\ \A k \in from .. (pc - 1) : s \notin SeenWrites(At(code, k))

(***************************************************************************)
(* The slots some path from a pc reads before it writes them.              *)
(***************************************************************************)
Successors(code, pc) ==
    (IF OpAt(code, pc) \in JumpOps THEN {At(code, pc)[2]} ELSE {})
    \cup IF OpAt(code, pc) \in {"JUMP"} \cup ReturnOps THEN {} ELSE {pc + 1}

\* One more instruction of each path is looked at.  (Written with the
\* comparison, which changes nothing, TLC tabulates the function.)
LiveSooner(code, live) ==
    LET more == [pc \in 1 .. End(code) |->
                    IF pc = End(code) THEN {}
                    ELSE Reads(At(code, pc))
                         \cup ((UNION {live[t] : t \in Successors(code, pc)}) \ Writes(At(code, pc)))]
    IN  IF more = live THEN live ELSE more

\* A path need not come to any instruction twice.
Live(code) ==
    LET live[n \in 0 .. End(code)] ==
          IF n = 0 THEN [pc \in 1 .. End(code) |-> {}] ELSE LiveSooner(code, live[n - 1])
    IN  live[End(code)]
-------------------------------------------------------------------------------
(***************************************************************************)
(* What the emitter may take for granted of the code: its slots are those  *)
(* of the frame, and no test leads back to itself.                         *)
(***************************************************************************)
Regular(code) ==
    \A pc \in Body(code) :
        /\ Reads(At(code, pc)) \cup Writes(At(code, pc)) \subseteq Slots
        /\ OpAt(code, pc) \in JumpOps \ {"JUMP"} => At(code, pc)[2] # pc
-------------------------------------------------------------------------------
(***************************************************************************)
(* What the emitter finds out about the code before it starts.  The jumps  *)
(* on none are not among those it looks for.  A label many jumps reach, or *)
(* one from behind, is reached with an empty cache; any other with the     *)
(* cache as its one jump left it.                                          *)
(***************************************************************************)
SeenJumps(code) == {pc \in Body(code) : OpAt(code, pc) \in JumpOps \ NoneJumps}

Labels(code) == {At(code, pc)[2] : pc \in SeenJumps(code)} \cap Body(code)
Predecessors(code, t) ==
    Cardinality({pc \in SeenJumps(code) : At(code, pc)[2] = t})
    + IF t > 1 /\ OpAt(code, t - 1) \notin {"JUMP"} \cup ReturnOps THEN 1 ELSE 0
JumpedBackTo(code, t) == \E pc \in SeenJumps(code) : pc > t /\ At(code, pc)[2] = t

Context(code, arity) ==
    LET flush == {t \in Labels(code) : JumpedBackTo(code, t) \/ Predecessors(code, t) > 1}
    IN  [code |-> code, arity |-> arity, strict |-> StrictlyPure(code, arity),
         kind |-> ReturnType(code), labels |-> Labels(code),
         flush |-> flush, snap |-> Labels(code) \ flush,
         jumps |-> SeenJumps(code) # {},
         live |-> Live(code)]
===============================================================================
