------------------------------- MODULE Bytecode -------------------------------
(***************************************************************************)
(* The instructions of Apex that move numbers, booleans and none between   *)
(* the registers of one function, and what the interpreter of core/vm.c    *)
(* does with them.                                                         *)
(*                                                                         *)
(* An instruction is a tuple <<opcode, operand 0, operand 1, operand 2>>,  *)
(* code a sequence of them and a pc 0-based, as in the chunk.  A value is  *)
(* a tagged tuple; numbers are integers, since nothing here depends on     *)
(* the rounding of doubles.  LOAD_NUM carries its number and not its index *)
(* in the constant pool.                                                   *)
(***************************************************************************)
EXTENDS Integers, Sequences

Num(k)  == <<"num", k>>
Bool(b) == <<"bool", b>>
None    == <<"none">>

IsNum(v)  == v[1] = "num"
Truthy(v) == v = Bool(TRUE)                      \* AS_BOOL

(***************************************************************************)
(* Arithmetic gives none as soon as an operand is not a number.            *)
(***************************************************************************)
ArithOps == {"ADD", "SUB", "MUL"}
ImmOps   == {"ADD_IMM", "SUB_IMM", "MUL_IMM"}

Arith(op, v, w) ==
    IF ~(IsNum(v) /\ IsNum(w)) THEN None
    ELSE Num(CASE op \in {"ADD", "ADD_IMM"} -> v[2] + w[2]
               [] op \in {"SUB", "SUB_IMM"} -> v[2] - w[2]
               [] op \in {"MUL", "MUL_IMM"} -> v[2] * w[2])

(***************************************************************************)
(* Comparisons.  EQ and NEQ look at the kinds of the operands; all others  *)
(* compare the two bit patterns as doubles, and whatever is not a number   *)
(* is a NaN there, unequal to everything and in no order with anything.    *)
(***************************************************************************)
Holds(rel, v, w) ==
    CASE rel = "EQ"  -> v = w
      [] rel = "NEQ" -> v # w
      [] rel = "NEQ_NUM" -> ~(IsNum(v) /\ IsNum(w) /\ v[2] = w[2])
      [] OTHER -> /\ IsNum(v) /\ IsNum(w)
                  /\ CASE rel = "EQ_NUM" -> v[2] = w[2]
                       [] rel = "LT"  -> v[2] < w[2]
                       [] rel = "GT"  -> v[2] > w[2]
                       [] rel = "LTE" -> v[2] <= w[2]
                       [] rel = "GTE" -> v[2] >= w[2]

\* CMP_* writes the boolean, JUMP_IF_* jumps on it, JUMP_IF_*_IMM compares
\* with the number in its third operand.
CmpRel(op) ==
    CASE op = "CMP_EQ" -> "EQ"         [] op = "CMP_NEQ" -> "NEQ"
      [] op = "CMP_EQ_NUM" -> "EQ_NUM" [] op = "CMP_NEQ_NUM" -> "NEQ_NUM"
      [] op = "CMP_LT" -> "LT"         [] op = "CMP_GT" -> "GT"
      [] op = "CMP_LTE" -> "LTE"       [] op = "CMP_GTE" -> "GTE"
      [] OTHER -> ""
JumpRel(op) ==
    CASE op = "JUMP_IF_EQ" -> "EQ"         [] op = "JUMP_IF_NEQ" -> "NEQ"
      [] op = "JUMP_IF_EQ_NUM" -> "EQ_NUM" [] op = "JUMP_IF_NEQ_NUM" -> "NEQ_NUM"
      [] op = "JUMP_IF_LT" -> "LT"         [] op = "JUMP_IF_GT" -> "GT"
      [] op = "JUMP_IF_LTE" -> "LTE"       [] op = "JUMP_IF_GTE" -> "GTE"
      [] OTHER -> ""
JumpImmRel(op) ==
    CASE op = "JUMP_IF_EQ_IMM" -> "EQ_NUM" [] op = "JUMP_IF_NEQ_IMM" -> "NEQ_NUM"
      [] op = "JUMP_IF_LT_IMM" -> "LT"     [] op = "JUMP_IF_GT_IMM" -> "GT"
      [] op = "JUMP_IF_LTE_IMM" -> "LTE"   [] op = "JUMP_IF_GTE_IMM" -> "GTE"
      [] OTHER -> ""

(***************************************************************************)
(* Classes of opcodes.                                                     *)
(***************************************************************************)
LoadOps   == {"LOAD_NUM_IMM", "LOAD_NUM", "LOAD_BOOL", "LOAD_NONE"}
CmpOps    == {"CMP_EQ", "CMP_NEQ", "CMP_EQ_NUM", "CMP_NEQ_NUM",
              "CMP_LT", "CMP_GT", "CMP_LTE", "CMP_GTE"}
CallOps   == {"CALL_1", "CALL_2", "CALL_BUILTIN"}
ReturnOps == {"RETURN", "RETURN_NUM", "RETURN_BOOL", "RETURN_NUM_IMM", "RETURN_NONE"}
ImmJumps  == {"JUMP_IF_EQ_IMM", "JUMP_IF_NEQ_IMM", "JUMP_IF_LT_IMM",
              "JUMP_IF_GT_IMM", "JUMP_IF_LTE_IMM", "JUMP_IF_GTE_IMM"}
RegJumps  == {"JUMP_IF_EQ", "JUMP_IF_NEQ", "JUMP_IF_EQ_NUM", "JUMP_IF_NEQ_NUM",
              "JUMP_IF_LT", "JUMP_IF_GT", "JUMP_IF_LTE", "JUMP_IF_GTE"}
ForOps    == {"FOR_NEXT", "FOR_NEXT_LOOP"}
NoneJumps == {"JUMP_IF_NONE", "JUMP_IF_NOT_NONE"}
\* op_has_pc_in_op0
JumpOps   == {"JUMP", "JUMP_IF_FALSE"} \cup ImmJumps \cup RegJumps \cup NoneJumps

Opcodes == {"MOVE", "NEG", "INC", "DEC", "FOR_INIT", "POP_ITER", "PUSH_ARG"} \cup ForOps
           \cup LoadOps \cup ArithOps \cup ImmOps \cup CmpOps \cup CallOps \cup ReturnOps \cup JumpOps

IsNop(i) == i[1] = "MOVE" /\ i[2] = i[3]

InCode(code, pc) == pc \in 0 .. (Len(code) - 1)

\* Where the JUMP at a pc leads; 0 is a target still to be patched.
Hop(code, pc) ==
    IF InCode(code, pc) /\ code[pc + 1][1] = "JUMP" /\ code[pc + 1][2] # 0 THEN code[pc + 1][2] ELSE pc

\* Where a jump to pc ends up after at most so many JUMPs.
FollowJumps(code, pc, hops) ==
    LET to[n \in 0 .. hops] == IF n = 0 THEN pc ELSE Hop(code, to[n - 1])
    IN  to[hops]

(***************************************************************************)
(* One function running: its pc, how it ended, and its frame, that is its  *)
(* registers, the values pushed for the next call, the numeric iterators   *)
(* it has open, innermost first, and what the world saw of it: the         *)
(* arguments of its calls, in order.  A call of another Apex function is   *)
(* opaque; it shows its arguments and returns what CallResult says.        *)
(***************************************************************************)
CallResult(args) == Arith("ADD", args[1], Num(10))

Start(pc, regs) ==
    [pc |-> pc, end |-> "", frame |-> [regs |-> regs, args |-> <<>>, iters |-> <<>>,
                                       out |-> <<>>, value |-> None]]

Write(f, d, v) == [f EXCEPT !.regs[d] = v]

InBounds(it) == \/ it.step > 0 /\ it.index <= it.end
                \/ it.step < 0 /\ it.index >= it.end
Goes(f) == f.iters # <<>> /\ InBounds(Head(f.iters))

\* FOR_NEXT and FOR_NEXT_LOOP differ only in where they go.
IterNext(f, d) ==
    IF f.iters = <<>> THEN f
    ELSE IF Goes(f) THEN [Write(f, d, Num(Head(f.iters).index)) EXCEPT
                            !.iters = [@ EXCEPT ![1].index = @ + Head(f.iters).step]]
    ELSE [f EXCEPT !.iters = Tail(@)]

NewIter(from, to, by) ==
    IF IsNum(from) /\ IsNum(to) /\ IsNum(by)
    THEN [index |-> from[2], end |-> to[2], step |-> by[2]]
    ELSE [index |-> 0, end |-> 0, step |-> 0]

CallUser(f, d, args) ==
    [Write(f, d, CallResult(args)) EXCEPT !.out = Append(@, <<"call", args>>)]

Called(i, f) ==
    LET d == i[2]   c == i[4]
        r == f.regs
    IN  IF i[1] = "CALL_BUILTIN"
        THEN [Write(f, d, None) EXCEPT !.out = Append(@, <<"out", f.args>>), !.args = <<>>]
        ELSE CallUser(f, d, IF i[1] = "CALL_1" THEN <<r[c]>> ELSE <<r[c], r[c + 1]>>)

\* What a return leaves behind.
Returned(i, r) == CASE i[1] = "RETURN_NUM_IMM" -> Num(i[3])
                    [] i[1] = "RETURN_NONE" -> None
                    [] OTHER -> r[i[2]]

\* What all other instructions write to their first operand.
ValueOf(i, r) ==
    LET op == i[1]   a == i[2]   b == i[3]   c == i[4]
    IN  CASE op = "MOVE" -> r[b]
          [] op \in {"LOAD_NUM_IMM", "LOAD_NUM"} -> Num(b)
          [] op = "LOAD_BOOL" -> Bool(b = 1)
          [] op = "LOAD_NONE" -> None
          [] op \in ArithOps -> Arith(op, r[b], r[c])
          [] op \in ImmOps -> Arith(op, r[b], Num(c))
          [] op = "NEG" -> Arith("SUB", Num(0), r[b])
          [] op = "INC" -> Arith("ADD", r[a], Num(1))
          [] op = "DEC" -> Arith("SUB", r[a], Num(1))
          [] op \in CmpOps -> Bool(Holds(CmpRel(op), r[b], r[c]))

\* What an instruction does to the frame.
Effect(i, f) ==
    LET op == i[1]   a == i[2]
        r == f.regs
    IN  IF op \in JumpOps THEN f
        ELSE IF op \in ForOps THEN IterNext(f, a)
        ELSE IF op \in CallOps THEN Called(i, f)
        ELSE IF op \in ReturnOps THEN [f EXCEPT !.value = Returned(i, r)]
        ELSE IF op = "PUSH_ARG" THEN [f EXCEPT !.args = Append(@, r[a])]
        ELSE IF op = "FOR_INIT" THEN [f EXCEPT !.iters = <<NewIter(r[a], r[i[3]], r[i[4]])>> \o @]
        ELSE IF op = "POP_ITER" THEN [f EXCEPT !.iters = IF @ = <<>> THEN @ ELSE Tail(@)]
        ELSE Write(f, a, ValueOf(i, r))

\* Whether it goes to the pc it carries, and not to the next one.
Taken(i, f) ==
    LET op == i[1]   b == i[3]   c == i[4]
        r == f.regs
    IN  CASE op = "JUMP" -> TRUE
          [] op = "JUMP_IF_FALSE" -> ~Truthy(r[b])
          [] op = "JUMP_IF_NONE" -> r[b] = None
          [] op = "JUMP_IF_NOT_NONE" -> r[b] # None
          [] op \in RegJumps -> Holds(JumpRel(op), r[b], r[c])
          [] op \in ImmJumps -> Holds(JumpImmRel(op), r[b], Num(c))
          [] op = "FOR_NEXT" -> ~Goes(f)
          [] op = "FOR_NEXT_LOOP" -> Goes(f)
          [] OTHER -> FALSE

Target(i) == IF i[1] \in ForOps THEN i[3] ELSE i[2]
NextPc(i, pc, f) == IF Taken(i, f) THEN Target(i) ELSE pc + 1

\* Whether the function ends with it; without an open iterator a loop reads a
\* slot below the stack.
EndedBy(i, f) == IF i[1] \in ReturnOps THEN "returned"
                 ELSE IF i[1] \in ForOps /\ f.iters = <<>> THEN "no iterator"
                 ELSE ""

Step(code, m) ==
    LET i == code[m.pc + 1]
    IN  [pc |-> NextPc(i, m.pc, m.frame), end |-> EndedBy(i, m.frame), frame |-> Effect(i, m.frame)]

(***************************************************************************)
(* A run of at most fuel steps.  Past the end of the function there is the *)
(* code of whatever was compiled after it.                                 *)
(***************************************************************************)
Advance(code, m) == IF m.end = "" /\ InCode(code, m.pc) THEN Step(code, m) ELSE m

After(code, m, fuel) ==
    LET run[n \in 0 .. fuel] == IF n = 0 THEN m ELSE Advance(code, run[n - 1])
    IN  run[fuel]

\* What a caller can tell of a run.
Observed(f) == [out |-> f.out, end |-> f.end, value |-> f.value]

Ending(code, m) == IF m.end # "" THEN m.end
                   ELSE IF InCode(code, m.pc) THEN "out of fuel"
                   ELSE "ran past the end"

Run(code, pc, regs, fuel) ==
    LET m == After(code, Start(pc, regs), fuel)
    IN  [out |-> m.frame.out, end |-> Ending(code, m), value |-> m.frame.value]
===============================================================================
