------------------------------- MODULE NativeCode -------------------------------
(***************************************************************************)
(* The x86-64 code of a whole Apex function: how it is emitted over a      *)
(* cache of xmm registers in front of the frame's slots, and what it does  *)
(* when it runs.                                                           *)
(*                                                                         *)
(* An emitter e has the cache (reg: register -> the slot it holds; dirty:  *)
(* the registers whose slot in memory is older), the machine code so far   *)
(* (ops), where each pc begins in it (label), the caches jumps left for    *)
(* their labels (snap), the pc it is at and what has gone wrong (flaws).   *)
(***************************************************************************)
EXTENDS NativeAnalysis

CONSTANT CacheRegs     \* XMM_CACHE_REGS

ASSUME CacheAssumption == CacheRegs \in Nat /\ CacheRegs >= 3

Regs == 0 .. (CacheRegs - 1)
Empty == -1
Scratch == CacheRegs          \* XMM_SCRATCH, never in the cache

(***************************************************************************)
(* lostValue:    a register is given up that holds the only copy of a slot *)
(*               some path still reads;                                    *)
(* cachedLabel:  a label that many jumps reach is entered from above with  *)
(*               slots in the cache;                                       *)
(* noneLabel:    a jump on none goes to a label that expects another cache *)
(*               than an empty one;                                        *)
(* noneAsZero:   a function of which the kind of result is not known       *)
(*               returns none.                                             *)
(***************************************************************************)
NativeFlawNames == {"lostValue", "cachedLabel", "noneLabel", "noneAsZero"}
GuessNames == {"guess", "misjudged"}     \* what else goes wrong, and only as it runs
Flawed(e, name, if) == IF if THEN [e EXCEPT !.flaws = @ \cup {name}] ELSE e
-------------------------------------------------------------------------------
Then(e, op) == [e EXCEPT !.ops = Append(@, op)]

Holding(e, s) == {x \in Regs : e.reg[x] = s}
Home(e, s) == CHOOSE x \in Regs : e.reg[x] = s
Cached(e, s) == Holding(e, s) # {}
Cleared(e) == [e EXCEPT !.reg = [x \in Regs |-> Empty], !.dirty = {}]

Store(e, x) ==
    IF x \in e.dirty THEN [Then(e, <<"store", x, e.reg[x]>>) EXCEPT !.dirty = @ \ {x}] ELSE e
Evict(e, x) == [Store(e, x) EXCEPT !.reg[x] = Empty]
StoreIf(e, xs, x) == IF x \in xs THEN Store(e, x) ELSE e
StoreAll(e, xs) ==
    LET stored[k \in 0 .. CacheRegs] == IF k = 0 THEN e ELSE StoreIf(stored[k - 1], xs, k - 1)
    IN  stored[CacheRegs]
Flush(e) == Cleared(StoreAll(e, Regs))

\* x86_cache_alloc_excl: the first free register, else that of the lowest slot.
Victim(e, excl) ==
    CHOOSE x \in Regs \ excl : \A y \in Regs \ excl :
        e.reg[x] < e.reg[y] \/ (e.reg[x] = e.reg[y] /\ x <= y)

\* x86_cache_load_excl; a miss prefers the register of the slot's number.
LoadInto(e, x, s) == [Then(Evict(e, x), <<"load", x, s>>) EXCEPT !.reg[x] = s]
Load(e, s, excl) ==
    IF Cached(e, s) THEN e
    ELSE LoadInto(e, IF s % CacheRegs \in excl THEN Victim(e, excl) ELSE s % CacheRegs, s)

\* Registers xs are about to give up their slots at an instruction that writes
\* slot s: is one of the other slots dirty, and read on some path from there?
Abandon(cx, e, xs, s) ==
    Flawed(e, "lostValue", \E x \in xs \cap e.dirty : e.reg[x] # s /\ e.reg[x] \in cx.live[e.pc + 1])

\* x86_cache_put: x holds s from now on, and nothing else does.
Put(cx, e, x, s) ==
        [Abandon(cx, e, {x}, s) EXCEPT !.reg = [y \in Regs |-> IF y = x THEN s ELSE IF @[y] = s THEN Empty ELSE @[y]],
            !.dirty = (@ \ Holding(e, s)) \cup {x}]

\* mutant: the cache is not written back where the label expects it empty
PrepareUnflushed(cx, e, t) ==
    IF t \in cx.snap THEN [e EXCEPT !.snap[t] = [reg |-> e.reg, dirty |-> e.dirty]] ELSE e

\* prepare_jump_target
Prepare(cx, e, t) ==
    CASE t \in cx.flush \/ t = End(cx.code) -> Flush(e)
      [] t \in cx.snap -> [e EXCEPT !.snap[t] = [reg |-> e.reg, dirty |-> e.dirty]]
      [] OTHER -> e
-------------------------------------------------------------------------------
(***************************************************************************)
(* The emitters of single instructions.  Of the machine's instructions     *)
(*   set   makes register x what instruction i computes of registers xs,   *)
(*   test  jumps to a pc when instruction i says so, or when it does not,  *)
(* on doubles as they are, or, checked, by a helper of the runtime that    *)
(* knows what is a number.                                                 *)
(***************************************************************************)
Operands(i) == CASE i[1] \in ArithOps \cup CmpOps \cup RegJumps -> <<i[3], i[4]>>
                 [] i[1] \in {"INC", "DEC"} -> <<i[2]>>
                 [] i[1] \in LoadOps -> <<>>
                 [] OTHER -> <<i[3]>>

LoadSecond(e, ss) == Load(e, ss[2], {Home(e, ss[1])})
LoadOperands(e, ss) == IF Len(ss) = 1 THEN Load(e, ss[1], {}) ELSE LoadSecond(Load(e, ss[1], {}), ss)
HomesOf(e, ss) == [k \in DOMAIN ss |-> Home(e, ss[k])]

\* Without strict purity arithmetic and comparisons call a helper, which may
\* use every register.
Checked(cx, i) == /\ ~cx.strict
                  /\ i[1] \in ArithOps \cup ImmOps \cup UnaryOps \cup CmpOps
                              \cup (RegJumps \ {"JUMP_IF_EQ_NUM", "JUMP_IF_NEQ_NUM"})
                  /\ i[1] \notin {"CMP_EQ_NUM", "CMP_NEQ_NUM"}

\* Each emitter below comes in two: its operands are loaded, and the rest.
\* func_emit_arith_base, func_emit_cmp_base
CheckedOn(cx, e, i) ==
    Put(cx, Then(Flush(e), <<"set", 0, i, HomesOf(e, Operands(i)), TRUE>>), 0, i[2])
EmitChecked(cx, e, i) == CheckedOn(cx, LoadOperands(e, Operands(i)), i)

\* x86_func_emit_move
MoveOn(cx, e, i) == Put(cx, e, Home(e, i[3]), i[2])
ConstantIn(cx, e, i, x) == Put(cx, Then(Evict(e, x), <<"set", x, i, <<>>, FALSE>>), x, i[2])
EmitMove(cx, e, i) == IF i[1] = "MOVE" THEN MoveOn(cx, Load(e, i[3], {}), i)
                      ELSE ConstantIn(cx, e, i, Victim(e, {}))

\* The register of a source that is read again is stored before it is reused.
Preserve(cx, e, i, s) ==
    IF i[2] # s /\ ReadBeforeWrite(cx.code, e.pc + 1, s) THEN Store(e, Home(e, s)) ELSE e

ReturnsNext(cx, pc, d) ==
    /\ pc + 1 < End(cx.code)
    /\ OpAt(cx.code, pc + 1) \in {"RETURN", "RETURN_NUM", "RETURN_BOOL"}
    /\ At(cx.code, pc + 1)[2] = d

\* func_emit_bin_arith
Swaps(cx, e, i) == /\ i[1] \in {"ADD", "MUL"} /\ Home(e, i[4]) = 0 /\ Home(e, i[3]) # 0
                   /\ ReturnsNext(cx, e.pc, i[2])
BinaryIn(cx, e, i, xs) == Put(cx, Then(e, <<"set", xs[1], i, xs, FALSE>>), xs[1], i[2])
BinaryOn(cx, e, i) ==
    IF Swaps(cx, e, i) THEN BinaryIn(cx, Preserve(cx, e, i, i[4]), i, <<Home(e, i[4]), Home(e, i[3])>>)
    ELSE BinaryIn(cx, Preserve(cx, e, i, i[3]), i, <<Home(e, i[3]), Home(e, i[4])>>)
EmitBinary(cx, e, i) == BinaryOn(cx, LoadOperands(e, Operands(i)), i)

\* func_emit_imm_arith: in place, or in a copy when the source is read again
InPlace(cx, e, i, x) == Put(cx, Then(e, <<"set", x, i, <<x>>, FALSE>>), x, i[2])
CopyTo(e, x, y) == Then(Evict(e, y), <<"copy", y, x>>)
ImmediateOn(cx, e, i, x) ==
    IF i[2] # i[3] /\ ReadBeforeWrite(cx.code, e.pc + 1, i[3])
    THEN InPlace(cx, CopyTo(e, x, Victim(e, {x})), i, Victim(e, {x}))
    ELSE InPlace(cx, e, i, x)
ImmediateLoaded(cx, e, i) == ImmediateOn(cx, e, i, Home(e, i[3]))
EmitImmediate(cx, e, i) == ImmediateLoaded(cx, Load(e, i[3], {}), i)

\* func_emit_neg, func_emit_incdec
NegateIn(cx, e, i, x) ==
    Put(cx, Then(Preserve(cx, Then(e, <<"set", Scratch, i, <<x>>, FALSE>>), i, i[3]),
                 <<"copy", x, Scratch>>), x, i[2])
UnaryOn(cx, e, i) == IF i[1] = "NEG" THEN NegateIn(cx, e, i, Home(e, i[3]))
                     ELSE InPlace(cx, e, i, Home(e, i[2]))
EmitUnary(cx, e, i) == UnaryOn(cx, LoadOperands(e, Operands(i)), i)

\* x86_func_emit_cmp
CompareIn(cx, e, i, xs, x) == Put(cx, Then(Evict(e, x), <<"set", x, i, xs, FALSE>>), x, i[2])
CompareOn(cx, e, i, xs) == CompareIn(cx, e, i, xs, Victim(e, Range(xs)))
CompareLoaded(cx, e, i) == CompareOn(cx, e, i, HomesOf(e, Operands(i)))
EmitCompare(cx, e, i) == CompareLoaded(cx, LoadOperands(e, Operands(i)), i)

\* x86_func_emit_jump, func_emit_jump_cmp_base
TestOn(cx, e, i) ==
    Flawed(Then(Prepare(cx, IF Checked(cx, i) THEN Flush(e) ELSE e, i[2]),
                <<"test", TRUE, i, HomesOf(e, Operands(i)), Checked(cx, i), i[2]>>), "noneLabel",
           i[1] \in NoneJumps /\ i[2] \notin cx.flush \cup {End(cx.code)})
EmitJump(cx, e, i) == IF i[1] = "JUMP" THEN Then(Prepare(cx, e, i[2]), <<"jump", i[2]>>)
                      ELSE TestOn(cx, LoadOperands(e, Operands(i)), i)

\* try_emit_fused_cmp_jump: the comparison and the JUMP_IF_FALSE behind it in
\* one, when nothing seems to read the boolean.
Fuses(cx, pc) ==
    /\ cx.strict /\ OpAt(cx.code, pc) \in CmpOps
    /\ pc + 1 < End(cx.code) /\ pc + 1 \notin cx.labels
    /\ LET jump == At(cx.code, pc + 1)
           d == At(cx.code, pc)[2]
       IN  /\ jump[1] = "JUMP_IF_FALSE" /\ jump[3] = d
           /\ ~ReadBeforeWrite(cx.code, pc + 2, d)
           /\ jump[2] < pc + 2 \/ ~ReadBeforeWrite(cx.code, jump[2], d)
FusedTest(cx, e, i, t) == Then(Prepare(cx, e, t), <<"test", FALSE, i, HomesOf(e, Operands(i)), FALSE, t>>)
BehindFused(cx, e) == IF e.pc + 2 \in cx.flush THEN Flush(e) ELSE e
FusedTo(cx, e, i, t) ==
    Flawed(BehindFused(cx, FusedTest(cx, LoadOperands(e, Operands(i)), i, t)), "lostValue",
           i[2] \in cx.live[e.pc + 2] \cup cx.live[t])
EmitFused(cx, e, i) == FusedTo(cx, e, i, At(cx.code, e.pc + 1)[2])

\* func_emit_call_1, func_emit_call_2: everything dirty is stored but the
\* arguments, which go to the first registers.
Arguments1(i) == i[4] .. (IF i[1] = "CALL_1" THEN i[4] ELSE i[4] + 1)
Fetch(e, x, s) == Then(e, IF Cached(e, s) THEN <<"copy", x, Home(e, s)>> ELSE <<"load", x, s>>)
Fetched(e, i) == IF i[1] = "CALL_1" THEN Fetch(e, 0, i[4])
                 ELSE Then(Fetch(Fetch(e, Scratch, i[4]), 1, i[4] + 1), <<"copy", 0, Scratch>>)
CallWith(cx, e, i, homes) ==
    Put(cx, Cleared(Abandon(cx, Then(Fetched(StoreAll(e, Regs \ homes), i),
                                     <<"call", IF i[1] = "CALL_1" THEN 1 ELSE 2>>), homes, i[2])),
        0, i[2])
EmitCall(cx, e, i) == CallWith(cx, e, i, {x \in Regs : e.reg[x] \in Arguments1(i)})

\* func_emit_builtin_call: the result is left in the slot.
EmitBuiltin(cx, e, i) ==
    Put(cx, Then(Then(Flush(e), <<"builtin", i[2]>>), <<"load", 0, i[2]>>), 0, i[2])

\* func_emit_return: none is returned as 0, for vm.c to know better.
ReturnOn(e, i) == Then(e, <<"copy", 0, Home(e, i[2])>>)
Returning(cx, e, i) ==
    CASE i[1] = "RETURN_NUM_IMM" -> Then(e, <<"set", 0, i, <<>>, FALSE>>)
      [] i[1] = "RETURN_NONE" -> Flawed(Then(e, <<"zero">>), "noneAsZero", cx.kind # "none")
      [] OTHER -> ReturnOn(Load(e, i[2], {}), i)
EmitReturn(cx, e, i) == Cleared(Then(Returning(cx, e, i), <<"return", i[1]>>))

\* x86_func_dispatch
EmitComputed(cx, e, i) ==
    CASE i[1] \in ArithOps -> EmitBinary(cx, e, i)
      [] i[1] \in ImmOps -> EmitImmediate(cx, e, i)
      [] i[1] \in UnaryOps -> EmitUnary(cx, e, i)
      [] i[1] \in CmpOps -> EmitCompare(cx, e, i)
Dispatch(cx, e, i) ==
    LET op == i[1]
    IN  CASE op \in {"MOVE"} \cup LoadOps -> EmitMove(cx, e, i)
          [] op \in JumpOps -> EmitJump(cx, e, i)
          [] op \in {"CALL_1", "CALL_2"} -> EmitCall(cx, e, i)
          [] op = "PUSH_ARG" -> Then(Flush(e), <<"push", i[2]>>)
          [] op = "CALL_BUILTIN" -> EmitBuiltin(cx, e, i)
          [] op \in ReturnOps -> EmitReturn(cx, e, i)
          [] OTHER -> IF Checked(cx, i) THEN EmitChecked(cx, e, i) ELSE EmitComputed(cx, e, i)

(***************************************************************************)
(* x86_64_emit_function                                                    *)
(***************************************************************************)
AtLabel(cx, e) ==
    LET entered == Flawed([e EXCEPT !.label[e.pc] = Len(e.ops) + 1], "cachedLabel",
                          e.pc \in cx.flush /\ \E x \in Regs : e.reg[x] # Empty)
    IN  IF e.pc \notin cx.snap THEN entered
        ELSE [entered EXCEPT !.reg = e.snap[e.pc].reg, !.dirty = e.snap[e.pc].dirty]

\* A result nothing seems to read, in a function without jumps.
Eliminates(cx, pc) ==
    /\ ~cx.jumps
    /\ OpAt(cx.code, pc) \in {"MOVE"} \cup LoadOps \cup ArithOps \cup ImmOps \cup UnaryOps \cup CmpOps
    /\ ~ReadBeforeWrite(cx.code, pc + 1, At(cx.code, pc)[2])
Eliminated(cx, e, s) ==
    [Flawed(e, "lostValue", s \in cx.live[e.pc + 1])
        EXCEPT !.reg = [x \in Regs |-> IF @[x] = s THEN Empty ELSE @[x]],
               !.dirty = @ \ Holding(e, s)]

\* The cache is emptied before a merge point, but not behind a jump.
Settle(cx, e, i) ==
    IF i[1] \notin JumpOps \cup ReturnOps /\ e.pc + 1 \in cx.flush THEN Flush(e) ELSE e
EmitOne(cx, e, i) == Settle(cx, Dispatch(cx, e, i), i)

\* One turn of its loop: the instruction at e.pc, or two.
TurnOn(cx, e, i) ==
    CASE Eliminates(cx, e.pc) -> [Eliminated(cx, e, i[2]) EXCEPT !.pc = e.pc + 1]
      [] Fuses(cx, e.pc) -> [EmitFused(cx, e, i) EXCEPT !.pc = e.pc + 2]
      [] OTHER -> [EmitOne(cx, e, i) EXCEPT !.pc = e.pc + 1]
Turn(cx, e) == IF e.pc = End(cx.code) THEN e ELSE TurnOn(cx, AtLabel(cx, e), At(cx.code, e.pc))

\* The arguments arrive in the first registers and have no other copy.
Entry(cx) ==
    LET cached == {x \in Regs : x < cx.arity}
        nowhere == [reg |-> [x \in Regs |-> Empty], dirty |-> {}]
    IN  [reg |-> [x \in Regs |-> IF x \in cached THEN x ELSE Empty], dirty |-> cached,
         ops |-> <<>>, label |-> [pc \in 1 .. End(cx.code) |-> 0],
         snap |-> [pc \in cx.snap |-> nowhere], pc |-> 1, flaws |-> {}]

EmittedCode(cx) ==
    LET e[n \in 0 .. End(cx.code)] == IF n = 0 THEN Entry(cx) ELSE Turn(cx, e[n - 1])
    IN  e[End(cx.code)]

\* The end is a label too, and returns 0.
\* unset: the slots it may read that neither the caller nor itself has written.
Finished(cx, e) ==
    [ops |-> e.ops \o <<<<"zero">>, <<"return", "RETURN_NONE">>>>,
     label |-> [e.label EXCEPT ![End(cx.code)] = Len(e.ops) + 1],
     kind |-> cx.kind, flaws |-> e.flaws, unset |-> cx.live[1] \ (0 .. (cx.arity - 1))]
Assembled(cx) == Finished(cx, EmittedCode(cx))
NativeOf(code, arity) == Assembled(Context(code, arity))
-------------------------------------------------------------------------------
(***************************************************************************)
(* Running it.  A machine has the registers, the slots of the frame, and   *)
(* as in Bytecode the arguments pushed and what was seen; guessed says     *)
(* whether it took a value for one of another kind.                        *)
(***************************************************************************)
Junk == Num(555)
NaN == <<"nan">>

Boot(args) ==
    [at |-> 1, regs |-> [x \in Regs \cup {Scratch} |-> IF x < Len(args) THEN args[x + 1] ELSE Junk],
     frame |-> [s \in Slots |-> Junk],
     args |-> <<>>, out |-> <<>>, end |-> "", value |-> None, guessed |-> FALSE]

\* What the interpreter computes of the operands vs: a value, or whether to jump.
Computed(i, vs) ==
    LET op == i[1]
    IN  CASE op = "MOVE" -> vs[1]
          [] op \in {"LOAD_NUM_IMM", "LOAD_NUM", "RETURN_NUM_IMM"} -> Num(i[3])
          [] op = "LOAD_BOOL" -> Bool(i[3] = 1)
          [] op = "LOAD_NONE" -> None
          [] op \in ArithOps -> Arith(op, vs[1], vs[2])
          [] op \in ImmOps -> Arith(op, vs[1], Num(i[4]))
          [] op = "NEG" -> Arith("SUB", Num(0), vs[1])
          [] op = "INC" -> Arith("ADD", vs[1], Num(1))
          [] op = "DEC" -> Arith("SUB", vs[1], Num(1))
          [] op \in CmpOps -> Bool(Holds(CmpRel(op), vs[1], vs[2]))
          [] op = "JUMP_IF_FALSE" -> ~Truthy(vs[1])
          [] op = "JUMP_IF_NONE" -> vs[1] = None
          [] op = "JUMP_IF_NOT_NONE" -> vs[1] # None
          [] op \in RegJumps -> Holds(JumpRel(op), vs[1], vs[2])
          [] op \in ImmJumps -> Holds(JumpImmRel(op), vs[1], Num(i[4]))

\* ucomisd finds a NaN equal to, below and not above anything; the arithmetic
\* of doubles hands the first NaN on.
Unordered(rel) == rel \in {"EQ", "EQ_NUM", "LT", "LTE"}
OnNaN(i, vs) ==
    LET op == i[1]
    IN  CASE op \in CmpOps -> Bool(Unordered(CmpRel(op)))
          [] op \in RegJumps -> Unordered(JumpRel(op))
          [] op \in ImmJumps -> Unordered(JumpImmRel(op))
          [] OTHER -> IF IsNum(vs[1]) THEN vs[2] ELSE vs[1]

OnDoubles == ArithOps \cup ImmOps \cup UnaryOps \cup CmpOps \cup RegJumps \cup ImmJumps
Guesses(i, vs, checked) == ~checked /\ i[1] \in OnDoubles /\ \E k \in DOMAIN vs : ~IsNum(vs[k])
Outcome(i, vs, checked) == IF Guesses(i, vs, checked) THEN OnNaN(i, vs) ELSE Computed(i, vs)

\* A call leaves junk in the registers.
Clobbered(m) == [m EXCEPT !.regs = [x \in DOMAIN @ |-> Junk]]

\* jit_box_return
Boxed(kind, v) == CASE kind = "bool" -> Bool(Truthy(v))
                    [] kind = "none" -> None
                    [] kind = "num" -> IF IsNum(v) THEN v ELSE NaN
                    [] OTHER -> v

\* The kind of the result is inferred of the code from top to bottom; of a slot
\* that a loop writes below the return it may be another.
Misjudged(kind, op, v) == kind # "any" /\ op # "RETURN_NONE" /\ Boxed(kind, v) # v

Exec(n, m) ==
    LET o == n.ops[m.at]
        next == [m EXCEPT !.at = @ + 1]
        Vals(xs) == [k \in DOMAIN xs |-> m.regs[xs[k]]]
    IN  CASE o[1] = "store" -> [next EXCEPT !.frame[o[3]] = m.regs[o[2]]]
          [] o[1] = "load" -> [next EXCEPT !.regs[o[2]] = m.frame[o[3]]]
          [] o[1] = "copy" -> [next EXCEPT !.regs[o[2]] = m.regs[o[3]]]
          [] o[1] = "zero" -> [next EXCEPT !.regs[0] = Num(0)]
          [] o[1] = "set" ->
                LET vs == Vals(o[4])
                IN  [(IF o[5] THEN Clobbered(next) ELSE next) EXCEPT
                        !.regs[o[2]] = Outcome(o[3], vs, o[5]), !.guessed = @ \/ Guesses(o[3], vs, o[5])]
          [] o[1] = "test" ->
                LET vs == Vals(o[4])
                    says == Outcome(o[3], vs, o[5])
                    taken == IF o[3][1] \in CmpOps THEN Truthy(says) ELSE says
                IN  [(IF o[5] THEN Clobbered(next) ELSE next) EXCEPT
                        !.at = IF taken = o[2] THEN n.label[o[6]] ELSE @,
                        !.guessed = @ \/ Guesses(o[3], vs, o[5])]
          [] o[1] = "jump" -> [m EXCEPT !.at = n.label[o[2]]]
          [] o[1] = "call" ->
                LET args == [k \in 1 .. o[2] |-> m.regs[k - 1]]
                IN  [Clobbered(next) EXCEPT !.regs[0] = CallResult(args),
                                            !.out = Append(@, <<"call", args>>)]
          [] o[1] = "push" -> [Clobbered(next) EXCEPT !.args = Append(@, m.frame[o[2]])]
          [] o[1] = "builtin" ->
                [Clobbered(next) EXCEPT !.frame[o[2]] = None, !.args = <<>>,
                                        !.out = Append(@, <<"out", m.args>>)]
          [] OTHER ->                                           \* "return"
                [m EXCEPT !.end = "returned", !.value = Boxed(n.kind, m.regs[0]),
                          !.guessed = @ \/ Misjudged(n.kind, o[2], m.regs[0])]

Advanced(n, m) == IF m.end = "" THEN Exec(n, m) ELSE m

\* The machine a run has come to after so many operations.
RunFor(n, m, fuel) ==
    LET run[k \in 0 .. fuel] == IF k = 0 THEN m ELSE Advanced(n, run[k - 1])
    IN  run[fuel]

\* Ten of them at a time: TLC nests the evaluation of RunFor as deep as its fuel.
TenMore(n, m) == IF m.end = "" THEN RunFor(n, m, 10) ELSE m
NativeRun(n, args, fuel) ==
    LET run[k \in 0 .. fuel] == IF k = 0 THEN Boot(args) ELSE TenMore(n, run[k - 1])
    IN  run[fuel]

\* Unless it guessed, a run has come to what another run, that ended, is seen by.
SameAs(m, o) == o.end = "returned" /\ ~m.guessed => Observed(m) = o
===============================================================================
