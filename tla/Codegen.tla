-------------------------------- MODULE Codegen --------------------------------
(***************************************************************************)
(* The code generator: one function of Apex to the instructions of module  *)
(* Bytecode, through the emission of module Emission.                      *)
(*                                                                         *)
(* Expressions are <<"num", k>> (k a natural), <<"bool", b>>, <<"none">>,  *)
(* <<"var", x>>, <<"neg", e>>, <<"bin", op, l, r>>, <<"tern", c, t, f>>    *)
(* and <<"call", f, args>> with f "out", a builtin, or "user", another     *)
(* Apex function of one or two parameters.  Statements are                 *)
(*   <<"decl", x, e>>  <<"set", x, e>>  <<"eval", call>>                   *)
(*   <<"if", c, then, else>> (else may be <<>>)  <<"while", c, body>>      *)
(*   <<"range", x, from, to, body>>  <<"break">>  <<"continue">>           *)
(*   <<"return">>  <<"return", e>>                                         *)
(* and a body is a sequence of them.  A set is what the parser calls an    *)
(* assignment, a decl the first assignment of a block.                     *)
(*                                                                         *)
(* Besides the fields module Emission uses, the generator cg has           *)
(*   later      names that statements after the current one mention, in    *)
(*              this block and those around it (block_stack)               *)
(*   loopDepth, fast, cont, breaks    loop_depth and loop_stack            *)
(*   regFloor   register_floor                                             *)
(*   other      ghost: names in else branches still to come                *)
(* Left out: strings, tables, globals, match, else if, loops over tables,  *)
(* and the rewritings of whole loops and calls (unrolling, unswitching,    *)
(* symbolic evaluation, hoisting, induction variables, inlining, tail      *)
(* calls): the functions compiled are ones those do not apply to.          *)
(***************************************************************************)
EXTENDS Emission

CONSTANT BreakCap                   \* break_capacity: 16
ASSUME BreakCapAssumption == BreakCap \in Nat

Arithmetic == {"+", "-", "*"}
Relations  == {"==", "!=", "<", ">", "<=", ">="}

Opcode(op) == CASE op = "+" -> "ADD" [] op = "-" -> "SUB" [] op = "*" -> "MUL"
ImmOpcode(op) == CASE op = "+" -> "ADD_IMM" [] op = "-" -> "SUB_IMM" [] op = "*" -> "MUL_IMM"
Compare(op, numbers) ==
    CASE op = "==" -> IF numbers THEN "CMP_EQ_NUM" ELSE "CMP_EQ"
      [] op = "!=" -> IF numbers THEN "CMP_NEQ_NUM" ELSE "CMP_NEQ"
      [] op = "<"  -> "CMP_LT"  [] op = ">"  -> "CMP_GT"
      [] op = "<=" -> "CMP_LTE" [] op = ">=" -> "CMP_GTE"
\* the jump taken when the comparison fails
JumpUnless(op, numbers) ==
    CASE op = "==" -> IF numbers THEN "JUMP_IF_NEQ_NUM" ELSE "JUMP_IF_NEQ"
      [] op = "!=" -> IF numbers THEN "JUMP_IF_EQ_NUM" ELSE "JUMP_IF_EQ"
      [] op = "<"  -> "JUMP_IF_GTE" [] op = ">"  -> "JUMP_IF_LTE"
      [] op = "<=" -> "JUMP_IF_GT"  [] op = ">=" -> "JUMP_IF_LT"
JumpUnlessImm(op) ==
    CASE op = "==" -> "JUMP_IF_NEQ_IMM" [] op = "!=" -> "JUMP_IF_EQ_IMM"
      [] op = "<"  -> "JUMP_IF_GTE_IMM" [] op = ">"  -> "JUMP_IF_LTE_IMM"
      [] op = "<=" -> "JUMP_IF_GT_IMM"  [] op = ">=" -> "JUMP_IF_LT_IMM"
-------------------------------------------------------------------------------
(***************************************************************************)
(* What a piece of syntax mentions.                                        *)
(***************************************************************************)
RECURSIVE Names(_)
Names(e) == CASE e[1] = "var"  -> {e[2]}
              [] e[1] = "neg"  -> Names(e[2])
              [] e[1] = "bin"  -> Names(e[3]) \cup Names(e[4])
              [] e[1] = "tern" -> Names(e[2]) \cup Names(e[3]) \cup Names(e[4])
              [] e[1] = "call" -> UNION {Names(a) : a \in Range(e[3])}
              [] OTHER -> {}

RECURSIVE StmtNames(_)
BodyNames(body) == UNION {StmtNames(s) : s \in Range(body)}
StmtNames(s) ==
    CASE s[1] \in {"decl", "set"} -> {s[2]} \cup Names(s[3])
      [] s[1] = "eval"  -> Names(s[2])
      [] s[1] = "if"    -> Names(s[2]) \cup BodyNames(s[3]) \cup BodyNames(s[4])
      [] s[1] = "while" -> Names(s[2]) \cup BodyNames(s[3])
      [] s[1] = "range" -> {s[2]} \cup Names(s[3]) \cup Names(s[4]) \cup BodyNames(s[5])
      [] s[1] = "return" /\ Len(s) = 2 -> Names(s[2])
      [] OTHER -> {}

\* collect_local_names, in the order it adds them
RECURSIVE Locals(_)
LocalsOf(s) == CASE s[1] \in {"decl", "set"} -> <<s[2]>>
                 [] s[1] = "if"    -> Locals(s[3]) \o Locals(s[4])
                 [] s[1] = "while" -> Locals(s[3])
                 [] s[1] = "range" -> <<s[2]>> \o Locals(s[5])
                 [] OTHER -> <<>>
Locals(body) == FlattenSeq([i \in DOMAIN body |-> LocalsOf(body[i])])
Assigns(body, x) == x \in Range(Locals(body))                   \* body_assigns_name

RECURSIVE HasCall(_)                                \* codegen_expr_has_side_effect
HasCall(e) == CASE e[1] = "call" -> TRUE
                [] e[1] = "neg"  -> HasCall(e[2])
                [] e[1] = "bin"  -> HasCall(e[3]) \/ HasCall(e[4])
                [] e[1] = "tern" -> HasCall(e[2]) \/ HasCall(e[3]) \/ HasCall(e[4])
                [] OTHER -> FALSE

RECURSIVE AlwaysExits(_)                            \* stmt_always_exits
AlwaysExits(s) ==
    \/ s[1] \in {"return", "break", "continue"}
    \/ s[1] = "if" /\ \A branch \in {s[3], s[4]} : \E t \in Range(branch) : AlwaysExits(t)
-------------------------------------------------------------------------------
(***************************************************************************)
(* Registers of the locals.  The statements of the function are numbered,  *)
(* an if by its condition and the statements of its branches, a loop as    *)
(* one; a local lives from the first to the last that mentions it, and two *)
(* whose lives do not meet may share a register.  Parameters keep 0, 1...  *)
(***************************************************************************)
RECURSIVE Lines(_)
LinesOf(s) == IF s[1] = "if" THEN <<Names(s[2])>> \o Lines(s[3]) \o Lines(s[4])
                             ELSE <<StmtNames(s)>>
Lines(body) == FlattenSeq([i \in DOMAIN body |-> LinesOf(body[i])])

RECURSIVE Assign(_, _, _, _)
Assign(homes, todo, first, last) ==
    IF todo = <<>> THEN homes
    ELSE LET x == Head(todo)
             taken(r) == \E y \in DOMAIN homes :
                            homes[y] = r /\ (y \notin DOMAIN last \/ last[y] >= first[x])
             reg == CHOOSE r \in 0 .. Cardinality(DOMAIN homes) :
                       ~taken(r) /\ \A q \in 0 .. (r - 1) : taken(q)
         IN  Assign(homes @@ (x :> reg), Tail(todo), first, last)

LinearScan(params, body) ==
    LET lines == Lines(body)
        locals == FoldLeft(LAMBDA seen, x : IF x \in Range(seen \o params) THEN seen
                                            ELSE Append(seen, x), <<>>, Locals(body))
        uses(x) == {n \in DOMAIN lines : x \in lines[n]}
        first == [x \in Range(locals) |-> Min(uses(x))]
        last  == [x \in Range(locals) |-> Max(uses(x))]
        place(s, x) == CHOOSE i \in DOMAIN s : s[i] = x
        before(x, y) == \/ first[x] < first[y]
                        \/ first[x] = first[y] /\ place(locals, x) < place(locals, y)
    IN  Assign([x \in Range(params) |-> place(params, x) - 1],
               SortSeq(locals, before), first, last)
-------------------------------------------------------------------------------
(***************************************************************************)
(* What is known of a value while compiling.  FoldNum and FoldBool give    *)
(* the set of the one constant an expression folds to, or {}.              *)
(***************************************************************************)
RECURSIVE FoldNum(_, _)                                          \* try_fold_number
FoldNum(cg, e) ==
    CASE e[1] = "num" -> {e[2]}
      [] e[1] = "var" -> IF cg.locals[e[2]].known THEN {cg.locals[e[2]].val} ELSE {}
      [] e[1] = "neg" -> {-k : k \in FoldNum(cg, e[2])}
      [] e[1] = "bin" /\ e[2] \in Arithmetic ->
            {Folded(Opcode(e[2]), k, m) : k \in FoldNum(cg, e[3]), m \in FoldNum(cg, e[4])}
      [] OTHER -> {}

FailsAs(op) == JumpRel(JumpUnless(op, FALSE))
RECURSIVE FoldBool(_, _)                                           \* try_fold_bool
FoldBool(cg, e) ==
    CASE e[1] = "bool" -> {e[2]}
      [] e[1] = "bin" /\ e[2] = "and" ->
            {b /\ c : b \in FoldBool(cg, e[3]), c \in FoldBool(cg, e[4])}
      [] e[1] = "bin" /\ e[2] = "or" ->
            {b \/ c : b \in FoldBool(cg, e[3]), c \in FoldBool(cg, e[4])}
      [] e[1] = "bin" /\ e[2] \in Relations ->
            {~Holds(FailsAs(e[2]), Num(k), Num(m)) :
                k \in FoldNum(cg, e[3]), m \in FoldNum(cg, e[4])}
      [] OTHER -> {}

RECURSIVE IsNumber(_, _)                                    \* is_number_expression
IsNumber(cg, e) == \/ e[1] \in {"num", "neg"}
                   \/ e[1] = "bin" /\ e[2] \in Arithmetic
                   \/ e[1] = "var" /\ cg.locals[e[2]].number
                   \/ e[1] = "tern" /\ IsNumber(cg, e[3]) /\ IsNumber(cg, e[4])

SameExpr(a, b) == a = b /\ a[1] \in {"var", "num", "bool", "none"}  \* ast_same_expr

Immediates(cg, e) == {k \in FoldNum(cg, e) : k \in 0 .. MaxImm}

\* Every local changed alike.  A fold, so that TLC works it out once.
Locally(cg, new(_)) ==
    [cg EXCEPT !.locals = FoldSet(LAMBDA x, ls : [ls EXCEPT ![x] = new(x)], @, DOMAIN @)]

\* snap_numbers is cg.locals itself; merge_numbers intersects two of them.
RestoreNumbers(cg, snap) == Locally(cg, LAMBDA x : [snap[x] EXCEPT !.reg = cg.locals[x].reg])
MergeNumbers(cg, a, b) ==
    Locally(cg, LAMBDA x : [cg.locals[x] EXCEPT
        !.number = a[x].number /\ b[x].number,
        !.known  = a[x].known /\ b[x].known /\ a[x].val = b[x].val,
        !.val    = a[x].val])
-------------------------------------------------------------------------------
(***************************************************************************)
(* Expressions.  Expr gives the generator afterwards and the register the  *)
(* value is in; a hint that is not negative asks for a register.           *)
(***************************************************************************)
Dest(cg, hint) == IF hint >= 0 THEN [g |-> cg, r |-> hint]
                               ELSE [g |-> Alloc(cg), r |-> FreshReg(cg)]

\* the value is in r already
Reuse(cg, r, hint) ==
    IF hint \in {-1, r} THEN [g |-> cg, r |-> r]
                        ELSE [g |-> Emit(cg, <<"MOVE", hint, r, 0>>), r |-> hint]

\* an instruction without operands to evaluate
Fill(cg, hint, op, k) == LET d == Dest(cg, hint)
                         IN  [g |-> Emit(d.g, <<op, d.r, k, 0>>), r |-> d.r]

\* Ghost: a loop body relies on what the number cache held before the loop.
Rely(cg, r) == IF r \in cg.before THEN [cg EXCEPT !.relied = @ \cup {r}] ELSE cg

Constant(cg, e, k, hint) ==
    LET cached == NumLookup(cg, k)
        d == Dest(cg, hint)
        loaded == Emit(d.g, LoadNumber(d.r, k))
    IN  IF e[1] = "var" THEN Reuse(cg, cg.locals[e[2]].reg, hint)
        ELSE IF cached >= 0 THEN Reuse(Rely(cg, cached), cached, hint)
        ELSE [g |-> IF hint < 0 THEN NumAdd(loaded, k, d.r) ELSE loaded, r |-> d.r]

RECURSIVE Expr(_, _, _)

\* evaluate e into register d and nowhere else
ExprTo(cg, e, d) ==
    LET v == Expr(cg, e, d)
    IN  IF v.r = d THEN v.g ELSE Free(Emit(v.g, <<"MOVE", d, v.r, -1>>), v.r)

\* and, or: the left side is in the destination before the right is evaluated
Logical(cg, op, l, r, hint) ==
    LET d == Dest(cg, hint)
        left == ExprTo(d.g, l, d.r)
        f == FreshReg(left)
        jump == IF op = "and" THEN Emit(left, <<"JUMP_IF_FALSE", 0, d.r, -1>>)
                ELSE Free(Emit(Emit(Alloc(left), <<"LOAD_BOOL", f, 0, 0>>),
                               <<"JUMP_IF_NEQ", 0, d.r, f>>), f)
        both == ExprTo(jump, r, d.r)
        clobbers == \E x \in Names(r) : cg.locals[x].reg = d.r
    IN  [g |-> Blame(PatchJump(both, EmittedAt(jump), Here(both)), clobbers, "destReadByRight"),
         r |-> d.r]

\* an arithmetic result the value numbering table knows is not computed again
Numbered(cg, op, l, r, imm, hint) ==
    LET hit == LvnLookup(cg, op, l, r, imm)
        free(g) == IF r = -1 THEN Free(g, l) ELSE Free(Free(g, l), r)
        d == Dest(cg, hint)
        done == Emit(d.g, <<op, d.r, l, IF r = -1 THEN imm ELSE r>>)
    IN  IF hit >= 0 THEN Reuse(free(cg), hit, hint)
        ELSE [g |-> free(LvnAdd(done, op, l, r, imm, d.r)), r |-> d.r]

WithImmediate(cg, op, e, k, hint) ==
    LET v == Expr(cg, e, -1) IN Numbered(v.g, ImmOpcode(op), v.r, -1, k, hint)

WithRegisters(cg, op, l, r, hint) ==
    LET a == Expr(cg, l, -1)
        b == Expr(a.g, r, -1)
        d == Dest(b.g, hint)
        compare == Compare(op, IsNumber(b.g, l) /\ IsNumber(b.g, r))
    IN  IF op \in Arithmetic THEN Numbered(b.g, Opcode(op), a.r, b.r, 0, hint)
        ELSE [g |-> Free(Free(Emit(d.g, <<compare, d.r, a.r, b.r>>), a.r), b.r), r |-> d.r]

Negate(cg, e, hint) ==
    LET v == Expr(cg, e, -1)
        d == Dest(v.g, hint)
    IN  [g |-> Free(Emit(d.g, <<"NEG", d.r, v.r, 0>>), v.r), r |-> d.r]

\* algebraic identities first, then the immediate forms
Binary(cg, op, l, r, hint) ==
    LET lk == FoldNum(cg, l)   rk == FoldNum(cg, r)
        same == SameExpr(l, r) /\ IsNumber(cg, l)
    IN  IF (op \in {"+", "-"} /\ 0 \in rk) \/ (op = "*" /\ 1 \in rk) THEN Expr(cg, l, hint)
        ELSE IF (op = "+" /\ 0 \in lk) \/ (op = "*" /\ 1 \in lk) THEN Expr(cg, r, hint)
        ELSE IF op = "-" /\ 0 \in lk /\ IsNumber(cg, r) THEN Negate(cg, r, hint)
        ELSE IF \/ op = "-" /\ same
                \/ op = "*" /\ 0 \in rk /\ IsNumber(cg, l)
                \/ op = "*" /\ 0 \in lk /\ IsNumber(cg, r)
             THEN Fill(cg, hint, "LOAD_NUM_IMM", 0)
        ELSE IF op \in Relations /\ same
             THEN Fill(cg, hint, "LOAD_BOOL", IF op \in {"==", "<=", ">="} THEN 1 ELSE 0)
        ELSE IF op \in Arithmetic /\ Immediates(cg, r) # {}
             THEN WithImmediate(cg, op, l, CHOOSE k \in rk : TRUE, hint)
        ELSE IF op \in {"+", "*"} /\ Immediates(cg, l) # {}
             THEN WithImmediate(cg, op, r, CHOOSE k \in lk : TRUE, hint)
        ELSE WithRegisters(cg, op, l, r, hint)

RECURSIVE Arguments(_, _, _)
Arguments(cg, args, regs) ==
    IF args = <<>> THEN [g |-> cg, regs |-> regs]
    ELSE LET v == Expr(cg, Head(args), -1) IN Arguments(v.g, Tail(args), Append(regs, v.r))

FreeAll(cg, regs) == FoldLeft(Free, cg, regs)

\* The two arguments of a call must be neighbours; if not, they are moved.
Contiguous(cg, regs) ==
    IF regs[2] = regs[1] + 1 THEN [g |-> cg, regs |-> regs]
    ELSE LET t0 == FreshReg(cg)
             t1 == FreshReg(Alloc(cg))
             moved == Emit(Emit(Alloc(Alloc(cg)), <<"MOVE", t0, regs[1], 0>>),
                           <<"MOVE", t1, regs[2], 0>>)
         IN  [g |-> Free(Free(moved, regs[2]), regs[1]), regs |-> <<t0, t1>>]

\* codegen_call; of the user functions, the one with n parameters is n-th in the chunk
Call(cg, f, args, hint) ==
    LET d == Dest(cg, hint)
        a == Arguments(d.g, args, <<>>)
        pushed == FoldLeft(LAMBDA g, r : Emit(g, <<"PUSH_ARG", r, 0, 0>>), a.g, a.regs)
        c == IF Len(args) = 2 THEN Contiguous(a.g, a.regs) ELSE a
        called == IF f = "out" THEN Emit(pushed, <<"CALL_BUILTIN", d.r, 0, Len(args)>>)
                  ELSE Emit(c.g, <<IF Len(args) = 2 THEN "CALL_2" ELSE "CALL_1",
                                   d.r, Len(args), c.regs[1]>>)
    IN  [g |-> FreeAll(called, IF f = "out" THEN a.regs ELSE c.regs), r |-> d.r]
-------------------------------------------------------------------------------
(***************************************************************************)
(* Conditions: a jump taken when c is false, still to be patched.  jump is *)
(* the generator behind it and the jump its last instruction.              *)
(***************************************************************************)
JumpOn(cg, op, e) ==
    LET v == Expr(cg, e, -1) IN Free(Emit(v.g, <<op, 0, v.r, 0>>), v.r)

IsNone(e) == e[1] = "none"
IsTest(c, op) == c[1] = "bin" /\ c[2] = op
TestsNone(c) == (IsTest(c, "==") \/ IsTest(c, "!=")) /\ (IsNone(c[3]) \/ IsNone(c[4]))
NotNoneSide(c) == IF IsNone(c[4]) THEN c[3] ELSE c[4]
NoneJump(c) == IF c[2] = "==" THEN "JUMP_IF_NOT_NONE" ELSE "JUMP_IF_NONE"

\* x == true, x != false
TruthSide(c) == LET literal == <<"bool", c[2] = "==">>
                IN  IF ~(IsTest(c, "==") \/ IsTest(c, "!=")) THEN <<>>
                    ELSE IF c[4] = literal THEN c[3]
                    ELSE IF c[3] = literal THEN c[4] ELSE <<>>

\* codegen_optimized_condition, and the plain test when it gives up
Condition(cg, c) ==
    IF c[1] # "bin" \/ c[2] \notin Relations THEN JumpOn(cg, "JUMP_IF_FALSE", c)
    ELSE IF TruthSide(c) # <<>> THEN JumpOn(cg, "JUMP_IF_FALSE", TruthSide(c))
    ELSE IF TestsNone(c) THEN JumpOn(cg, NoneJump(c), NotNoneSide(c))
    ELSE LET k == Immediates(cg, c[4])
             numbers == IsNumber(cg, c[3]) /\ IsNumber(cg, c[4])
             a == Expr(cg, c[3], -1)
             b == Expr(a.g, c[4], -1)
         IN  IF k # {}
             THEN Free(Emit(a.g, <<JumpUnlessImm(c[2]), 0, a.r, CHOOSE x \in k : TRUE>>), a.r)
             ELSE Free(Free(Emit(b.g, <<JumpUnless(c[2], numbers), 0, a.r, b.r>>), b.r), a.r)

\* A forward jump recorded before it is emitted: if it fuses, what is patched
\* later is not the jump.
ForwardJump(cg) == LET g == Emit(cg, <<"JUMP", 0, 0, 0>>)
                   IN  Blame(g, EmittedAt(g) # Here(cg), "jumpIntoNop")

Ternary(cg, c, t, f, hint) ==
    LET d == Dest(cg, hint)
        test == Condition(d.g, c)
        yes == Expr(test, t, d.r).g
        skip == ForwardJump(yes)
        back == NumTruncate(RestoreNumbers(skip, d.g.locals), Len(d.g.nums))
        no == Expr(PatchJump(back, EmittedAt(test), Here(back)), f, d.r).g
        merged == NumTruncate(MergeNumbers(no, yes.locals, no.locals), Len(d.g.nums))
    IN  [g |-> LvnClear(PatchJump(merged, Here(yes), Here(merged))), r |-> d.r]

\* codegen_expression_into
Expr(cg, e, hint) ==
    LET k == FoldNum(cg, e)   b == FoldBool(cg, e)
    IN  IF k # {} THEN Constant(cg, e, CHOOSE x \in k : TRUE, hint)
        ELSE IF b # {} THEN Fill(cg, hint, "LOAD_BOOL", IF TRUE \in b THEN 1 ELSE 0)
        ELSE CASE e[1] = "none" -> Fill(cg, hint, "LOAD_NONE", 0)
               [] e[1] = "var"  -> Reuse(cg, cg.locals[e[2]].reg, hint)
               [] e[1] = "neg"  -> Negate(cg, e[2], hint)
               [] e[1] = "tern" -> Ternary(cg, e[2], e[3], e[4], hint)
               [] e[1] = "call" -> Call(cg, e[2], e[3], hint)
               [] e[1] = "bin" /\ e[2] \in {"and", "or"} -> Logical(cg, e[2], e[3], e[4], hint)
               [] e[1] = "bin" /\ e[2] \notin {"and", "or"} -> Binary(cg, e[2], e[3], e[4], hint)
-------------------------------------------------------------------------------
(***************************************************************************)
(* Statements.                                                             *)
(***************************************************************************)
\* is_local_dead_after_current_stmt
Dead(cg, x) == cg.loopDepth = 0 /\ x \notin cg.later

\* what an assignment of e leaves known about x
Learn(cg, x, e) ==
    LET k == FoldNum(cg, e)
    IN  [cg EXCEPT !.locals[x] = [@ EXCEPT !.number = IsNumber(cg, e), !.known = k # {},
                                           !.val = IF k = {} THEN @ ELSE CHOOSE n \in k : TRUE]]

Evaluate(cg, x, e) == Learn(ExprTo(cg, e, cg.locals[x].reg), x, e)

\* y = x with x dead: y moves into the register of x, and its own is given back
\* if it was the last one handed out
Copies(cg, y, e) == e[1] = "var" /\ e[2] # y /\ Dead(cg, e[2])
MoveIn(cg, y, x) ==
    LET old == cg.locals[y].reg
        homeOfOther(r) == \E z \in DOMAIN cg.locals \ {x, y} : cg.locals[z].reg = r
        shared == \/ homeOfOther(cg.locals[x].reg) \/ y \in cg.other
                  \/ old = cg.next - 1 /\ homeOfOther(old)
    IN  Blame([cg EXCEPT !.locals[y] = cg.locals[x],
                         !.next = IF old = @ - 1 THEN @ - 1 ELSE @],
              shared, "sharedHome")

Declare(cg, y, e) == IF Copies(cg, y, e) THEN MoveIn(cg, y, e[2])
                     ELSE IF Dead(cg, y) /\ ~HasCall(e) THEN cg
                     ELSE Evaluate(cg, y, e)

\* x = x + 1 and x = x - 1, in place
Counts(x, e) == e[1] = "bin" /\ e[2] \in {"+", "-"} /\ e[3] = <<"var", x>> /\ e[4] = <<"num", 1>>
Count(cg, x, op) ==
    [Emit(cg, <<IF op = "+" THEN "INC" ELSE "DEC", cg.locals[x].reg, 0, 0>>) EXCEPT
        !.locals[x] = [@ EXCEPT !.number = TRUE, !.val = IF op = "+" THEN @ + 1 ELSE @ - 1]]

Set(cg, x, e) == IF Dead(cg, x) /\ ~HasCall(e) THEN cg
                 ELSE IF Counts(x, e) THEN Count(cg, x, e[2])
                 ELSE Evaluate(cg, x, e)

ReturnOp(cg, e) ==
    CASE e[1] = "bool" \/ (e[1] = "bin" /\ e[2] \in Relations) -> "RETURN_BOOL"
      [] e[1] \in {"num", "neg"} \/ (e[1] = "bin" /\ e[2] \in Arithmetic) -> "RETURN_NUM"
      [] e[1] = "var" /\ cg.locals[e[2]].number -> "RETURN_NUM"
      [] OTHER -> "RETURN"
Return(cg, e) ==
    LET k == Immediates(cg, e)
        v == Expr(cg, e, -1)
    IN  IF k # {} THEN Emit(cg, <<"RETURN_NUM_IMM", 0, CHOOSE n \in k : TRUE, 0>>)
        ELSE Emit(v.g, <<ReturnOp(v.g, e), v.r, 0, 0>>)

\* Mutant of Break: the list of breaks has no end.
BreakUnbounded(cg) ==
    LET popped == IF cg.fast THEN Emit(cg, <<"POP_ITER", 0, 0, 0>>) ELSE cg
    IN  [ForwardJump(popped) EXCEPT !.breaks = Append(@, Here(popped))]

Break(cg) ==
    LET popped == IF cg.fast THEN Emit(cg, <<"POP_ITER", 0, 0, 0>>) ELSE cg
    IN  IF Len(cg.breaks) < BreakCap
        THEN [ForwardJump(popped) EXCEPT !.breaks = Append(@, Here(popped))]
        ELSE Blame(cg, TRUE, "breakLost")

\* The temporaries of a statement are given back after it.
ResetTemps(cg) ==
    LET top == Max({LocalsHighWater(cg), cg.regFloor, cg.floor})
    IN  IF cg.next <= top THEN cg
        ELSE [cg EXCEPT !.next = top, !.lvn = {e \in @ : e.res < top}]

(***************************************************************************)
(* dce_local_range, where control cannot leave the range at its end: a     *)
(* store is dropped when no instruction after it reads the register before *)
(* another writes it.  What lies between is taken to run.                  *)
(***************************************************************************)
Terminators == {"JUMP"} \cup ReturnOps
NextUse(code, pc, d) ==            \* the first that reads or writes d after pc
    Min({Len(code)} \cup
        {q \in (pc + 1) .. (Len(code) - 1) :
            LET i == code[q + 1]
            IN  ~IsNop(i) /\ (ReadsReg(i, d) \/ (WritesDest(i[1]) /\ i[2] = d))})
IsDeadStore(cg, pc) ==
    LET i == cg.code[pc + 1]
        use == NextUse(cg.code, pc, i[2])
    IN  /\ i[1] \in PureOps /\ ~IsNop(i) /\ i[2] >= cg.floor
        /\ use = Len(cg.code) \/ ~ReadsReg(cg.code[use + 1], i[2])

KillDeadStores(cg, from) ==
    LET dead == {pc \in from .. (Len(cg.code) - 1) : IsDeadStore(cg, pc)}
        written == {cg.code[pc + 1][2] : pc \in dead}
        skips(pc) == \E q \in (pc + 1) .. (NextUse(cg.code, pc, cg.code[pc + 1][2]) - 1) :
                        cg.code[q + 1][1] \in NoneJumps
    IN  IF from >= Len(cg.code) \/ Last(cg.code)[1] \notin Terminators THEN cg
        ELSE Blame([cg EXCEPT !.code = FoldSet(LAMBDA pc, c : [c EXCEPT ![pc + 1] = Nop], @, dead),
                              !.lvn = {e \in @ : {e.l, e.r, e.res} \cap written = {}}],
                   \E pc \in dead : skips(pc), "deadOverJump")

RECURSIVE Statement(_, _)
RECURSIVE Statements(_, _)
Statements(cg, body) ==
    IF body = <<>> THEN cg
    ELSE LET rest == Tail(body)
             done == [Statement([cg EXCEPT !.later = @ \cup BodyNames(rest)], Head(body))
                        EXCEPT !.later = cg.later]
         IN  IF AlwaysExits(Head(body)) THEN done ELSE Statements(ResetTemps(done), rest)

Block(cg, body) == LET g == Statements(cg, body)
                   IN  IF g.loopDepth = 0 THEN KillDeadStores(g, Here(cg)) ELSE g

If(cg, c, then, else) ==
    LET fold == FoldBool(cg, c)
        saved == Len(cg.nums)
        test == Condition(cg, c)
        entry == test.locals
        yes == [Block([test EXCEPT !.other = @ \cup BodyNames(else)], then)
                  EXCEPT !.other = cg.other]
        skip == IF else = <<>> THEN yes ELSE ForwardJump(yes)
        no == PatchJump(skip, EmittedAt(test), Here(skip))
        done == Block(NumTruncate(RestoreNumbers(no, entry), saved), else)
        merged == IF else = <<>> THEN MergeNumbers(no, yes.locals, entry)
                                 ELSE MergeNumbers(done, yes.locals, done.locals)
        end == NumTruncate(merged, saved)
    IN  IF fold # {} THEN (IF TRUE \in fold THEN Block(cg, then)
                           ELSE IF else = <<>> THEN cg ELSE Block(cg, else))
        ELSE LvnClear(IF else = <<>> THEN end ELSE PatchJump(end, Here(yes), Here(end)))
-------------------------------------------------------------------------------
(***************************************************************************)
(* Loops.  What the body assigns is no longer known to be constant; inside *)
(* nothing is copied or dropped.                                           *)
(***************************************************************************)
InvalidateConsts(cg, names) ==                          \* invalidate_loop_consts
    Locally(cg, LAMBDA x : [cg.locals[x] EXCEPT !.known = @ /\ x \notin names])

EnterLoop(cg, names, fast) ==
    [InvalidateConsts(cg, names) EXCEPT !.loopDepth = @ + 1, !.fast = fast]

\* Ghost: control comes back to pc, and the number cache was filled before.
LoopHead(cg, pc) == [cg EXCEPT !.heads = @ \cup {pc},
                               !.before = @ \cup {e[2] : e \in Range(cg.nums)}]

\* the body between the flags of the locals at its entry and at its end
LoopBody(cg, body, next) ==
    LET g == Block(cg, body)
    IN  [Locally(g, LAMBDA x : [g.locals[x] EXCEPT !.number = @ /\ cg.locals[x].number])
            EXCEPT !.next = next]

RECURSIVE Jumps(_)                       \* a break or continue of this loop
Jumps(s) == \/ s[1] \in {"break", "continue"}
            \/ s[1] = "if" /\ \E t \in Range(s[3]) \cup Range(s[4]) : Jumps(t)

PatchAll(cg, jumps, target) == FoldLeft(LAMBDA g, at : PatchJump(g, at, target), cg, jumps)

\* what was before the loop comes back, and what the loop got wrong is said
LeaveLoop(cg, outer, entry, exit, body) ==
    LET constant == \E x \in DOMAIN cg.locals : Assigns(body, x) /\ cg.locals[x].known
        number == \E x \in DOMAIN entry :
                     /\ entry[x].number /\ Assigns(body, x)
                     /\ ~exit[x].number \/ \E s \in Range(body) : Jumps(s)
        g == Blame(Blame(LvnClear(cg), constant, "loopConst"), number, "loopNumber")
    IN  [g EXCEPT !.breaks = SubSeq(@, 1, Len(outer.breaks)), !.cont = outer.cont,
                  !.fast = outer.fast, !.loopDepth = @ - 1,
                  !.before = outer.before, !.relied = @ \cap outer.before]

(***************************************************************************)
(* while: a literal on the right that fits no immediate is loaded once     *)
(* before the loop.  A condition known to be false leaves nothing, and the *)
(* loop entered.  Every break still open is patched, those of outer loops  *)
(* again at their own end.                                                 *)
(***************************************************************************)
WhileJump(cg, c, numbers, hoisted) ==
    LET k == Immediates(cg, c[4])
        a == Expr(cg, c[3], -1)
        b == Expr(a.g, c[4], -1)
    IN  IF TestsNone(c) THEN JumpOn(cg, NoneJump(c), NotNoneSide(c))
        ELSE IF c[1] # "bin" \/ c[2] \notin Relations THEN JumpOn(cg, "JUMP_IF_FALSE", c)
        ELSE IF k # {}
        THEN Free(Emit(a.g, <<JumpUnlessImm(c[2]), 0, a.r, CHOOSE x \in k : TRUE>>), a.r)
        ELSE IF hoisted >= 0
        THEN Free(Emit(a.g, <<JumpUnless(c[2], numbers), 0, a.r, hoisted>>), a.r)
        ELSE Free(Free(Emit(b.g, <<JumpUnless(c[2], numbers), 0, a.r, b.r>>), b.r), a.r)

While(cg, c, body) ==
    LET inside == EnterLoop(cg, Range(Locals(body)), FALSE)
        relation == c[1] = "bin" /\ c[2] \in Relations
        hoists == relation /\ ~TestsNone(c) /\ c[4][1] \in {"num", "bool"}
                           /\ Immediates(inside, c[4]) = {}
        limit == Expr(inside, c[4], -1)
        hoisted == IF hoists THEN limit.r ELSE -1
        top == LvnClear(IF hoists THEN limit.g ELSE inside)
        start == Here(top)
        numbers == relation /\ IsNumber(inside, c[3]) /\ IsNumber(inside, c[4])
        test == WhileJump([LoopHead(top, start) EXCEPT !.cont = start], c, numbers, hoisted)
        floored == [test EXCEPT !.regFloor = Max({@, hoisted + 1})]
        done == [LoopBody(floored, body, cg.next) EXCEPT !.regFloor = cg.regFloor]
        back == NumTruncate(Emit(done, <<"JUMP", start, 0, 0>>), Len(test.nums))
        end == PatchAll(PatchJump(back, EmittedAt(test), Here(back)), back.breaks, Here(back))
    IN  IF FoldBool(inside, c) = {FALSE} THEN Blame(inside, TRUE, "deadLoop")
        ELSE LeaveLoop(end, cg, test.locals, done.locals, body)

(***************************************************************************)
(* for x = from, to: the bounds are evaluated once, into the register of x *)
(* and two fresh ones; the iterator keeps its own counter.                 *)
(***************************************************************************)
RangeLoop(cg, x, from, to, body) ==
    LET home == cg.locals[x].reg
        first == ExprTo(EnterLoop(cg, {x} \cup Range(Locals(body)), TRUE), from, home)
        limit == FreshReg(first)
        last == ExprTo(Alloc(first), to, limit)
        step == FreshReg(last)
        loaded == Emit(Alloc(last), <<"LOAD_NUM_IMM", step, 1, 0>>)
        init == [Emit(loaded, <<"FOR_INIT", home, limit, step>>)
                    EXCEPT !.locals[x] = [@ EXCEPT !.number = TRUE]]
        start == Here(init)
        next == LvnClear(Emit([init EXCEPT !.cont = start], <<"FOR_NEXT", home, 0, 0>>))
        again == Here(next)
        done == LoopBody(LoopHead(LoopHead(next, start), again), body, cg.next)
        looped == Emit(done, <<"FOR_NEXT_LOOP", home, again, 0>>)
        back == NumTruncate(looped, Len(init.nums))
        kept == Blame(back, ~IsPrefix(back.nums, init.nums), "staleNumber")
        exit == Mark(SetSlot(kept, start, 3, Here(kept)), Here(kept))
        mine == SubSeq(exit.breaks, Len(cg.breaks) + 1, Len(exit.breaks))
    IN  IF \E a \in FoldNum(cg, from), b \in FoldNum(cg, to) : a > b THEN cg   \* for_is_zero_trip
        ELSE LeaveLoop(PatchAll(exit, mine, Here(exit)), cg, init.locals, done.locals, body)

\* codegen_statement
Statement(cg, s) ==
    CASE s[1] = "decl"  -> Declare(cg, s[2], s[3])
      [] s[1] = "set"   -> Set(cg, s[2], s[3])
      [] s[1] = "eval"  -> LET v == Expr(cg, s[2], -1) IN Free(v.g, v.r)
      [] s[1] = "if"    -> If(cg, s[2], s[3], s[4])
      [] s[1] = "while" -> While(cg, s[2], s[3])
      [] s[1] = "range" -> RangeLoop(cg, s[2], s[3], s[4], s[5])
      [] s[1] = "break" -> Break(cg)
      [] s[1] = "continue" -> Emit(cg, <<"JUMP", cg.cont, 0, 0>>)
      [] s[1] = "return" -> IF Len(s) = 2 THEN Return(cg, s[2])
                            ELSE Emit(cg, <<"RETURN_NONE", 0, 0, 0>>)

(***************************************************************************)
(* A function: its code begins with the jump over it.                      *)
(***************************************************************************)
NewLocal(reg) == [reg |-> reg, number |-> FALSE, known |-> FALSE, val |-> 0]  \* add_local
EmptyGenerator(homes) ==
    [code |-> <<<<"JUMP", 0, 0, 0>>>>, targets |-> {}, lvn |-> {}, nums |-> <<>>, floor |-> 0,
     next |-> 1 + Max({-1} \cup Range(homes)),
     locals |-> FoldSet(LAMBDA x, ls : ls @@ (x :> NewLocal(homes[x])), <<>>, DOMAIN homes),
     later |-> {}, loopDepth |-> 0, fast |-> FALSE, cont |-> 0, breaks |-> <<>>, regFloor |-> 0,
     flaws |-> {}, heads |-> {}, before |-> {}, relied |-> {}, other |-> {}]

Function(params, body) ==
    LET done == Block(EmptyGenerator(LinearScan(params, body)), body)
        returns == Last(done.code)[1] \in ReturnOps
        ended == IF returns THEN Blame(done, Here(done) \in done.targets, "fallsOffEnd")
                 ELSE Emit(done, <<"RETURN_NONE", 0, 0, 0>>)
    IN  PatchJump(ended, 0, Here(ended))
===============================================================================
