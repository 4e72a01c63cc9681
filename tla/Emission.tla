------------------------------- MODULE Emission -------------------------------
(***************************************************************************)
(* How the code generator appends one instruction: fusion with the         *)
(* previous one (opt_peephole.c), the two caches that remember what the    *)
(* registers hold (opt_lvn.c, opt_const_cache.c), the set of pcs a jump    *)
(* lands on (opt_jump_targets.c) and the register pool (codegen_scope.c).  *)
(*                                                                         *)
(* A generator is a record cg.  Of its fields this module uses             *)
(*   code     the instructions emitted so far                              *)
(*   targets  the pcs marked as jump targets                               *)
(*   lvn      results known to be in a register: records [op, l, r, imm,   *)
(*            res], an absent register being -1                            *)
(*   nums     numbers known to be in a register: a sequence <<number, reg>>*)
(*   floor    cache_floor: no register below it is handed out              *)
(*   next     next_register                                                *)
(*   locals   name -> [reg, number, known, val, mat]                       *)
(*   flaws    which of the emissions in FlawNames happened; heads (pcs a   *)
(*            loop will jump back to), before and relied (registers the    *)
(*            number cache held when the loop began, and those of them its *)
(*            body reads) only serve to tell.  The code has none of these, *)
(*            and nothing emitted depends on them.                         *)
(* String literals and their cache, globals, tables, DIV and MOD are left  *)
(* out.                                                                    *)
(***************************************************************************)
EXTENDS Bytecode, FiniteSets, SequencesExt

CONSTANTS MaxImm,    \* the largest immediate: 65535
          LvnCap,    \* entries of the value numbering table: 16
          NumCap     \* entries of the number cache: 8

ASSUME CapsAssumption == /\ MaxImm \in Nat
                         /\ LvnCap \in Nat \ {0}
                         /\ NumCap \in Nat \ {0}

PureOps == {"MOVE", "NEG", "INC", "DEC"} \cup LoadOps \cup ArithOps \cup ImmOps \cup CmpOps
WritesDest(op) == op \in PureOps \cup CallOps

\* inst_reads_reg.  What it does not know it takes for a reader.
ReadsReg(i, r) ==
    LET op == i[1]
    IN  CASE op \in LoadOps \cup {"CALL_BUILTIN", "RETURN_NONE"} -> FALSE
          [] op \in {"MOVE", "NEG"} \cup ArithOps \cup CmpOps -> r \in {i[3], i[4]}
          [] op \in ImmOps \cup NoneJumps -> i[3] = r
          [] op \in {"INC", "DEC", "PUSH_ARG", "RETURN", "RETURN_NUM", "RETURN_BOOL"} -> i[2] = r
          [] op = "CALL_1" -> i[4] = r
          [] op = "CALL_2" -> r \in {i[4], i[4] + 1}
          [] OTHER -> TRUE

IsHome(cg, r) == \E x \in DOMAIN cg.locals : cg.locals[x].reg = r
Nop == <<"MOVE", 0, 0, 0>>
LoadNumber(d, k) == IF k \in 0 .. MaxImm THEN <<"LOAD_NUM_IMM", d, k, 0>>
                                         ELSE <<"LOAD_NUM", d, k, 0>>

-------------------------------------------------------------------------------
(***************************************************************************)
(* try_peephole_fuse.  Two adjacent instructions p and i become one, which *)
(* takes the place of p (OneFor), or i changes and is appended (InFront).  *)
(* The rules are tried in this order and the first that applies wins.      *)
(***************************************************************************)
OneFor(j)  == [one |-> TRUE,  inst |-> j]
InFront(j) == [one |-> FALSE, inst |-> j]

\* the number a constant k becomes under an instruction with an immediate m
Folded(op, k, m) == Arith(op, Num(k), Num(m))[2]

Signed(i) == IF i[1] = "ADD_IMM" THEN i[4] ELSE -i[4]
AddSigned(d, n) == CASE n = 0 -> Nop
                     [] n > 0 -> <<"ADD_IMM", d, d, n>>
                     [] n < 0 -> <<"SUB_IMM", d, d, -n>>

Substituted(i, from, to, slots) ==
    [j \in 1 .. 4 |-> IF j \in slots /\ i[j] = from THEN to ELSE i[j]]
SourceSlots(op) == CASE op \in {"NEG"} \cup ArithOps \cup CmpOps -> {3, 4}
                     [] op \in {"MOVE"} \cup ImmOps -> {3}
                     [] OTHER -> {}

Fusion(cg, p, i) ==
    LET d == i[2]
        valueReturn == i[1] \in {"RETURN", "RETURN_NUM", "RETURN_BOOL"}
        onSelf == i[3] = d /\ p[2] = d
    IN  IF IsNop(i) THEN OneFor(p)
        ELSE IF IsNop(p) THEN OneFor(i)
        ELSE IF p[1] \in LoadOps /\ i[1] = "MOVE" /\ p[2] = i[3] /\ ~IsHome(cg, p[2])
             THEN OneFor([p EXCEPT ![2] = d])
        ELSE IF valueReturn /\ p[1] = "LOAD_NONE" /\ p[2] = d
             THEN OneFor(<<"RETURN_NONE", 0, 0, 0>>)
        ELSE IF i[1] \in {"RETURN", "RETURN_NUM"} /\ p[1] = "LOAD_NUM_IMM" /\ p[2] = d
             THEN OneFor(<<"RETURN_NUM_IMM", 0, p[3], 0>>)
        ELSE IF valueReturn /\ p[1] = "MOVE" /\ p[2] = d
             THEN OneFor(<<i[1], p[3], 0, 0>>)
        ELSE IF i[1] = "RETURN_NONE" /\ p[1] \in PureOps
             THEN OneFor(<<"RETURN_NONE", 0, 0, 0>>)
        ELSE IF WritesDest(i[1]) /\ p[1] \in PureOps /\ p[2] = d /\ ~ReadsReg(i, d)
             THEN OneFor(i)
        ELSE IF p[1] = "MOVE" /\ WritesDest(i[1]) /\ p[2] = d
             THEN OneFor(Substituted(i, d, p[3], {3, 4}))
        ELSE IF /\ p[1] = "MOVE" /\ WritesDest(i[1])
                /\ \E s \in SourceSlots(i[1]) : i[s] = p[2]
             THEN InFront(Substituted(i, p[2], p[3], SourceSlots(i[1])))
        ELSE IF p[1] = "LOAD_NUM_IMM" /\ i[1] \in ImmOps /\ onSelf
             THEN OneFor(LoadNumber(d, Folded(i[1], p[3], i[4])))
        ELSE IF p[1] = "LOAD_NUM_IMM" /\ i[1] = "NEG" /\ onSelf
             THEN OneFor(LoadNumber(d, -p[3]))
        ELSE IF p[1] = "LOAD_NUM_IMM" /\ i[1] = "INC" /\ p[2] = d /\ p[3] < MaxImm
             THEN OneFor(<<"LOAD_NUM_IMM", d, p[3] + 1, 0>>)
        ELSE IF p[1] = "LOAD_NUM_IMM" /\ i[1] = "DEC" /\ p[2] = d /\ p[3] > 0
             THEN OneFor(<<"LOAD_NUM_IMM", d, p[3] - 1, 0>>)
        ELSE IF p[1] = "LOAD_NUM_IMM" /\ i[1] \in ArithOps /\ onSelf /\ i[4] = d
             THEN OneFor(LoadNumber(d, Folded(i[1], p[3], p[3])))
        ELSE IF /\ p[1] = "LOAD_NUM_IMM" /\ i[1] \in ImmJumps /\ p[2] = i[3]
                /\ Holds(JumpImmRel(i[1]), Num(p[3]), Num(i[4]))
             THEN InFront(<<"JUMP", i[2], 0, 0>>)
        ELSE IF p[1] = "LOAD_BOOL" /\ p[3] = 0 /\ i[1] = "JUMP_IF_FALSE" /\ p[2] = i[3]
             THEN InFront(<<"JUMP", i[2], 0, 0>>)
        ELSE IF p[1] = "NEG" /\ i[1] = "NEG" /\ onSelf /\ p[3] = d
             THEN OneFor(Nop)
        ELSE IF /\ p[1] \in {"ADD_IMM", "SUB_IMM"} /\ i[1] \in {"ADD_IMM", "SUB_IMM"}
                /\ onSelf /\ p[3] = d
             THEN OneFor(AddSigned(d, Signed(p) + Signed(i)))
        ELSE IF p[1] = "MOVE" /\ i[1] = "MOVE" /\ p[2] = i[3] /\ p[3] = d
             THEN OneFor(p)
        ELSE InFront(i)

\* The one rule that loses a value: the sources of i it rewrites are not all
\* the sources of i, or not sources at all.
LosesMove(p, i) ==
    /\ p[1] = "MOVE" /\ p[2] # p[3] /\ p[2] = i[2] /\ WritesDest(i[1]) /\ ReadsReg(i, i[2])
    /\ \/ i[1] \in {"INC", "DEC", "CALL_2"}
       \/ i[1] \in ImmOps /\ i[4] = i[2]
       \/ i[1] = "CALL_1" /\ i[3] = i[2]

\* code_has_jump_to: nothing fuses with an instruction when a jump already
\* lands behind it.
FusionAt(cg, i) ==
    IF cg.code = <<>> \/ Len(cg.code) \in cg.targets THEN InFront(i)
    ELSE Fusion(cg, Last(cg.code), i)
-------------------------------------------------------------------------------
(***************************************************************************)
(* The caches.                                                             *)
(***************************************************************************)
LvnLookup(cg, op, l, r, imm) ==
    LET hits == {e \in cg.lvn : e.op = op /\ e.l = l /\ e.r = r /\ e.imm = imm}
    IN  IF hits = {} THEN -1 ELSE (CHOOSE e \in hits : TRUE).res

LvnAdd(cg, op, l, r, imm, res) ==
    IF res \in {l, r} \/ Cardinality(cg.lvn) >= LvnCap THEN cg
    ELSE [cg EXCEPT !.lvn = @ \cup {[op |-> op, l |-> l, r |-> r, imm |-> imm, res |-> res]}]

\* on_emit: a call may have changed anything, another write its destination.
LvnInvalidate(cg, w) == [cg EXCEPT !.lvn = {e \in @ : w \notin {e.l, e.r, e.res}}]
LvnClear(cg) == [cg EXCEPT !.lvn = {}]
\* Mutant of LvnOnEmit: only calls invalidate.
LvnOnEmitKeeps(cg, i) == IF i[1] \in CallOps THEN LvnClear(cg) ELSE cg

LvnOnEmit(cg, i) == IF i[1] \in CallOps THEN LvnClear(cg)
                    ELSE IF WritesDest(i[1]) THEN LvnInvalidate(cg, i[2])
                    ELSE cg

NumLookup(cg, k) ==
    LET hits == {j \in DOMAIN cg.nums : cg.nums[j][1] = k}
    IN  IF hits = {} THEN -1 ELSE cg.nums[Min(hits)][2]

NumAdd(cg, k, r) ==
    IF Len(cg.nums) >= NumCap THEN cg
    ELSE [cg EXCEPT !.nums = Append(@, <<k, r>>),
                    !.floor = IF @ <= r THEN r + 1 ELSE @]

\* The last entry takes the place of a dropped one; the floor stays.
Hits(s, w) == {j \in DOMAIN s : s[j][2] = w}
DropFirst(s, w) == IF Hits(s, w) = {} THEN s ELSE Front([s EXCEPT ![Min(Hits(s, w))] = Last(s)])
DropReg(s, w) ==
    LET left[n \in 0 .. Len(s)] == IF n = 0 THEN s ELSE DropFirst(left[n - 1], w)
    IN  left[Len(s)]
NumInvalidate(cg, w) == [cg EXCEPT !.nums = DropReg(@, w)]

NumTruncate(cg, n) ==
    IF n >= Len(cg.nums) THEN cg
    ELSE LET kept == SubSeq(cg.nums, 1, n)
         IN  [cg EXCEPT !.nums = kept,
                        !.floor = 1 + Max({-1} \cup {e[2] : e \in Range(kept)})]

CachesOnEmit(cg, i) == IF WritesDest(i[1]) THEN NumInvalidate(LvnOnEmit(cg, i), i[2])
                                           ELSE LvnOnEmit(cg, i)
-------------------------------------------------------------------------------
(***************************************************************************)
(* Jumps.  A jump is emitted with target 0 and patched later, or backward  *)
(* with its target.  resolve_jump_target follows at most 16 JUMPs.         *)
(***************************************************************************)
Mark(cg, pc) == [cg EXCEPT !.targets = @ \cup {pc}]
SetSlot(cg, at, slot, pc) ==                     \* at may be past the last instruction
    IF at < Len(cg.code) THEN [cg EXCEPT !.code[at + 1] = [@ EXCEPT ![slot] = pc]] ELSE cg

\* PATCH_JUMP: control merges at target, so nothing cached survives it.
PatchJump(cg, at, target) ==
    LET t == FollowJumps(cg.code, target, 16)
    IN  NumTruncate(LvnClear(Mark(SetSlot(cg, at, 2, t), t)), 0)

\* bytecode_current_offset: where the next instruction will go, if it does
\* not fuse.
Here(cg) == Len(cg.code)

(***************************************************************************)
(* What an emission can get wrong.                                         *)
(***************************************************************************)
FlawNames == {"moveThenWrite",   \* fusion with a MOVE drops a value still read
              "loopHead",        \* fusion across the head of a loop
              "staleNumber",     \* a cached number is not what its register holds
              "undoneResult",    \* a numbered result is undone where it was computed
              "jumpIntoNop",     \* a jump fused away from where it will be patched
              "deadOverJump",    \* a store dropped that a skipped write leaves alive
              "sharedHome",      \* two live variables in one register
              "destReadByRight", \* and/or overwrites what its right side reads
              "loopConst",       \* a constant taken for known after a loop
              "loopNumber",      \* a variable taken for a number at a loop head
              "deadLoop",        \* a loop never emitted leaves its context behind
              "breakLost",       \* a break beyond the capacity is not emitted
              "fallsOffEnd"}     \* no return behind the last branch
Blame(cg, bad, flaw) == IF bad THEN [cg EXCEPT !.flaws = @ \cup {flaw}] ELSE cg

\* Ghost: what this emission gets wrong.
Judge(cg, i, f) ==
    LET g1 == Blame(cg, f.one /\ LosesMove(Last(cg.code), i), "moveThenWrite")
        g2 == Blame(g1, /\ Len(cg.code) \in cg.heads \ cg.targets
                        /\ f # InFront(i) /\ ~IsNop(i), "loopHead")
        g3 == Blame(g2, /\ f.one /\ f.inst = Nop /\ ~IsNop(i) /\ i[2] # 0
                        /\ \E e \in cg.lvn : e.res = i[2], "undoneResult")
    IN  Blame(g3, \/ /\ f.one /\ i[1] = "MOVE" /\ f.inst[1] \in LoadOps
                     /\ \E j \in DOMAIN cg.nums : cg.nums[j][2] = i[3] /\ i[2] # i[3]
                  \/ WritesDest(f.inst[1]) /\ f.inst[2] \in cg.relied, "staleNumber")

Emit(cg, i) ==
    LET f == FusionAt(cg, i)
        j == f.inst
        g == Judge(cg, i, f)
    IN  IF f.one
        THEN CachesOnEmit([g EXCEPT !.code = Append(Front(@), j)], j)
        ELSE IF j[1] \in JumpOps /\ j[2] # 0
        THEN LET t == FollowJumps(cg.code, j[2], 16)
             IN  LvnClear(Mark([g EXCEPT !.code = Append(@, [j EXCEPT ![2] = t])], t))
        ELSE LET kept == IF j[1] = "JUMP" THEN LvnClear(g) ELSE CachesOnEmit(g, j)
             IN  [kept EXCEPT !.code = Append(@, j)]

\* the pc emit returns for the instruction it has just dealt with
EmittedAt(cg) == Len(cg.code) - 1
-------------------------------------------------------------------------------
(***************************************************************************)
(* Registers.                                                              *)
(***************************************************************************)
\* the register the next Alloc hands out, and the generator after it
FreshReg(cg) == IF cg.next < cg.floor THEN cg.floor ELSE cg.next
Alloc(cg) == [cg EXCEPT !.next = FreshReg(cg) + 1]

Free(cg, r) ==
    IF \/ IsHome(cg, r)
       \/ r < cg.floor
       \/ \E e \in cg.lvn : e.res = r
       \/ r # cg.next - 1
    THEN cg ELSE [cg EXCEPT !.next = @ - 1]

LocalsHighWater(cg) ==
    1 + Max({-1} \cup {cg.locals[x].reg : x \in DOMAIN cg.locals})
===============================================================================
