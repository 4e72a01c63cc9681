---------------------------- MODULE BytecodeProofs ----------------------------
(***************************************************************************)
(* Proofs about the modules that make and change bytecode.                 *)
(*                                                                         *)
(* ChunkPasses: threading and compaction keep code well formed, and keep   *)
(* every run of it.  Each pass is a simulation.  A relation between the    *)
(* pcs of the old code and those of the new one is kept as both run        *)
(* (MatchStep): the old code may take a step more, over a NOP or a JUMP    *)
(* the new one lacks, and every other instruction is in both, at related   *)
(* pcs, with related targets.  For one turn of thread_jumps the related    *)
(* pcs are those a path of JUMPs leads between; for compact_bytecode they  *)
(* are the old pc and the new.  The induction along a run, along a path    *)
(* and over the turns of a pass is induction on sets of naturals           *)
(* (AllNaturals), which rests on the least element such a set has.         *)
(*                                                                         *)
(* Emission, for every instruction, every generator and every value of the *)
(* registers:                                                              *)
(*                                                                         *)
(*   FusionCorrect   what takes the place of two adjacent instructions     *)
(*                   does what they did                                    *)
(*   EmitCorrect     emit leaves code that does what it should, and what   *)
(*                   the caches say of the registers stays true            *)
(*   NumberCorrect, ConstantCorrect, JoinCorrect                           *)
(*                   so it does when an entry is added, and where paths    *)
(*                   meet                                                  *)
(*   LookupCorrect   a register a cache names holds the value looked for   *)
(*                                                                         *)
(* The exceptions are the defects that Judge marks and two instructions    *)
(* that cancel on a boolean.                                               *)
(***************************************************************************)
EXTENDS Emission, ChunkPasses, FiniteSetTheorems, WellFoundedInduction, TLAPS

(* Induction, and runs as sequences of machines.                            *)

\* A set of naturals that is not empty has a least element.
LEMMA Least ==
  ASSUME NEW T, T \subseteq Nat, T # {}
  PROVE  \E n \in T : \A k \in T : n <= k
<1> DEFINE R == OpToRel(<, Nat)
<1>1. IsWellFoundedOn(R, Nat)
  BY NatLessThanWellFounded
<1>2. \A x, y \in Nat : y < x => <<y, x>> \in R
  BY DEF OpToRel
<1> HIDE DEF R
<1>3. PICK n \in T : \A k \in T : ~(<<k, n>> \in R)
  BY <1>1, WFMin
<1>4. ASSUME NEW k \in T PROVE n <= k
  <2>1. n \in Nat /\ k \in Nat
    OBVIOUS
  <2>2. ~(k < n)
    BY <2>1, <1>2, <1>3
  <2> QED
    BY <2>1, <2>2
<1> QED
  BY <1>4

\* A set that has 0, and with each natural the next one, has them all.
LEMMA AllNaturals ==
  ASSUME NEW T, 0 \in T, \A n \in Nat : n \in T => n + 1 \in T
  PROVE  \A n \in Nat : n \in T
<1> SUFFICES ASSUME Nat \ T # {} PROVE FALSE
  OBVIOUS
<1>1. PICK n \in Nat \ T : \A k \in Nat \ T : n <= k
  BY Least
<1>2. n # 0 /\ n - 1 \in Nat /\ ~(n <= n - 1)
  OBVIOUS
<1>3. n - 1 \in T
  BY <1>1, <1>2
<1> QED
  BY <1>2, <1>3

\* The machines a run goes through, from m to what After says.
IsRun(run, c, m, fuel) == /\ run[0] = m
                          /\ \A n \in 1 .. fuel : run[n] = Advance(c, run[n - 1])
                          /\ After(c, m, fuel) = run[fuel]

LEMMA RunExists ==
  ASSUME NEW c, NEW m, NEW fuel \in Nat
  PROVE  \E run : IsRun(run, c, m, fuel)
<1> DEFINE Is(run, k) == run = [n \in 0 .. k |-> IF n = 0 THEN m ELSE Advance(c, run[n - 1])]
           T == {k \in Nat : \E run : Is(run, k)}
<1>1. 0 \in T
  <2> DEFINE run == [n \in 0 .. 0 |-> m]
  <2>1. Is(run, 0)
    OBVIOUS
  <2> HIDE DEF Is
  <2> QED
    BY <2>1
<1>2. ASSUME NEW k \in Nat, k \in T PROVE k + 1 \in T
  <2>1. PICK old : Is(old, k)
    BY <1>2
  <2> DEFINE run == [n \in 0 .. k + 1 |-> IF n = k + 1 THEN Advance(c, old[k]) ELSE old[n]]
  <2>2. \A n \in 0 .. k : old[n] = IF n = 0 THEN m ELSE Advance(c, old[n - 1])
    BY <2>1
  <2>3. \A n \in 0 .. k + 1 : run[n] = IF n = 0 THEN m ELSE Advance(c, run[n - 1])
    <3> TAKE n \in 0 .. k + 1
    <3>1. CASE n = k + 1
      <4>1. k \in 0 .. k + 1 /\ k # k + 1 /\ n - 1 = k /\ n # 0
        BY <3>1
      <4> QED
        BY <3>1, <4>1
    <3>2. CASE n = 0
      BY <2>2, <3>2
    <3>3. CASE n # k + 1 /\ n # 0
      <4>1. n \in 0 .. k /\ n - 1 \in 0 .. k + 1 /\ n - 1 # k + 1
        BY <3>3
      <4>2. run[n] = old[n] /\ run[n - 1] = old[n - 1]
        BY <4>1, <3>3
      <4> QED
        BY <2>2, <3>3, <4>1, <4>2
    <3> QED
      BY <3>1, <3>2, <3>3
  <2>4. run = [n \in 0 .. k + 1 |-> run[n]]
    OBVIOUS
  <2> HIDE DEF run
  <2>5. Is(run, k + 1)
    BY <2>3, <2>4
  <2> HIDE DEF Is
  <2> QED
    BY <2>5
<1>3. \A k \in Nat : k \in T
  <2> HIDE DEF T
  <2> QED
    BY <1>1, <1>2, AllNaturals
<1> DEFINE R == CHOOSE run : Is(run, fuel)
<1>4. Is(R, fuel)
  <2>1. \E run : Is(run, fuel)
    BY <1>3
  <2> HIDE DEF Is
  <2> QED
    BY <2>1
<1>5. After(c, m, fuel) = R[fuel]
  BY DEF After
<1> HIDE DEF R
<1>6. \A n \in 0 .. fuel : R[n] = IF n = 0 THEN m ELSE Advance(c, R[n - 1])
  BY <1>4
<1>7. IsRun(R, c, m, fuel)
  BY <1>5, <1>6 DEF IsRun
<1> QED
  BY <1>7
-------------------------------------------------------------------------------
(* One instruction, at two places.                                          *)

\* They differ in the pcs they carry and in nothing else.
SameBut(i, j) == \A s \in (1 .. 4) \ PcSlots(i) : j[s] = i[s]

LEMMA SameInstruction ==
  ASSUME NEW i \in Instruction, NEW j \in Instruction, SameBut(i, j), PcSlots(i) = {}
  PROVE  j = i
<1>1. \A s \in 1 .. 4 : j[s] = i[s]
  BY DEF SameBut
<1> QED
  BY <1>1 DEF Instruction

LEMMA Alike ==
  ASSUME NEW i \in Instruction, NEW j \in Instruction, SameBut(i, j), NEW f
  PROVE  /\ Effect(j, f) = Effect(i, f)
         /\ EndedBy(j, f) = EndedBy(i, f)
         /\ Taken(j, f) <=> Taken(i, f)
         /\ Taken(i, f) => \E s \in PcSlots(i) : Target(i) = i[s] /\ Target(j) = j[s]
<1>1. CASE i[1] \in JumpOps
  <2>1. PcSlots(i) = {2}
    BY <1>1 DEF PcSlots
  <2>2. j[1] = i[1] /\ j[3] = i[3] /\ j[4] = i[4]
    BY <2>1 DEF SameBut
  <2>3. ~(i[1] \in ForOps)
    BY <1>1 DEF JumpOps, ImmJumps, RegJumps, NoneJumps, ForOps
  <2>4. Effect(j, f) = f /\ Effect(i, f) = f
    BY <1>1, <2>2 DEF Effect
  <2>5. EndedBy(j, f) = EndedBy(i, f)
    BY <2>2, <2>3 DEF EndedBy
  <2>6. Taken(j, f) <=> Taken(i, f)
    BY <2>2, Zenon DEF Taken
  <2>7. Target(i) = i[2] /\ Target(j) = j[2]
    BY <2>2, <2>3 DEF Target
  <2> QED
    BY <2>1, <2>4, <2>5, <2>6, <2>7
<1>2. CASE i[1] \in ForOps
  <2>1. ~(i[1] \in JumpOps)
    BY <1>2 DEF JumpOps, ImmJumps, RegJumps, NoneJumps, ForOps
  <2>2. PcSlots(i) = {3}
    BY <1>2, <2>1 DEF PcSlots
  <2>3. j[1] = i[1] /\ j[2] = i[2] /\ j[4] = i[4]
    BY <2>2 DEF SameBut
  <2>4. Effect(j, f) = IterNext(f, j[2]) /\ Effect(i, f) = IterNext(f, i[2])
    BY <1>2, <2>1, <2>3 DEF Effect
  <2>5. EndedBy(j, f) = EndedBy(i, f)
    BY <2>3 DEF EndedBy
  <2>6. Taken(j, f) <=> Taken(i, f)
    BY <1>2, <2>3 DEF Taken, ForOps, RegJumps, ImmJumps
  <2>7. Target(i) = i[3] /\ Target(j) = j[3]
    BY <1>2, <2>3 DEF Target
  <2> QED
    BY <2>2, <2>3, <2>4, <2>5, <2>6, <2>7
<1>3. CASE ~(i[1] \in JumpOps) /\ ~(i[1] \in ForOps)
  <2>1. PcSlots(i) = {}
    BY <1>3 DEF PcSlots
  <2>2. j = i
    BY <2>1, SameInstruction
  <2>3. ~Taken(i, f)
    BY <1>3 DEF Taken, ForOps, JumpOps, ImmJumps, RegJumps, NoneJumps
  <2> QED
    BY <2>2, <2>3
<1> QED
  BY <1>1, <1>2, <1>3

\* The frames of a run: a NOP writes to one what it holds.
IsFcn(g) == g = [x \in DOMAIN g |-> g[x]]
Framed(f) == IsFcn(f) /\ "regs" \in DOMAIN f /\ IsFcn(f.regs)

LEMMA PutFramed ==
  ASSUME NEW f, Framed(f), NEW z, NEW x, z = "regs" => IsFcn(x)
  PROVE  Framed([f EXCEPT ![z] = x])
<1> DEFINE g == [f EXCEPT ![z] = x]
<1>1. g = [y \in DOMAIN f |-> IF y = z THEN x ELSE f[y]]
  OBVIOUS
<1>2. DOMAIN g = DOMAIN f /\ \A y \in DOMAIN f : g[y] = IF y = z THEN x ELSE f[y]
  BY <1>1
<1>3. IsFcn(g)
  BY <1>1 DEF IsFcn
<1>4. g["regs"] = IF z = "regs" THEN x ELSE f["regs"]
  BY <1>2 DEF Framed
<1> HIDE DEF g
<1>5. g.regs = IF z = "regs" THEN x ELSE f.regs
  BY <1>4
<1>6. Framed(g)
  BY <1>2, <1>3, <1>5 DEF Framed
<1> QED
  BY <1>6 DEF g

LEMMA WriteFramed ==
  ASSUME NEW f, Framed(f), NEW d, NEW v
  PROVE  Framed(Write(f, d, v))
<1> DEFINE x == [f.regs EXCEPT ![d] = v]
<1>1. IsFcn(x)
  BY DEF IsFcn
<1>2. Write(f, d, v) = [f EXCEPT !["regs"] = x]
  BY DEF Write
<1> HIDE DEF x
<1>3. Framed([f EXCEPT !["regs"] = x])
  BY <1>1, PutFramed
<1> QED
  BY <1>2, <1>3

LEMMA NopKeepsFrame ==
  ASSUME NEW i, IsNop(i), NEW f, Framed(f)
  PROVE  Effect(i, f) = f /\ EndedBy(i, f) = "" /\ ~Taken(i, f)
<1>1. i[1] = "MOVE" /\ i[2] = i[3]
  BY DEF IsNop
<1>2. ~("MOVE" \in JumpOps) /\ ~("MOVE" \in ForOps) /\ ~("MOVE" \in ReturnOps)
  BY DEF JumpOps, ImmJumps, RegJumps, NoneJumps, ForOps, ReturnOps
<1>3. Effect(i, f) = Write(f, i[2], f.regs[i[2]])
  <2>1. Effect(i, f) = Write(f, i[2], ValueOf(i, f.regs))
    BY <1>1, <1>2 DEF Effect, CallOps
  <2>2. ValueOf(i, f.regs) = f.regs[i[3]]
    BY <1>1, Zenon DEF ValueOf, ArithOps, ImmOps, CmpOps
  <2> QED
    BY <1>1, <2>1, <2>2
<1> DEFINE a == i[2]
<1>4. [f.regs EXCEPT ![a] = f.regs[a]] = f.regs
  BY DEF Framed, IsFcn
<1>5. Write(f, a, f.regs[a]) = [f EXCEPT !.regs = f.regs]
  BY <1>4, Zenon DEF Write
<1>6. [f EXCEPT !.regs = f.regs] = f
  BY DEF Framed, IsFcn
<1>7. EndedBy(i, f) = "" /\ ~Taken(i, f)
  BY <1>1, <1>2 DEF EndedBy, Taken, JumpOps, ForOps
<1> QED
  BY <1>3, <1>5, <1>6, <1>7

LEMMA EffectFramed ==
  ASSUME NEW i, NEW f, Framed(f)
  PROVE  Framed(Effect(i, f))
<1> DEFINE r == f.regs
           a == i[2]
<1>1. ASSUME NEW x PROVE /\ Framed([f EXCEPT !.iters = x])
                         /\ Framed([f EXCEPT !.args = x])
                         /\ Framed([f EXCEPT !.value = x])
  BY PutFramed
<1>2. ASSUME NEW g, Framed(g), NEW x PROVE /\ Framed([g EXCEPT !.iters = x])
                                           /\ Framed([g EXCEPT !.out = x])
                                           /\ Framed([g EXCEPT !.args = x])
  BY <1>2, PutFramed
<1>3. Framed(IterNext(f, a))
  <2> DEFINE x == Num(Head(f.iters).index)
             g == Write(f, a, x)
  <2>1. Framed(g)
    BY WriteFramed
  <2>2. \/ IterNext(f, a) = f
        \/ \E it : IterNext(f, a) = [g EXCEPT !.iters = it]
        \/ IterNext(f, a) = [f EXCEPT !.iters = Tail(f.iters)]
    BY Zenon DEF IterNext
  <2> HIDE DEF g
  <2>3. \A it : Framed([g EXCEPT !.iters = it])
    <3> TAKE it
    <3> QED
      BY <1>2, <2>1
  <2>4. Framed([f EXCEPT !.iters = Tail(f.iters)])
    BY <1>1
  <2> QED
    BY <2>2, <2>3, <2>4, Zenon
<1>4. Framed(Called(i, f))
  <2>1. ASSUME NEW v, NEW o
        PROVE  Framed([Write(f, a, v) EXCEPT !.out = o])
    <3> DEFINE g == Write(f, a, v)
    <3>1. Framed(g)
      BY WriteFramed
    <3> HIDE DEF g
    <3>2. Framed([g EXCEPT !.out = o])
      BY <1>2, <3>1
    <3> QED
      BY <3>2 DEF g
  <2>2. CASE i[1] = "CALL_BUILTIN"
    <3> DEFINE o == Append(Write(f, a, None).out, <<"out", f.args>>)
               g == [Write(f, a, None) EXCEPT !.out = o]
    <3>1. Called(i, f) = [g EXCEPT !.args = <<>>]
      BY <2>2, Zenon DEF Called
    <3>2. Framed(g)
      BY <2>1
    <3> HIDE DEF g
    <3> QED
      BY <1>2, <3>1, <3>2
  <2>3. CASE i[1] # "CALL_BUILTIN"
    <3> DEFINE list == IF i[1] = "CALL_1" THEN <<r[i[4]]>> ELSE <<r[i[4]], r[i[4] + 1]>>
               o == Append(Write(f, a, CallResult(list)).out, <<"call", list>>)
    <3>1. Called(i, f) = CallUser(f, a, list)
      BY <2>3, Zenon DEF Called
    <3> HIDE DEF list
    <3>2. CallUser(f, a, list) = [Write(f, a, CallResult(list)) EXCEPT !.out = o]
      BY Zenon DEF CallUser
    <3> HIDE DEF o
    <3> QED
      BY <2>1, <3>1, <3>2
  <2> QED
    BY <2>2, <2>3
<1>5. Framed(Write(f, a, ValueOf(i, r)))
  BY WriteFramed
<1>6. \/ Effect(i, f) = f \/ Effect(i, f) = IterNext(f, a) \/ Effect(i, f) = Called(i, f)
      \/ \E x : \/ Effect(i, f) = [f EXCEPT !.iters = x]
               \/ Effect(i, f) = [f EXCEPT !.args = x]
               \/ Effect(i, f) = [f EXCEPT !.value = x]
      \/ Effect(i, f) = Write(f, a, ValueOf(i, r))
  BY Zenon DEF Effect
<1> QED
  BY <1>1, <1>3, <1>4, <1>5, <1>6, Zenon
-------------------------------------------------------------------------------
(* One run keeping up with another.                                         *)

\* rel relates pcs of c to pcs of d: at related pcs both are past their end,
\* or c has an instruction d lacks, which leads to a pc still related to d's,
\* or both have the same instruction, and lead to related pcs wherever it goes.
KeepsUp(c, d, rel) ==
  \A p, q : <<p, q>> \in rel =>
    \/ ~InCode(c, p) /\ ~InCode(d, q)
    \/ InCode(c, p) /\ IsNop(c[p + 1]) /\ <<p + 1, q>> \in rel
    \/ InCode(c, p) /\ c[p + 1][1] = "JUMP" /\ <<c[p + 1][2], q>> \in rel
    \/ /\ InCode(c, p) /\ InCode(d, q) /\ SameBut(c[p + 1], d[q + 1])
       /\ <<p + 1, q + 1>> \in rel
       /\ \A s \in PcSlots(c[p + 1]) : <<c[p + 1][s], d[q + 1][s]>> \in rel

Match(a, b, rel) == /\ Framed(a.frame) /\ b.frame = a.frame /\ b.end = a.end
                    /\ a.end = "" => <<a.pc, b.pc>> \in rel

LEMMA JumpOnly ==
  ASSUME NEW i, i[1] = "JUMP", NEW f
  PROVE  Effect(i, f) = f /\ EndedBy(i, f) = "" /\ NextPc(i, 0, f) = i[2] /\ Taken(i, f)
<1>1. i[1] \in JumpOps /\ ~(i[1] \in ForOps) /\ ~(i[1] \in ReturnOps)
  BY DEF JumpOps, ForOps, ReturnOps
<1>2. Effect(i, f) = f /\ EndedBy(i, f) = ""
  BY <1>1 DEF Effect, EndedBy
<1>3. Taken(i, f)
  BY Zenon DEF Taken, RegJumps, ImmJumps
<1>4. Target(i) = i[2]
  BY <1>1 DEF Target
<1> QED
  BY <1>2, <1>3, <1>4 DEF NextPc

LEMMA InCodeDomain ==
  ASSUME NEW c \in Seq(Instruction), NEW p, InCode(c, p)
  PROVE  p \in Nat /\ p + 1 \in 1 .. Len(c) /\ c[p + 1] \in Instruction
<1> DEFINE n == Len(c)
<1>1. n \in Nat /\ p \in 0 .. (n - 1)
  BY DEF InCode
<1>2. \A k \in 1 .. n : c[k] \in Instruction
  OBVIOUS
<1> HIDE DEF n
<1>3. p \in Nat /\ p + 1 \in 1 .. n
  BY <1>1
<1> QED
  BY <1>2, <1>3 DEF n

LEMMA MatchMachine ==
  ASSUME NEW p, NEW e, NEW f, Framed(f), NEW rel, NEW b, b.frame = f, b.end = e,
         e = "" => <<p, b.pc>> \in rel
  PROVE  Match([pc |-> p, end |-> e, frame |-> f], b, rel)
<1> DEFINE a == [pc |-> p, end |-> e, frame |-> f]
<1>1. a.pc = p /\ a.end = e /\ a.frame = f
  BY Zenon
<1> HIDE DEF a
<1>2. Match(a, b, rel)
  BY <1>1 DEF Match
<1> QED
  BY <1>2 DEF a

\* A step of c is matched by none or by one of d.
LEMMA MatchStep ==
  ASSUME NEW c \in Seq(Instruction), NEW d \in Seq(Instruction), NEW rel, KeepsUp(c, d, rel),
         NEW a, NEW b, Match(a, b, rel)
  PROVE  Match(Advance(c, a), b, rel) \/ Match(Advance(c, a), Advance(d, b), rel)
<1>1. CASE ~(a.end = "" /\ InCode(c, a.pc))
  <2>1. Advance(c, a) = a
    BY <1>1 DEF Advance
  <2> QED
    BY <2>1
<1>2. CASE a.end = "" /\ InCode(c, a.pc)
  <2> DEFINE i == c[a.pc + 1]
             f == a.frame
  <2>1. <<a.pc, b.pc>> \in rel /\ Framed(f) /\ b.frame = f /\ b.end = ""
    BY <1>2 DEF Match
  <2>2. Advance(c, a) = [pc |-> NextPc(i, a.pc, f), end |-> EndedBy(i, f), frame |-> Effect(i, f)]
    BY <1>2 DEF Advance, Step
  <2>3. i \in Instruction
    BY <1>2, InCodeDomain
  <2>4. CASE IsNop(i) /\ <<a.pc + 1, b.pc>> \in rel
    <3>1. Effect(i, f) = f /\ EndedBy(i, f) = "" /\ NextPc(i, a.pc, f) = a.pc + 1
      BY <2>1, <2>4, NopKeepsFrame DEF NextPc
    <3>2. Advance(c, a) = [pc |-> a.pc + 1, end |-> "", frame |-> f]
      BY <2>2, <3>1
    <3> QED
      BY <2>1, <2>4, <3>2, MatchMachine
  <2>5. CASE i[1] = "JUMP" /\ <<i[2], b.pc>> \in rel
    <3>1. Effect(i, f) = f /\ EndedBy(i, f) = "" /\ Taken(i, f)
      BY <2>5, JumpOnly
    <3>2. ~(i[1] \in ForOps)
      BY <2>5 DEF ForOps
    <3>3. Advance(c, a) = [pc |-> i[2], end |-> "", frame |-> f]
      BY <2>2, <3>1, <3>2 DEF NextPc, Target
    <3> QED
      BY <2>1, <2>5, <3>3, MatchMachine
  <2>6. ASSUME InCode(d, b.pc), SameBut(i, d[b.pc + 1]), <<a.pc + 1, b.pc + 1>> \in rel,
               \A s \in PcSlots(i) : <<i[s], d[b.pc + 1][s]>> \in rel
        PROVE  Match(Advance(c, a), Advance(d, b), rel)
    <3> DEFINE j == d[b.pc + 1]
    <3>1. j \in Instruction
      BY <2>6, InCodeDomain
    <3>2. Advance(d, b) = [pc |-> NextPc(j, b.pc, f), end |-> EndedBy(j, f), frame |-> Effect(j, f)]
      BY <2>1, <2>6 DEF Advance, Step
    <3> HIDE DEF i, j, f
    <3>3. /\ Effect(j, f) = Effect(i, f) /\ EndedBy(j, f) = EndedBy(i, f)
          /\ Taken(j, f) <=> Taken(i, f)
          /\ Taken(i, f) => \E s \in PcSlots(i) : Target(i) = i[s] /\ Target(j) = j[s]
      BY <2>3, <2>6, <3>1, Alike DEF i, j
    <3>4. <<NextPc(i, a.pc, f), NextPc(j, b.pc, f)>> \in rel
      <4>1. CASE Taken(i, f)
        <5>1. PICK s \in PcSlots(i) : Target(i) = i[s] /\ Target(j) = j[s]
          BY <3>3, <4>1
        <5>2. <<i[s], j[s]>> \in rel
          BY <2>6, <5>1 DEF j
        <5> QED
          BY <3>3, <4>1, <5>1, <5>2 DEF NextPc
      <4>2. CASE ~Taken(i, f)
        BY <2>6, <3>3, <4>2 DEF NextPc
      <4> QED
        BY <4>1, <4>2
    <3>5. Framed(Effect(i, f))
      BY <2>1, EffectFramed
    <3> DEFINE e == EndedBy(i, f)
               g == Effect(i, f)
               y == Advance(d, b)
    <3>6. y.pc = NextPc(j, b.pc, f) /\ y.end = e /\ y.frame = g
      BY <3>2, <3>3
    <3> HIDE DEF e, g, y
    <3>7. Match([pc |-> NextPc(i, a.pc, f), end |-> e, frame |-> g], y, rel)
      BY <3>4, <3>5, <3>6, MatchMachine DEF g
    <3> QED
      BY <2>2, <3>7 DEF e, g, y, i, f
  <2> QED
    BY <1>2, <2>1, <2>4, <2>5, <2>6 DEF KeepsUp
<1> QED
  BY <1>1, <1>2

\* Whatever d does before c runs out of fuel, c does.
SameRun(c, d, p, q, regs, fuel) ==
  Run(c, p, regs, fuel).end # "out of fuel" => Run(d, q, regs, fuel) = Run(c, p, regs, fuel)

LEMMA Simulation ==
  ASSUME NEW c \in Seq(Instruction), NEW d \in Seq(Instruction), NEW rel, KeepsUp(c, d, rel),
         NEW p, NEW q, <<p, q>> \in rel, NEW regs, IsFcn(regs), NEW fuel \in Nat
  PROVE  SameRun(c, d, p, q, regs, fuel)
<1> DEFINE a0 == Start(p, regs)
           b0 == Start(q, regs)
<1> HIDE DEF a0, b0
<1>a. PICK a : IsRun(a, c, a0, fuel)
  BY RunExists
<1>b. PICK b : IsRun(b, d, b0, fuel)
  BY RunExists
<1>1. /\ a[0] = a0 /\ After(c, a0, fuel) = a[fuel]
      /\ \A n \in 1 .. fuel : a[n] = Advance(c, a[n - 1])
  BY <1>a DEF IsRun
<1>2. /\ b[0] = b0 /\ After(d, b0, fuel) = b[fuel]
      /\ \A n \in 1 .. fuel : b[n] = Advance(d, b[n - 1])
  BY <1>b DEF IsRun
<1>3. Match(a0, b0, rel)
  BY DEF Match, Start, Framed, IsFcn, a0, b0
<1> DEFINE T == {n \in Nat : n <= fuel => \E k \in 0 .. n : Match(a[n], b[k], rel)}
<1>4. \A n \in Nat : n \in T
  <2>1. 0 \in T
    BY <1>1, <1>2, <1>3
  <2>2. ASSUME NEW n \in Nat, n \in T, n + 1 <= fuel
        PROVE  \E k \in 0 .. n + 1 : Match(a[n + 1], b[k], rel)
    <3>1. PICK k \in 0 .. n : Match(a[n], b[k], rel)
      BY <2>2
    <3>2. n + 1 \in 1 .. fuel /\ (n + 1) - 1 = n
      BY <2>2
    <3>3. k + 1 \in 1 .. fuel /\ (k + 1) - 1 = k /\ k \in 0 .. n + 1 /\ k + 1 \in 0 .. n + 1
      BY <2>2
    <3>4. a[n + 1] = Advance(c, a[n])
      BY <1>1, <3>2
    <3>5. b[k + 1] = Advance(d, b[k])
      BY <1>2, <3>3
    <3>6. Match(Advance(c, a[n]), b[k], rel) \/ Match(Advance(c, a[n]), Advance(d, b[k]), rel)
      BY <3>1, MatchStep
    <3> QED
      BY <3>3, <3>4, <3>5, <3>6
  <2>3. \A n \in Nat : n \in T => n + 1 \in T
    BY <2>2
  <2> HIDE DEF T
  <2> QED
    BY <2>1, <2>3, AllNaturals
<1>5. PICK k \in 0 .. fuel : Match(a[fuel], b[k], rel)
  BY <1>4
<1> DEFINE x == a[fuel]
           y == b[k]
<1>6. SUFFICES ASSUME Run(c, p, regs, fuel).end # "out of fuel"
               PROVE  Run(d, q, regs, fuel) = Run(c, p, regs, fuel)
  BY DEF SameRun
<1>7. Run(c, p, regs, fuel) = [out |-> x.frame.out, end |-> Ending(c, x), value |-> x.frame.value]
  BY <1>1 DEF Run, a0
<1> HIDE DEF x, y
<1>8. ~(x.end = "" /\ InCode(c, x.pc))
  <2> DEFINE e == Ending(c, x)
             o == [out |-> x.frame.out, end |-> e, value |-> x.frame.value]
  <2>0. o.end = e
    BY Zenon
  <2> HIDE DEF o, e
  <2>1. e # "out of fuel"
    BY <1>6, <1>7, <2>0, Zenon DEF o, e
  <2> QED
    BY <2>1 DEF Ending, e
<1>9. Match(x, y, rel)
  BY <1>5 DEF x, y
<1>10. y.end = x.end /\ y.frame = x.frame /\ ~(y.end = "" /\ InCode(d, y.pc))
  <2>1. y.end = x.end /\ y.frame = x.frame
    BY <1>9 DEF Match
  <2>2. CASE x.end = ""
    <3>1. <<x.pc, y.pc>> \in rel /\ ~InCode(c, x.pc)
      BY <1>8, <1>9, <2>2 DEF Match
    <3>2. ~InCode(d, y.pc)
      BY <3>1 DEF KeepsUp
    <3> QED
      BY <2>1, <3>2
  <2> QED
    BY <2>1, <2>2
<1>11. Ending(d, y) = Ending(c, x)
  BY <1>8, <1>10 DEF Ending
<1> DEFINE H == {n \in Nat : k + n <= fuel => b[k + n] = y}
<1>12. \A n \in Nat : n \in H
  <2>1. 0 \in H
    BY DEF y
  <2>2. ASSUME NEW n \in Nat, n \in H, k + (n + 1) <= fuel PROVE b[k + (n + 1)] = y
    <3>1. k + (n + 1) \in 1 .. fuel /\ (k + (n + 1)) - 1 = k + n /\ k + n <= fuel
      BY <2>2
    <3>2. b[k + (n + 1)] = Advance(d, b[k + n])
      BY <1>2, <3>1
    <3>3. b[k + n] = y
      BY <2>2, <3>1
    <3>4. Advance(d, y) = y
      BY <1>10 DEF Advance
    <3> QED
      BY <3>2, <3>3, <3>4
  <2>3. \A n \in Nat : n \in H => n + 1 \in H
    BY <2>2
  <2> HIDE DEF H
  <2> QED
    BY <2>1, <2>3, AllNaturals
<1>13. b[fuel] = y
  <2>1. fuel - k \in Nat /\ k + (fuel - k) = fuel
    OBVIOUS
  <2>2. fuel - k \in H
    BY <1>12, <2>1
  <2> QED
    BY <2>1, <2>2
<1>14. Run(d, q, regs, fuel) = [out |-> y.frame.out, end |-> Ending(d, y), value |-> y.frame.value]
  BY <1>2, <1>13 DEF Run, b0
<1> QED
  BY <1>7, <1>10, <1>11, <1>14
-------------------------------------------------------------------------------
(* Threading.                                                               *)

\* A function defined by recursion up to k exists.
IsIterate(f, S, m, k, G) == /\ f \in [0 .. k -> S] /\ f[0] = m
                            /\ \A n \in 1 .. k : f[n] = G[<<n, f[n - 1]>>]

LEMMA Iterates ==
  ASSUME NEW S, NEW m \in S, NEW k \in Nat, NEW G \in [Nat \X S -> S]
  PROVE  \E f : IsIterate(f, S, m, k, G)
<1> DEFINE Is(f, h) == IsIterate(f, S, m, h, G)
           T == {h \in Nat : \E f : Is(f, h)}
<1>1. 0 \in T
  <2> DEFINE f == [n \in 0 .. 0 |-> m]
  <2>1. Is(f, 0)
    BY DEF IsIterate
  <2> HIDE DEF Is
  <2> QED
    BY <2>1
<1>2. ASSUME NEW h \in Nat, h \in T PROVE h + 1 \in T
  <2>1. PICK old : Is(old, h)
    BY <1>2
  <2> DEFINE v == G[<<h + 1, old[h]>>]
             f == [n \in 0 .. h + 1 |-> IF n = h + 1 THEN v ELSE old[n]]
  <2>2. old[h] \in S /\ v \in S
    BY <2>1 DEF IsIterate
  <2> HIDE DEF v
  <2>3. f \in [0 .. h + 1 -> S] /\ f[0] = m
    BY <2>1, <2>2 DEF IsIterate
  <2>4. \A n \in 1 .. h + 1 : f[n] = G[<<n, f[n - 1]>>]
    <3> TAKE n \in 1 .. h + 1
    <3>1. n - 1 \in 0 .. h + 1 /\ n - 1 # h + 1 /\ n \in 0 .. h + 1
      OBVIOUS
    <3>2. f[n - 1] = old[n - 1]
      BY <3>1
    <3>3. CASE n = h + 1
      <4>1. n - 1 = h /\ f[n] = v
        BY <3>3
      <4> QED
        BY <3>2, <3>3, <4>1 DEF v
    <3>4. CASE n # h + 1
      <4>1. n \in 1 .. h /\ f[n] = old[n]
        BY <3>4
      <4>2. old[n] = G[<<n, old[n - 1]>>]
        BY <2>1, <4>1 DEF IsIterate
      <4> QED
        BY <3>2, <4>1, <4>2
    <3> QED
      BY <3>3, <3>4
  <2> HIDE DEF f
  <2>5. Is(f, h + 1)
    BY <2>3, <2>4 DEF IsIterate
  <2> HIDE DEF Is
  <2> QED
    BY <2>5
<1>3. \A h \in Nat : h \in T
  <2> HIDE DEF T
  <2> QED
    BY <1>1, <1>2, AllNaturals
<1> QED
  BY <1>3

\* A path of JUMPs.
Path(c, to, n) == /\ to \in [0 .. n -> 0 .. Len(c)]
                  /\ \A k \in 1 .. n : to[k] = Hop(c, to[k - 1])

LEMMA HopInChunk ==
  ASSUME NEW c \in Chunk, NEW p \in 0 .. Len(c)
  PROVE  /\ Hop(c, p) \in 0 .. Len(c)
         /\ Hop(c, p) # p => InCode(c, p) /\ c[p + 1][1] = "JUMP" /\ Hop(c, p) = c[p + 1][2]
<1>1. CASE InCode(c, p) /\ c[p + 1][1] = "JUMP" /\ c[p + 1][2] # 0
  <2>1. Hop(c, p) = c[p + 1][2]
    BY <1>1 DEF Hop
  <2>2. p + 1 \in 1 .. Len(c) /\ DOMAIN c = 1 .. Len(c)
    BY <1>1, InCodeDomain DEF Chunk
  <2>3. PcSlots(c[p + 1]) = {2}
    BY <1>1 DEF PcSlots, JumpOps
  <2>4. c[p + 1][2] \in 0 .. Len(c)
    BY <2>2, <2>3 DEF Chunk
  <2> QED
    BY <1>1, <2>1, <2>4
<1>2. CASE ~(InCode(c, p) /\ c[p + 1][1] = "JUMP" /\ c[p + 1][2] # 0)
  BY <1>2 DEF Hop
<1> QED
  BY <1>1, <1>2

LEMMA FollowPath ==
  ASSUME NEW c \in Chunk, NEW p \in 0 .. Len(c), NEW hops \in Nat
  PROVE  \E to : Path(c, to, hops) /\ to[0] = p /\ to[hops] = FollowJumps(c, p, hops)
<1> DEFINE S == 0 .. Len(c)
           Is(f) == f = [n \in 0 .. hops |-> IF n = 0 THEN p ELSE Hop(c, f[n - 1])]
           G == [x \in Nat \X S |-> Hop(c, x[2])]
           R == CHOOSE f : Is(f)
<1>1. G \in [Nat \X S -> S]
  BY HopInChunk
<1>2. \A n \in Nat, q \in S : G[<<n, q>>] = Hop(c, q)
  OBVIOUS
<1> HIDE DEF G
<1>3. PICK f : IsIterate(f, S, p, hops, G)
  <2>1. p \in S
    OBVIOUS
  <2> HIDE DEF S
  <2> QED
    BY <1>1, <2>1, Iterates
<1>4. Is(f)
  <2>1. \A n \in 0 .. hops : f[n] = IF n = 0 THEN p ELSE Hop(c, f[n - 1])
    <3> TAKE n \in 0 .. hops
    <3>1. CASE n = 0
      BY <1>3, <3>1 DEF IsIterate
    <3>2. CASE n # 0
      <4>1. n \in 1 .. hops /\ n - 1 \in 0 .. hops /\ n \in Nat
        BY <3>2
      <4>2. f[n - 1] \in S
        BY <1>3, <4>1 DEF IsIterate
      <4> QED
        BY <1>2, <1>3, <3>2, <4>1, <4>2 DEF IsIterate
    <3> QED
      BY <3>1, <3>2
  <2>2. f = [n \in 0 .. hops |-> f[n]]
    BY <1>3 DEF IsIterate
  <2> QED
    BY <2>1, <2>2
<1>5. Is(R)
  <2> HIDE DEF Is
  <2> QED
    BY <1>4
<1>6. FollowJumps(c, p, hops) = R[hops]
  BY DEF FollowJumps
<1> HIDE DEF R
<1>7. R[0] = p /\ \A n \in 1 .. hops : R[n] = Hop(c, R[n - 1])
  BY <1>5
<1>8. \A n \in Nat : n <= hops => R[n] \in S
  <2> DEFINE T == {n \in Nat : n <= hops => R[n] \in S}
  <2>1. 0 \in T
    BY <1>7
  <2>2. ASSUME NEW n \in Nat, n \in T PROVE n + 1 \in T
    <3>1. ASSUME n + 1 <= hops PROVE R[n + 1] \in S
      <4>1. n + 1 \in 1 .. hops /\ (n + 1) - 1 = n /\ n <= hops
        BY <3>1
      <4>2. R[n + 1] = Hop(c, R[n])
        BY <1>7, <4>1
      <4>3. R[n] \in S
        BY <2>2, <4>1
      <4> QED
        BY <4>2, <4>3, HopInChunk
    <3> QED
      BY <3>1
  <2> HIDE DEF T
  <2>3. \A n \in Nat : n \in T
    BY <2>1, <2>2, AllNaturals
  <2> QED
    BY <2>3 DEF T
<1>9. R \in [0 .. hops -> S]
  BY <1>5, <1>8
<1> QED
  BY <1>6, <1>7, <1>9 DEF Path

\* q is where JUMPs lead from p.
Leads(c) == {pq \in (0 .. Len(c)) \X (0 .. Len(c)) :
               \E n \in Nat : \E to : Path(c, to, n) /\ to[0] = pq[1] /\ to[n] = pq[2]}

LEMMA LeadsNowhere ==
  ASSUME NEW c \in Chunk, NEW p \in 0 .. Len(c)
  PROVE  <<p, p>> \in Leads(c)
<1> DEFINE to == [k \in 0 .. 0 |-> p]
<1>1. Path(c, to, 0) /\ to[0] = p
  BY DEF Path
<1> HIDE DEF to
<1> QED
  BY <1>1 DEF Leads

LEMMA LeadsFollow ==
  ASSUME NEW c \in Chunk, NEW p \in 0 .. Len(c), NEW hops \in Nat
  PROVE  <<p, FollowJumps(c, p, hops)>> \in Leads(c)
<1>1. PICK to : Path(c, to, hops) /\ to[0] = p /\ to[hops] = FollowJumps(c, p, hops)
  BY FollowPath
<1>2. to[hops] \in 0 .. Len(c)
  BY <1>1 DEF Path
<1> QED
  BY <1>1, <1>2 DEF Leads

\* A path that leads away begins with a JUMP.
LEMMA LeadsAway ==
  ASSUME NEW c \in Chunk, NEW p, NEW q, <<p, q>> \in Leads(c), p # q
  PROVE  InCode(c, p) /\ c[p + 1][1] = "JUMP" /\ <<c[p + 1][2], q>> \in Leads(c)
<1> DEFINE Is(n) == \E to : Path(c, to, n) /\ to[0] = p /\ to[n] = q
           T == {n \in Nat : Is(n)}
<1>1. p \in 0 .. Len(c) /\ q \in 0 .. Len(c) /\ T # {}
  BY DEF Leads
<1>2. PICK n \in T : \A k \in T : n <= k
  <2>1. T \subseteq Nat
    OBVIOUS
  <2> HIDE DEF T
  <2> QED
    BY <1>1, <2>1, Least
<1>3. PICK to : Path(c, to, n) /\ to[0] = p /\ to[n] = q
  BY <1>2
<1>4. n \in Nat /\ n # 0 /\ n - 1 \in Nat
  BY <1>2, <1>3
<1> DEFINE off == [k \in 0 .. n - 1 |-> to[k + 1]]
<1>5. Path(c, off, n - 1) /\ off[0] = to[1] /\ off[n - 1] = q
  <2>1. \A k \in 0 .. n - 1 : off[k] = to[k + 1] /\ k + 1 \in 0 .. n /\ off[k] \in 0 .. Len(c)
    <3>1. \A k \in 0 .. n : to[k] \in 0 .. Len(c)
      BY <1>3 DEF Path
    <3> TAKE k \in 0 .. n - 1
    <3>2. k + 1 \in 0 .. n
      BY <1>4
    <3> QED
      BY <3>1, <3>2
  <2>2. off \in [0 .. n - 1 -> 0 .. Len(c)]
    BY <2>1
  <2>3. off[0] = to[1] /\ off[n - 1] = q
    <3>1. 0 \in 0 .. n - 1 /\ n - 1 \in 0 .. n - 1 /\ (n - 1) + 1 = n /\ 0 + 1 = 1
      BY <1>4
    <3> QED
      BY <1>3, <2>1, <3>1
  <2>4. \A k \in 1 .. n - 1 : off[k] = Hop(c, off[k - 1])
    <3> TAKE k \in 1 .. n - 1
    <3>1. k \in 0 .. n - 1 /\ k - 1 \in 0 .. n - 1 /\ k + 1 \in 1 .. n /\ (k + 1) - 1 = k /\ (k - 1) + 1 = k
      BY <1>4
    <3>2. off[k] = to[k + 1] /\ off[k - 1] = to[k]
      BY <3>1
    <3>3. to[k + 1] = Hop(c, to[(k + 1) - 1])
      BY <1>3, <3>1 DEF Path
    <3> QED
      BY <3>1, <3>2, <3>3
  <2> QED
    BY <2>2, <2>3, <2>4 DEF Path
<1>6. to[1] = Hop(c, p)
  <2>1. 1 \in 1 .. n /\ 1 - 1 = 0
    BY <1>4
  <2> QED
    BY <1>3, <2>1 DEF Path
<1>7. to[1] \in 0 .. Len(c)
  BY <1>1, <1>6, HopInChunk
<1> HIDE DEF off
<1>8. Hop(c, p) # p
  <2> SUFFICES ASSUME Hop(c, p) = p PROVE FALSE
    OBVIOUS
  <2>1. n - 1 \in T
    BY <1>4, <1>5, <1>6
  <2>2. ~(n <= n - 1)
    BY <1>4
  <2> QED
    BY <1>2, <2>1, <2>2
<1>9. <<to[1], q>> \in Leads(c)
  BY <1>1, <1>4, <1>5, <1>7 DEF Leads
<1> QED
  BY <1>1, <1>6, <1>8, <1>9, HopInChunk

\* An instruction with other pcs in it.
LEMMA Retargeted ==
  ASSUME NEW i \in Instruction, NEW t, \A s \in PcSlots(i) : t[s] \in Int,
         NEW j, j = [s \in 1 .. 4 |-> IF s \in PcSlots(i) THEN t[s] ELSE i[s]]
  PROVE  /\ j \in Instruction /\ SameBut(i, j) /\ PcSlots(j) = PcSlots(i)
         /\ \A s \in PcSlots(i) : j[s] = t[s]
<1>1. PcSlots(i) \subseteq {2, 3}
  BY DEF PcSlots
<1>2. \A s \in 1 .. 4 : j[s] = IF s \in PcSlots(i) THEN t[s] ELSE i[s]
  OBVIOUS
<1>3. j[1] = i[1] /\ j[1] \in Opcodes
  BY <1>1, <1>2 DEF Instruction
<1>4. j[2] \in Int /\ j[3] \in Int /\ j[4] \in Int
  BY <1>2 DEF Instruction
<1>5. j = <<j[1], j[2], j[3], j[4]>>
  <2>1. j = [s \in 1 .. 4 |-> j[s]]
    BY <1>2
  <2> QED
    BY <2>1
<1>6. j \in Instruction
  BY <1>3, <1>4, <1>5 DEF Instruction
<1>7. PcSlots(j) = PcSlots(i)
  BY <1>3 DEF PcSlots
<1> QED
  BY <1>1, <1>2, <1>6, <1>7 DEF SameBut

\* One turn of thread_jumps.
LEMMA ThreadedKeepsUp ==
  ASSUME NEW c \in Chunk, NEW at \in 1 .. Len(c)
  PROVE  /\ Threaded(c, at) \in Chunk /\ Len(Threaded(c, at)) = Len(c)
         /\ KeepsUp(c, Threaded(c, at), Leads(c))
<1> DEFINE d == Threaded(c, at)
           i == c[at]
           t == [s \in PcSlots(i) |-> FollowJumps(c, i[s], 32)]
           j == [s \in 1 .. 4 |-> IF s \in PcSlots(i) THEN t[s] ELSE i[s]]
<1>1. c \in Seq(Instruction) /\ DOMAIN c = 1 .. Len(c) /\ i \in Instruction
  BY DEF Chunk
<1>2. \A x \in 1 .. Len(c) : \A s \in PcSlots(c[x]) : c[x][s] \in 0 .. Len(c)
  BY <1>1 DEF Chunk
<1>3. \A s \in PcSlots(i) : t[s] \in 0 .. Len(c) /\ t[s] \in Int /\ <<i[s], t[s]>> \in Leads(c)
  <2> TAKE s \in PcSlots(i)
  <2>1. i[s] \in 0 .. Len(c)
    BY <1>2
  <2>2. <<i[s], t[s]>> \in Leads(c)
    BY <2>1, LeadsFollow
  <2>3. t[s] \in 0 .. Len(c)
    BY <2>2 DEF Leads
  <2> QED
    BY <2>2, <2>3
<1>4. d = [c EXCEPT ![at] = j]
  BY DEF Threaded, Retarget
<1> HIDE DEF t, d
<1>5. /\ j \in Instruction /\ SameBut(i, j) /\ PcSlots(j) = PcSlots(i)
      /\ \A s \in PcSlots(i) : j[s] = t[s]
  <2>1. j = [s \in 1 .. 4 |-> IF s \in PcSlots(i) THEN t[s] ELSE i[s]]
    OBVIOUS
  <2>2. i \in Instruction /\ \A s \in PcSlots(i) : t[s] \in Int
    BY <1>1, <1>3
  <2> HIDE DEF j, i
  <2> QED
    BY <2>1, <2>2, Retargeted
<1> HIDE DEF j
<1>6. /\ d \in Seq(Instruction) /\ Len(d) = Len(c) /\ DOMAIN d = 1 .. Len(c)
      /\ \A x \in 1 .. Len(c) : d[x] = IF x = at THEN j ELSE c[x]
  BY <1>1, <1>4, <1>5
<1> HIDE DEF i
<1>7. \A x \in 1 .. Len(c) : \A s \in PcSlots(c[x]) :
         /\ d[x][s] \in 0 .. Len(c)
         /\ <<c[x][s], d[x][s]>> \in Leads(c)
  <2> TAKE x \in 1 .. Len(c)
  <2> TAKE s \in PcSlots(c[x])
  <2>1. CASE x = at
    BY <1>3, <1>5, <1>6, <2>1 DEF i
  <2>2. CASE x # at
    BY <1>2, <1>6, <2>2, LeadsNowhere
  <2> QED
    BY <2>1, <2>2
<1>8. \A x \in 1 .. Len(c) : SameBut(c[x], d[x]) /\ PcSlots(d[x]) = PcSlots(c[x])
  <2> TAKE x \in 1 .. Len(c)
  <2>1. CASE x = at
    BY <1>5, <1>6, <2>1 DEF i
  <2>2. CASE x # at
    BY <1>6, <2>2 DEF SameBut
  <2> QED
    BY <2>1, <2>2
<1>9. d \in Chunk
  BY <1>6, <1>7, <1>8 DEF Chunk
<1>10. KeepsUp(c, d, Leads(c))
  <2> SUFFICES ASSUME NEW p, NEW q, <<p, q>> \in Leads(c)
               PROVE  \/ ~InCode(c, p) /\ ~InCode(d, q)
                      \/ InCode(c, p) /\ c[p + 1][1] = "JUMP" /\ <<c[p + 1][2], q>> \in Leads(c)
                      \/ /\ InCode(c, p) /\ InCode(d, q) /\ SameBut(c[p + 1], d[q + 1])
                         /\ <<p + 1, q + 1>> \in Leads(c)
                         /\ \A s \in PcSlots(c[p + 1]) : <<c[p + 1][s], d[q + 1][s]>> \in Leads(c)
    BY DEF KeepsUp
  <2>1. CASE p # q
    BY <2>1, LeadsAway
  <2>2. CASE p = q /\ ~InCode(c, p)
    <3>1. ~InCode(d, q)
      BY <1>6, <2>2 DEF InCode
    <3> QED
      BY <2>2, <3>1
  <2>3. CASE p = q /\ InCode(c, p)
    <3>1. p + 1 \in 1 .. Len(c)
      BY <1>1, <2>3, InCodeDomain
    <3>2. InCode(d, q)
      BY <1>6, <2>3 DEF InCode
    <3>3. <<p + 1, p + 1>> \in Leads(c)
      BY <3>1, LeadsNowhere
    <3> QED
      BY <1>7, <1>8, <2>3, <3>1, <3>2, <3>3
  <2> QED
    BY <2>1, <2>2, <2>3
<1> QED
  BY <1>6, <1>9, <1>10 DEF d

\* thread_jumps: every turn keeps the run of the code before it.
LEMMA ThreadJumpsKeepsRun ==
  ASSUME NEW c \in Chunk
  PROVE  /\ ThreadJumps(c) \in Chunk /\ Len(ThreadJumps(c)) = Len(c)
         /\ \A p \in 0 .. Len(c), fuel \in Nat :
              \A regs : IsFcn(regs) => SameRun(c, ThreadJumps(c), p, p, regs, fuel)
<1> DEFINE h == Len(c)
           S == {x \in Chunk : Len(x) = h}
           Is(f) == f = [n \in 0 .. h |-> IF n = 0 THEN c ELSE Threaded(f[n - 1], n)]
           G == [x \in Nat \X S |-> IF x[1] \in 1 .. h THEN Threaded(x[2], x[1]) ELSE x[2]]
           R == CHOOSE f : Is(f)
<1>1. h \in Nat /\ c \in S /\ \A x \in S : x \in Chunk /\ Len(x) = h
  BY DEF Chunk
<1>2. \A x \in S, n \in 1 .. h : Threaded(x, n) \in S /\ KeepsUp(x, Threaded(x, n), Leads(x))
  BY ThreadedKeepsUp
<1> HIDE DEF h, S
<1>3. G \in [Nat \X S -> S]
  BY <1>2
<1>4. \A n \in 1 .. h, x \in S : G[<<n, x>>] = Threaded(x, n)
  BY <1>1
<1> HIDE DEF G
<1>5. PICK f : IsIterate(f, S, c, h, G)
  BY <1>1, <1>3, Iterates
<1>6. Is(f)
  <2>1. \A n \in 0 .. h : f[n] = IF n = 0 THEN c ELSE Threaded(f[n - 1], n)
    <3> TAKE n \in 0 .. h
    <3>1. CASE n = 0
      BY <1>5, <3>1 DEF IsIterate
    <3>2. CASE n # 0
      <4>1. n \in 1 .. h /\ n - 1 \in 0 .. h
        BY <1>1, <3>2
      <4>2. f[n - 1] \in S
        BY <1>5, <4>1 DEF IsIterate
      <4> QED
        BY <1>4, <1>5, <3>2, <4>1, <4>2 DEF IsIterate
    <3> QED
      BY <3>1, <3>2
  <2>2. f = [n \in 0 .. h |-> f[n]]
    BY <1>5 DEF IsIterate
  <2> QED
    BY <2>1, <2>2
<1>7. Is(R)
  <2> HIDE DEF Is
  <2> QED
    BY <1>6
<1>8. ThreadJumps(c) = R[h]
  BY DEF ThreadJumps, h
<1> HIDE DEF R
<1>9. R[0] = c /\ \A n \in 1 .. h : R[n] = Threaded(R[n - 1], n)
  BY <1>1, <1>7
<1> DEFINE Kept(x) == \A p \in 0 .. h, fuel \in Nat : \A regs : IsFcn(regs) => SameRun(c, x, p, p, regs, fuel)
           T == {n \in Nat : n <= h => R[n] \in S /\ Kept(R[n])}
<1>10. 0 \in T
  <2>1. Kept(c)
    BY DEF SameRun
  <2> HIDE DEF Kept
  <2> QED
    BY <1>1, <1>9, <2>1
<1>11. ASSUME NEW n \in Nat, n \in T, n + 1 <= h PROVE R[n + 1] \in S /\ Kept(R[n + 1])
  <2> DEFINE x == R[n]
             y == R[n + 1]
  <2>1. n + 1 \in 1 .. h /\ (n + 1) - 1 = n /\ n <= h
    BY <1>1, <1>11
  <2>2. y = Threaded(x, n + 1)
    BY <1>9, <2>1
  <2>3. x \in S /\ Kept(x)
    BY <1>11, <2>1
  <2> HIDE DEF x, y
  <2>4. y \in S /\ KeepsUp(x, y, Leads(x))
    BY <1>2, <2>1, <2>2, <2>3
  <2>5. x \in Chunk /\ Len(x) = h /\ x \in Seq(Instruction) /\ y \in Seq(Instruction)
    BY <1>1, <2>3, <2>4 DEF Chunk
  <2>6. Kept(y)
    <3> SUFFICES ASSUME NEW p \in 0 .. h, NEW regs, NEW fuel \in Nat, IsFcn(regs)
                 PROVE  SameRun(c, y, p, p, regs, fuel)
      OBVIOUS
    <3>1. <<p, p>> \in Leads(x)
      BY <2>5, LeadsNowhere
    <3>2. SameRun(x, y, p, p, regs, fuel)
      <4> DEFINE rel == Leads(x)
      <4> HIDE DEF rel
      <4> QED
        BY <2>4, <2>5, <3>1, Simulation DEF rel
    <3>3. SameRun(c, x, p, p, regs, fuel)
      BY <2>3
    <3> QED
      BY <3>2, <3>3 DEF SameRun
  <2> QED
    BY <2>4, <2>6 DEF y
<1>12. \A n \in Nat : n \in T
  <2>1. \A n \in Nat : n \in T => n + 1 \in T
    BY <1>11
  <2> HIDE DEF T
  <2> QED
    BY <1>10, <2>1, AllNaturals
<1>13. R[h] \in S /\ Kept(R[h])
  BY <1>1, <1>12
<1> QED
  BY <1>1, <1>8, <1>13 DEF h
-------------------------------------------------------------------------------
(* Compaction.                                                              *)

\* The kept pcs below p.
Below(gone, p) == (0 .. (p - 1)) \ gone

LEMMA BelowFinite ==
  ASSUME NEW gone, NEW p \in Nat
  PROVE  IsFiniteSet(Below(gone, p)) /\ NewPc(gone, p) = Cardinality(Below(gone, p))
         /\ NewPc(gone, p) \in Nat
<1>1. IsFiniteSet(0 .. (p - 1))
  BY FS_Interval
<1>2. IsFiniteSet(Below(gone, p))
  BY <1>1, FS_Subset DEF Below
<1> QED
  BY <1>2, FS_CardinalityType DEF NewPc, Below

LEMMA NewPcNext ==
  ASSUME NEW gone, NEW p \in Nat
  PROVE  NewPc(gone, p + 1) = IF p \in gone THEN NewPc(gone, p) ELSE NewPc(gone, p) + 1
<1>1. CASE p \in gone
  <2>1. Below(gone, p + 1) = Below(gone, p)
    BY <1>1 DEF Below
  <2> QED
    BY <1>1, <2>1, BelowFinite
<1>2. CASE p \notin gone
  <2>1. Below(gone, p + 1) = Below(gone, p) \cup {p} /\ p \notin Below(gone, p)
    BY <1>2 DEF Below
  <2>2. Cardinality(Below(gone, p) \cup {p}) = Cardinality(Below(gone, p)) + 1
    BY <2>1, BelowFinite, FS_AddElement
  <2> QED
    BY <1>2, <2>1, <2>2, BelowFinite
<1> QED
  BY <1>1, <1>2

LEMMA NewPcMonotone ==
  ASSUME NEW gone, NEW p \in Nat, NEW q \in Nat, p <= q
  PROVE  NewPc(gone, p) <= NewPc(gone, q)
<1>1. Below(gone, p) \subseteq Below(gone, q)
  BY DEF Below
<1> QED
  BY <1>1, BelowFinite, FS_Subset

\* Every pc below the last new one is that of a kept instruction, of one only.
LEMMA NewPcOfOne ==
  ASSUME NEW gone, NEW h \in Nat
  PROVE  /\ \A p, q \in (0 .. (h - 1)) \ gone : NewPc(gone, p) = NewPc(gone, q) => p = q
         /\ \A p \in (0 .. (h - 1)) \ gone : NewPc(gone, p) < NewPc(gone, h)
         /\ \A n \in Nat : n < NewPc(gone, h) => \E p \in (0 .. (h - 1)) \ gone : NewPc(gone, p) = n
<1>1. ASSUME NEW p \in (0 .. (h - 1)) \ gone, NEW q \in Nat, p < q
      PROVE  NewPc(gone, p) < NewPc(gone, q)
  <2>1. p \in Nat /\ p + 1 <= q /\ p \notin gone /\ p + 1 \in Nat
    BY <1>1
  <2>2. NewPc(gone, p + 1) = NewPc(gone, p) + 1
    BY <2>1, NewPcNext
  <2>3. NewPc(gone, p + 1) <= NewPc(gone, q)
    BY <2>1, NewPcMonotone
  <2>4. NewPc(gone, p) \in Nat /\ NewPc(gone, q) \in Nat
    BY <2>1, BelowFinite
  <2> QED
    BY <2>2, <2>3, <2>4
<1>2. ASSUME NEW p \in (0 .. (h - 1)) \ gone, NEW q \in (0 .. (h - 1)) \ gone,
             NewPc(gone, p) = NewPc(gone, q)
      PROVE  p = q
  <2>1. p \in Nat /\ q \in Nat
    OBVIOUS
  <2>2. NewPc(gone, p) \in Nat /\ NewPc(gone, q) \in Nat
    BY <2>1, BelowFinite
  <2>3. ~(p < q) /\ ~(q < p)
    BY <1>1, <1>2, <2>1, <2>2
  <2> QED
    BY <2>1, <2>3
<1>3. ASSUME NEW n \in Nat, n < NewPc(gone, h)
      PROVE  \E p \in (0 .. (h - 1)) \ gone : NewPc(gone, p) = n
  <2> DEFINE T == {k \in Nat : n < NewPc(gone, k)}
  <2>1. PICK k \in T : \A x \in T : k <= x
    <3>1. T \subseteq Nat /\ h \in T
      BY <1>3
    <3> HIDE DEF T
    <3> QED
      BY <3>1, Least
  <2>2. k \in Nat /\ n < NewPc(gone, k) /\ k <= h
    BY <1>3, <2>1
  <2>3. k # 0
    <3>1. Below(gone, 0) = {}
      BY DEF Below
    <3>2. NewPc(gone, 0) = 0
      BY <3>1, BelowFinite, FS_EmptySet
    <3> QED
      BY <2>2, <3>2
  <2> DEFINE p == k - 1
  <2>4. p \in Nat /\ p + 1 = k /\ ~(k <= p) /\ p \in 0 .. (h - 1)
    BY <2>2, <2>3
  <2> HIDE DEF p
  <2>5. ~(n < NewPc(gone, p)) /\ NewPc(gone, p) \in Nat
    BY <2>1, <2>4, BelowFinite
  <2>6. NewPc(gone, p + 1) = IF p \in gone THEN NewPc(gone, p) ELSE NewPc(gone, p) + 1
    BY <2>4, NewPcNext
  <2>7. p \notin gone /\ NewPc(gone, p) = n
    BY <2>2, <2>4, <2>5, <2>6
  <2> QED
    BY <2>4, <2>7
<1>4. ASSUME NEW p \in (0 .. (h - 1)) \ gone PROVE NewPc(gone, p) < NewPc(gone, h)
  BY <1>1
<1> QED
  BY <1>2, <1>3, <1>4

\* Nothing is dropped but NOPs and JUMPs over dropped instructions.
Idle(c, gone) ==
  \A p \in gone :
    /\ p \in Pcs(c)
    /\ \/ IsNop(c[p + 1])
       \/ /\ c[p + 1][1] = "JUMP" /\ c[p + 1][2] \in 0 .. Len(c)
          /\ p < c[p + 1][2] /\ \A k \in p .. (c[p + 1][2] - 1) : k \in gone

LEMMA ThinnedIdle ==
  ASSUME NEW c \in Chunk, NEW gone, Idle(c, gone)
  PROVE  Idle(c, Thinned(c, gone))
<1> DEFINE new == Thinned(c, gone)
<1>1. gone \subseteq new /\ new = gone \cup Pointless(c, gone)
  BY DEF Thinned
<1> HIDE DEF new
<1>2. ASSUME NEW p \in gone
      PROVE  /\ p \in Pcs(c)
             /\ \/ IsNop(c[p + 1])
                \/ /\ c[p + 1][1] = "JUMP" /\ c[p + 1][2] \in 0 .. Len(c)
                   /\ p < c[p + 1][2] /\ \A k \in p .. (c[p + 1][2] - 1) : k \in new
  BY <1>1 DEF Idle
<1>3. ASSUME NEW p \in Pointless(c, gone)
      PROVE  /\ p \in Pcs(c) /\ c[p + 1][1] = "JUMP" /\ c[p + 1][2] \in 0 .. Len(c)
             /\ p < c[p + 1][2] /\ \A k \in p .. (c[p + 1][2] - 1) : k \in new
  <2> DEFINE t == c[p + 1][2]
  <2>1. /\ p \in Pcs(c) /\ p \notin gone /\ c[p + 1][1] = "JUMP" /\ t \in 0 .. Len(c)
        /\ NewPc(gone, t) = NewPc(gone, p) + 1 /\ p \in new
    BY <1>1 DEF Pointless
  <2> HIDE DEF t
  <2>2. p \in Nat /\ t \in Nat
    BY <2>1 DEF Pcs
  <2>3. NewPc(gone, p) \in Nat /\ NewPc(gone, t) \in Nat
    BY <2>2, BelowFinite
  <2>4. p < t
    <3>1. ~(t <= p)
      BY <2>1, <2>2, <2>3, NewPcMonotone
    <3> QED
      BY <2>2, <3>1
  <2>5. ASSUME NEW k \in p .. (t - 1) PROVE k \in new
    <3> SUFFICES ASSUME k # p, k \notin gone PROVE FALSE
      BY <1>1, <2>1
    <3>1. k \in Nat /\ p + 1 \in Nat /\ k + 1 \in Nat /\ p + 1 <= k /\ k + 1 <= t
      BY <2>2
    <3>2. NewPc(gone, p + 1) = NewPc(gone, p) + 1 /\ NewPc(gone, k + 1) = NewPc(gone, k) + 1
      BY <2>1, <2>2, <3>1, NewPcNext
    <3>3. NewPc(gone, p + 1) <= NewPc(gone, k) /\ NewPc(gone, k + 1) <= NewPc(gone, t)
      BY <2>2, <3>1, NewPcMonotone
    <3>4. NewPc(gone, k) \in Nat
      BY <3>1, BelowFinite
    <3> QED
      BY <2>1, <2>3, <3>2, <3>3, <3>4
  <2> QED
    BY <2>1, <2>4, <2>5 DEF t
<1>4. Idle(c, new)
  BY <1>1, <1>2, <1>3 DEF Idle
<1> QED
  BY <1>4 DEF new

Moves(c, gone) == {<<p, NewPc(gone, p)>> : p \in 0 .. Len(c)}

\* The code without the dropped instructions.
LEMMA WithoutKeepsUp ==
  ASSUME NEW c \in Chunk, NEW gone, Idle(c, gone)
  PROVE  /\ Without(c, gone) \in Chunk /\ Len(Without(c, gone)) = NewPc(gone, Len(c))
         /\ KeepsUp(c, Without(c, gone), Moves(c, gone))
<1> DEFINE h == Len(c)
           d == Without(c, gone)
           kept == Pcs(c) \ gone
           l == NewPc(gone, h)
           Old(at) == CHOOSE pc \in kept : NewPc(gone, pc) = at - 1
           T(i) == [s \in PcSlots(i) |-> NewTarget(c, gone, i[s])]
           J(i) == [s \in 1 .. 4 |-> IF s \in PcSlots(i) THEN T(i)[s] ELSE i[s]]
<1>1. h \in Nat /\ c \in Seq(Instruction) /\ DOMAIN c = 1 .. h /\ kept = (0 .. (h - 1)) \ gone
  BY DEF Chunk, Pcs
<1>2. l \in Nat
  BY <1>1, BelowFinite
<1>0. \A x, y \in kept : NewPc(gone, x) = NewPc(gone, y) => x = y
  BY <1>1, NewPcOfOne
<1>3. \A at \in 1 .. l : Old(at) \in kept /\ NewPc(gone, Old(at)) = at - 1
  <2> TAKE at \in 1 .. l
  <2>1. at - 1 \in Nat /\ at - 1 < l
    BY <1>2
  <2>2. \E pc \in kept : NewPc(gone, pc) = at - 1
    BY <1>1, <2>1, NewPcOfOne
  <2> QED
    BY <2>2
<1>4. \A p \in kept : NewPc(gone, p) + 1 \in 1 .. l /\ Old(NewPc(gone, p) + 1) = p
  <2> TAKE p \in kept
  <2> DEFINE q == NewPc(gone, p)
  <2>1. p \in Nat /\ q \in Nat /\ q < l
    BY <1>1, NewPcOfOne, BelowFinite
  <2>2. q + 1 \in 1 .. l /\ (q + 1) - 1 = q
    BY <1>2, <2>1
  <2>3. Old(q + 1) \in kept /\ NewPc(gone, Old(q + 1)) = q
    BY <1>3, <2>2
  <2> DEFINE o == Old(q + 1)
  <2> HIDE DEF o, kept
  <2>4. o = p
    BY <1>0, <2>3 DEF o
  <2> QED
    BY <2>2, <2>4 DEF o
<1>5. \A p \in kept : c[p + 1] \in Instruction /\ p \in 0 .. h /\ p + 1 \in 0 .. h /\ p + 1 \in 1 .. h
  BY <1>1
<1>6. \A t \in 0 .. h : NewTarget(c, gone, t) = NewPc(gone, t) /\ NewPc(gone, t) \in 0 .. l
  <2> TAKE t \in 0 .. h
  <2>1. NewPc(gone, t) \in Nat /\ NewPc(gone, t) <= l
    BY <1>1, BelowFinite, NewPcMonotone
  <2> QED
    BY <1>2, <2>1 DEF NewTarget
<1>7. \A p \in kept : \A s \in PcSlots(c[p + 1]) :
         /\ c[p + 1][s] \in 0 .. h /\ T(c[p + 1])[s] = NewPc(gone, c[p + 1][s])
         /\ T(c[p + 1])[s] \in 0 .. l
  <2> TAKE p \in kept
  <2> TAKE s \in PcSlots(c[p + 1])
  <2>1. c[p + 1][s] \in 0 .. h
    BY <1>1, <1>5 DEF Chunk
  <2>2. T(c[p + 1])[s] = NewTarget(c, gone, c[p + 1][s])
    OBVIOUS
  <2> QED
    BY <1>6, <2>1, <2>2
<1>8. d = [at \in 1 .. l |-> J(c[Old(at) + 1])]
  BY DEF Without, Retarget
<1> HIDE DEF T, Old, h, l, kept
<1>9. \A p \in kept : /\ J(c[p + 1]) \in Instruction /\ SameBut(c[p + 1], J(c[p + 1]))
                      /\ PcSlots(J(c[p + 1])) = PcSlots(c[p + 1])
                      /\ \A s \in PcSlots(c[p + 1]) : J(c[p + 1])[s] = T(c[p + 1])[s]
  <2> TAKE p \in kept
  <2> DEFINE i == c[p + 1]
             t == T(i)
             j == J(i)
  <2>1. i \in Instruction
    BY <1>5
  <2>2. \A s \in PcSlots(i) : t[s] \in Int
    BY <1>2, <1>7
  <2>3. j = [s \in 1 .. 4 |-> IF s \in PcSlots(i) THEN t[s] ELSE i[s]]
    OBVIOUS
  <2> HIDE DEF i, t, j
  <2>4. /\ j \in Instruction /\ SameBut(i, j) /\ PcSlots(j) = PcSlots(i)
        /\ \A s \in PcSlots(i) : j[s] = t[s]
    BY <2>1, <2>2, <2>3, Retargeted
  <2> QED
    BY <2>4 DEF i, t, j
<1> HIDE DEF J, d
<1>10. d \in Seq(Instruction) /\ Len(d) = l /\ DOMAIN d = 1 .. l
  <2>1. \A at \in 1 .. l : J(c[Old(at) + 1]) \in Instruction
    BY <1>3, <1>9
  <2> QED
    BY <1>2, <1>8, <2>1
<1>11. d \in Chunk
  <2>1. ASSUME NEW at \in 1 .. l, NEW s \in PcSlots(d[at]) PROVE d[at][s] \in 0 .. l
    <3> DEFINE p == Old(at)
    <3>1. p \in kept /\ d[at] = J(c[p + 1])
      BY <1>3, <1>8
    <3> HIDE DEF p
    <3>2. s \in PcSlots(c[p + 1])
      BY <1>9, <2>1, <3>1
    <3> QED
      BY <1>7, <1>9, <3>1, <3>2
  <2> QED
    BY <1>10, <2>1 DEF Chunk
<1>12. \A p \in kept : d[NewPc(gone, p) + 1] = J(c[p + 1])
  BY <1>4, <1>8
<1>13. KeepsUp(c, d, Moves(c, gone))
  <2> SUFFICES ASSUME NEW p \in 0 .. h, NEW q, q = NewPc(gone, p)
               PROVE  \/ ~InCode(c, p) /\ ~InCode(d, q)
                      \/ InCode(c, p) /\ IsNop(c[p + 1]) /\ <<p + 1, q>> \in Moves(c, gone)
                      \/ InCode(c, p) /\ c[p + 1][1] = "JUMP" /\ <<c[p + 1][2], q>> \in Moves(c, gone)
                      \/ /\ InCode(c, p) /\ InCode(d, q) /\ SameBut(c[p + 1], d[q + 1])
                         /\ <<p + 1, q + 1>> \in Moves(c, gone)
                         /\ \A s \in PcSlots(c[p + 1]) : <<c[p + 1][s], d[q + 1][s]>> \in Moves(c, gone)
    BY DEF KeepsUp, Moves, h
  <2>1. \A x \in 0 .. h : <<x, NewPc(gone, x)>> \in Moves(c, gone)
    BY DEF Moves, h
  <2>2. InCode(c, p) <=> p \in 0 .. (h - 1)
    BY DEF InCode, h
  <2>3. InCode(d, q) <=> q \in 0 .. (l - 1)
    BY <1>10 DEF InCode
  <2>4. p \in Nat /\ NewPc(gone, p + 1) = IF p \in gone THEN NewPc(gone, p) ELSE NewPc(gone, p) + 1
    BY <1>1, NewPcNext
  <2>5. CASE p = h
    <3>1. q = l
      BY <2>5 DEF l
    <3> QED
      BY <1>1, <1>2, <2>2, <2>3, <2>5, <3>1
  <2>6. CASE p # h /\ p \in gone
    <3>1. InCode(c, p) /\ p + 1 \in 0 .. h
      BY <1>1, <2>2, <2>6
    <3>2. CASE IsNop(c[p + 1])
      BY <2>1, <2>4, <2>6, <3>1, <3>2
    <3>3. CASE /\ c[p + 1][1] = "JUMP" /\ c[p + 1][2] \in 0 .. Len(c)
               /\ p < c[p + 1][2] /\ \A k \in p .. (c[p + 1][2] - 1) : k \in gone
      <4> DEFINE t == c[p + 1][2]
      <4>1. t \in 0 .. h /\ p < t /\ \A k \in p .. (t - 1) : k \in gone
        BY <3>3 DEF h
      <4> HIDE DEF t
      <4>2. Below(gone, t) = Below(gone, p)
        BY <1>1, <4>1, <2>4 DEF Below
      <4>3. NewPc(gone, t) = q
        BY <1>1, <2>4, <4>1, <4>2, BelowFinite
      <4> QED
        BY <2>1, <3>1, <3>3, <4>1, <4>3 DEF t
    <3> QED
      BY <2>6, <3>2, <3>3 DEF Idle
  <2>7. CASE p # h /\ p \notin gone
    <3>1. p \in kept /\ InCode(c, p) /\ p + 1 \in 0 .. h
      BY <1>1, <2>2, <2>7
    <3>2. q \in 0 .. (l - 1)
      <4>1. q + 1 \in 1 .. l /\ q \in Nat
        BY <1>4, <2>4, <3>1, BelowFinite
      <4> QED
        BY <1>2, <4>1
    <3>3. d[q + 1] = J(c[p + 1])
      BY <1>12, <3>1
    <3>4. \A s \in PcSlots(c[p + 1]) : <<c[p + 1][s], d[q + 1][s]>> \in Moves(c, gone)
      BY <1>7, <1>9, <2>1, <3>1, <3>3
    <3>5. <<p + 1, q + 1>> \in Moves(c, gone)
      BY <2>1, <2>4, <2>7, <3>1
    <3> QED
      BY <1>9, <2>3, <3>1, <3>2, <3>3, <3>4, <3>5
  <2> QED
    BY <2>5, <2>6, <2>7
<1> QED
  BY <1>10, <1>11, <1>13 DEF d, l, h

\* What compact_bytecode drops.
LEMMA DroppedIdle ==
  ASSUME NEW c \in Chunk
  PROVE  Idle(c, Dropped(c))
<1> DEFINE k == Cardinality(PlainJumps(c))
           nops == {pc \in Pcs(c) : IsNop(c[pc + 1])}
           S == {gone \in SUBSET Pcs(c) : Idle(c, gone)}
           Is(f) == f = [n \in 0 .. k |-> IF n = 0 THEN nops ELSE Thinned(c, f[n - 1])]
           G == [x \in Nat \X S |-> Thinned(c, x[2])]
           R == CHOOSE f : Is(f)
<1>1. k \in Nat
  <2>1. Len(c) \in Nat /\ PlainJumps(c) \subseteq 0 .. (Len(c) - 1)
    BY DEF Chunk, PlainJumps, Pcs
  <2>2. IsFiniteSet(0 .. (Len(c) - 1))
    BY <2>1, FS_Interval
  <2> QED
    BY <2>1, <2>2, FS_Subset, FS_CardinalityType
<1>2. nops \in S
  BY DEF Idle
<1>3. \A gone \in S : Thinned(c, gone) \in S
  BY ThinnedIdle DEF Thinned, Pointless
<1> HIDE DEF k, nops, S
<1>4. G \in [Nat \X S -> S]
  BY <1>3
<1>5. \A n \in Nat, gone \in S : G[<<n, gone>>] = Thinned(c, gone)
  OBVIOUS
<1> HIDE DEF G
<1>6. PICK f : IsIterate(f, S, nops, k, G)
  BY <1>1, <1>2, <1>4, Iterates
<1>7. Is(f)
  <2>1. \A n \in 0 .. k : f[n] = IF n = 0 THEN nops ELSE Thinned(c, f[n - 1])
    <3> TAKE n \in 0 .. k
    <3>1. CASE n = 0
      BY <1>6, <3>1 DEF IsIterate
    <3>2. CASE n # 0
      <4>1. n \in 1 .. k /\ n - 1 \in 0 .. k /\ n \in Nat
        BY <1>1, <3>2
      <4>2. f[n - 1] \in S
        BY <1>6, <4>1 DEF IsIterate
      <4> QED
        BY <1>5, <1>6, <3>2, <4>1, <4>2 DEF IsIterate
    <3> QED
      BY <3>1, <3>2
  <2>2. f = [n \in 0 .. k |-> f[n]]
    BY <1>6 DEF IsIterate
  <2> QED
    BY <2>1, <2>2
<1>8. Is(R)
  <2> HIDE DEF Is
  <2> QED
    BY <1>7
<1>9. Dropped(c) = R[k]
  BY DEF Dropped, k, nops
<1> HIDE DEF R
<1>10. R[0] = nops /\ \A n \in 1 .. k : R[n] = Thinned(c, R[n - 1])
  BY <1>1, <1>8
<1> DEFINE T == {n \in Nat : n <= k => R[n] \in S}
<1>11. \A n \in Nat : n \in T
  <2>1. 0 \in T
    BY <1>2, <1>10
  <2>2. ASSUME NEW n \in Nat, n \in T, n + 1 <= k PROVE R[n + 1] \in S
    <3>1. n + 1 \in 1 .. k /\ (n + 1) - 1 = n /\ n <= k
      BY <1>1, <2>2
    <3> QED
      BY <1>3, <1>10, <2>2, <3>1
  <2>3. \A n \in Nat : n \in T => n + 1 \in T
    BY <2>2
  <2> HIDE DEF T
  <2> QED
    BY <2>1, <2>3, AllNaturals
<1>12. R[k] \in S
  BY <1>1, <1>11
<1> QED
  BY <1>9, <1>12 DEF S

LEMMA CompactKeepsRun ==
  ASSUME NEW c \in Chunk
  PROVE  /\ Compact(c) \in Chunk
         /\ \A p \in 0 .. Len(c) : NewTarget(c, Dropped(c), p) \in 0 .. Len(Compact(c))
         /\ \A p \in 0 .. Len(c), fuel \in Nat :
              \A regs : IsFcn(regs) => SameRun(c, Compact(c), p, NewTarget(c, Dropped(c), p), regs, fuel)
<1> DEFINE gone == Dropped(c)
           d == Compact(c)
           rel == Moves(c, gone)
<1>1. Idle(c, gone)
  BY DroppedIdle
<1>2. d \in Chunk /\ Len(d) = NewPc(gone, Len(c)) /\ KeepsUp(c, d, rel)
  <2> HIDE DEF gone
  <2>1. d = Without(c, gone)
    BY DEF Compact, gone
  <2> QED
    BY <1>1, <2>1, WithoutKeepsUp
<1>3. c \in Seq(Instruction) /\ d \in Seq(Instruction) /\ Len(c) \in Nat
  BY <1>2 DEF Chunk
<1>4. \A p \in 0 .. Len(c) : NewTarget(c, gone, p) = NewPc(gone, p) /\ <<p, NewPc(gone, p)>> \in rel
  BY DEF NewTarget, Moves
<1> HIDE DEF gone, d, rel
<1>5. ASSUME NEW p \in 0 .. Len(c) PROVE NewTarget(c, gone, p) \in 0 .. Len(d)
  <2>1. p \in Nat /\ p <= Len(c)
    BY <1>3
  <2>2. NewPc(gone, p) \in Nat /\ NewPc(gone, p) <= NewPc(gone, Len(c)) /\ NewPc(gone, Len(c)) \in Nat
    BY <1>3, <2>1, NewPcMonotone, BelowFinite
  <2> DEFINE n == Len(d)
             q == NewTarget(c, gone, p)
  <2>3. n = NewPc(gone, Len(c)) /\ q = NewPc(gone, p)
    BY <1>2, <1>4
  <2> HIDE DEF n, q
  <2>4. q \in 0 .. n
    BY <2>2, <2>3
  <2> QED
    BY <2>4 DEF n, q
<1>6. ASSUME NEW p \in 0 .. Len(c), NEW fuel \in Nat, NEW regs, IsFcn(regs)
      PROVE  SameRun(c, d, p, NewTarget(c, gone, p), regs, fuel)
  <2> DEFINE q == NewTarget(c, gone, p)
  <2>1. <<p, q>> \in rel
    BY <1>4
  <2> HIDE DEF q
  <2>2. SameRun(c, d, p, q, regs, fuel)
    BY <1>2, <1>3, <1>6, <2>1, Simulation
  <2> QED
    BY <2>2 DEF q
<1> QED
  BY <1>2, <1>5, <1>6 DEF gone, d
-------------------------------------------------------------------------------
(* The passes.                                                              *)

ChunkType == code \in Chunk /\ entry \in 0 .. Len(code)

LEMMA PassesStay ==
  ASSUME ChunkType, [Thread \/ Shrink]_chunk
  PROVE  ChunkType'
<1>1. CASE Thread
  <2>1. code' = ThreadJumps(code) /\ entry' = entry
    BY <1>1 DEF Thread
  <2>2. ThreadJumps(code) \in Chunk /\ Len(ThreadJumps(code)) = Len(code)
    BY ThreadJumpsKeepsRun DEF ChunkType
  <2> QED
    BY <2>1, <2>2 DEF ChunkType
<1>2. CASE Shrink
  <2>1. code' = Compact(code) /\ entry' = NewTarget(code, Dropped(code), entry)
    BY <1>2 DEF Shrink
  <2>2. Compact(code) \in Chunk /\ NewTarget(code, Dropped(code), entry) \in 0 .. Len(Compact(code))
    BY CompactKeepsRun DEF ChunkType
  <2> QED
    BY <2>1, <2>2 DEF ChunkType
<1>3. CASE UNCHANGED chunk
  BY <1>3 DEF chunk, ChunkType
<1> QED
  BY <1>1, <1>2, <1>3

\* The passes take code whose jumps stay in it to such code, and the address
\* of the function to one of the new code.
THEOREM PassesTypes == PassesSpec => []ChunkType
<1>1. PassesInit => ChunkType
  BY DEF PassesInit, ChunkType
<1>2. ChunkType /\ [Thread \/ Shrink]_chunk => ChunkType'
  BY PassesStay
<1> QED
  BY <1>1, <1>2, PTL DEF PassesSpec

\* thread_jumps and compact_bytecode change nothing anyone can see, of any
\* code at all, for any registers and any bound on a run.
THEOREM PassesCorrect == PassesSpec => PassesKeepTheRun
<1> DEFINE Keeps == stage \notin {"source", "compact"} => \A regs \in Frames :
                      LET before == Run(code, entry, regs, StepFuel)
                      IN  before.end # "out of fuel" => Run(code', entry', regs, StepFuel) = before
<1>1. \A regs \in Frames : IsFcn(regs)
  BY RunAssumption DEF IsFcn
<1>2. StepFuel \in Nat
  BY RunAssumption
<1>3. ChunkType /\ [Thread \/ Shrink]_chunk => [Keeps]_chunk
  <2> SUFFICES ASSUME ChunkType, Thread \/ Shrink, NEW regs \in Frames
               PROVE  SameRun(code, code', entry, entry', regs, StepFuel)
    BY DEF SameRun
  <2>1. code \in Chunk /\ entry \in 0 .. Len(code) /\ IsFcn(regs)
    BY <1>1 DEF ChunkType
  <2>2. CASE Thread
    <3>1. code' = ThreadJumps(code) /\ entry' = entry
      BY <2>2 DEF Thread
    <3>2. SameRun(code, ThreadJumps(code), entry, entry, regs, StepFuel)
      BY <1>2, <2>1, ThreadJumpsKeepsRun
    <3> QED
      BY <3>1, <3>2
  <2>3. CASE Shrink
    <3>1. code' = Compact(code) /\ entry' = NewTarget(code, Dropped(code), entry)
      BY <2>3 DEF Shrink
    <3>2. SameRun(code, Compact(code), entry, NewTarget(code, Dropped(code), entry), regs, StepFuel)
      BY <1>2, <2>1, CompactKeepsRun
    <3> QED
      BY <3>1, <3>2
  <2> QED
    BY <2>2, <2>3
<1>4. PassesSpec => [][Keeps]_chunk
  <2> HIDE DEF Keeps
  <2> QED
    BY <1>3, PassesTypes, PTL DEF PassesSpec
<1> QED
  BY <1>4 DEF PassesKeepTheRun

-------------------------------------------------------------------------------
(* What the instructions do, one fact for each kind.                        *)

LEMMA ValueFacts ==
  ASSUME NEW i, NEW r
  PROVE  /\ i[1] = "MOVE" => ValueOf(i, r) = r[i[3]]
         /\ i[1] \in {"LOAD_NUM_IMM", "LOAD_NUM"} => ValueOf(i, r) = Num(i[3])
         /\ i[1] = "LOAD_BOOL" => ValueOf(i, r) = Bool(i[3] = 1)
         /\ i[1] = "LOAD_NONE" => ValueOf(i, r) = None
         /\ i[1] \in ArithOps => ValueOf(i, r) = Arith(i[1], r[i[3]], r[i[4]])
         /\ i[1] \in ImmOps => ValueOf(i, r) = Arith(i[1], r[i[3]], Num(i[4]))
         /\ i[1] = "NEG" => ValueOf(i, r) = Arith("SUB", Num(0), r[i[3]])
         /\ i[1] = "INC" => ValueOf(i, r) = Arith("ADD", r[i[2]], Num(1))
         /\ i[1] = "DEC" => ValueOf(i, r) = Arith("SUB", r[i[2]], Num(1))
         /\ i[1] \in CmpOps => ValueOf(i, r) = Bool(Holds(CmpRel(i[1]), r[i[3]], r[i[4]]))
<1>1. ASSUME i[1] = "MOVE" PROVE ValueOf(i, r) = r[i[3]]
  <2>1. /\ ~(i[1] \in {"LOAD_NUM_IMM", "LOAD_NUM"}) /\ i[1] # "LOAD_BOOL" /\ i[1] # "LOAD_NONE" /\ ~(i[1] \in ArithOps)
        /\ ~(i[1] \in ImmOps) /\ i[1] # "NEG" /\ i[1] # "INC" /\ i[1] # "DEC" /\ ~(i[1] \in CmpOps)
    BY <1>1 DEF ArithOps, ImmOps, CmpOps
  <2> QED
    BY <1>1, <2>1, Zenon DEF ValueOf
<1>2. ASSUME i[1] \in {"LOAD_NUM_IMM", "LOAD_NUM"} PROVE ValueOf(i, r) = Num(i[3])
  <2>1. /\ i[1] # "MOVE" /\ i[1] # "LOAD_BOOL" /\ i[1] # "LOAD_NONE" /\ ~(i[1] \in ArithOps)
        /\ ~(i[1] \in ImmOps) /\ i[1] # "NEG" /\ i[1] # "INC" /\ i[1] # "DEC" /\ ~(i[1] \in CmpOps)
    BY <1>2 DEF ArithOps, ImmOps, CmpOps
  <2> QED
    BY <1>2, <2>1, Zenon DEF ValueOf
<1>3. ASSUME i[1] = "LOAD_BOOL" PROVE ValueOf(i, r) = Bool(i[3] = 1)
  <2>1. /\ i[1] # "MOVE" /\ ~(i[1] \in {"LOAD_NUM_IMM", "LOAD_NUM"}) /\ i[1] # "LOAD_NONE" /\ ~(i[1] \in ArithOps)
        /\ ~(i[1] \in ImmOps) /\ i[1] # "NEG" /\ i[1] # "INC" /\ i[1] # "DEC" /\ ~(i[1] \in CmpOps)
    BY <1>3 DEF ArithOps, ImmOps, CmpOps
  <2> QED
    BY <1>3, <2>1, Zenon DEF ValueOf
<1>4. ASSUME i[1] = "LOAD_NONE" PROVE ValueOf(i, r) = None
  <2>1. /\ i[1] # "MOVE" /\ ~(i[1] \in {"LOAD_NUM_IMM", "LOAD_NUM"}) /\ i[1] # "LOAD_BOOL" /\ ~(i[1] \in ArithOps)
        /\ ~(i[1] \in ImmOps) /\ i[1] # "NEG" /\ i[1] # "INC" /\ i[1] # "DEC" /\ ~(i[1] \in CmpOps)
    BY <1>4 DEF ArithOps, ImmOps, CmpOps
  <2> QED
    BY <1>4, <2>1, Zenon DEF ValueOf
<1>5. ASSUME i[1] \in ArithOps PROVE ValueOf(i, r) = Arith(i[1], r[i[3]], r[i[4]])
  <2>1. /\ i[1] # "MOVE" /\ ~(i[1] \in {"LOAD_NUM_IMM", "LOAD_NUM"}) /\ i[1] # "LOAD_BOOL" /\ i[1] # "LOAD_NONE"
        /\ ~(i[1] \in ImmOps) /\ i[1] # "NEG" /\ i[1] # "INC" /\ i[1] # "DEC" /\ ~(i[1] \in CmpOps)
    BY <1>5 DEF ArithOps, ImmOps, CmpOps
  <2> QED
    BY <1>5, <2>1, Zenon DEF ValueOf
<1>6. ASSUME i[1] \in ImmOps PROVE ValueOf(i, r) = Arith(i[1], r[i[3]], Num(i[4]))
  <2>1. /\ i[1] # "MOVE" /\ ~(i[1] \in {"LOAD_NUM_IMM", "LOAD_NUM"}) /\ i[1] # "LOAD_BOOL" /\ i[1] # "LOAD_NONE"
        /\ ~(i[1] \in ArithOps) /\ i[1] # "NEG" /\ i[1] # "INC" /\ i[1] # "DEC" /\ ~(i[1] \in CmpOps)
    BY <1>6 DEF ArithOps, ImmOps, CmpOps
  <2> QED
    BY <1>6, <2>1, Zenon DEF ValueOf
<1>7. ASSUME i[1] = "NEG" PROVE ValueOf(i, r) = Arith("SUB", Num(0), r[i[3]])
  <2>1. /\ i[1] # "MOVE" /\ ~(i[1] \in {"LOAD_NUM_IMM", "LOAD_NUM"}) /\ i[1] # "LOAD_BOOL" /\ i[1] # "LOAD_NONE"
        /\ ~(i[1] \in ArithOps) /\ ~(i[1] \in ImmOps) /\ i[1] # "INC" /\ i[1] # "DEC" /\ ~(i[1] \in CmpOps)
    BY <1>7 DEF ArithOps, ImmOps, CmpOps
  <2> QED
    BY <1>7, <2>1, Zenon DEF ValueOf
<1>8. ASSUME i[1] = "INC" PROVE ValueOf(i, r) = Arith("ADD", r[i[2]], Num(1))
  <2>1. /\ i[1] # "MOVE" /\ ~(i[1] \in {"LOAD_NUM_IMM", "LOAD_NUM"}) /\ i[1] # "LOAD_BOOL" /\ i[1] # "LOAD_NONE"
        /\ ~(i[1] \in ArithOps) /\ ~(i[1] \in ImmOps) /\ i[1] # "NEG" /\ i[1] # "DEC" /\ ~(i[1] \in CmpOps)
    BY <1>8 DEF ArithOps, ImmOps, CmpOps
  <2> QED
    BY <1>8, <2>1, Zenon DEF ValueOf
<1>9. ASSUME i[1] = "DEC" PROVE ValueOf(i, r) = Arith("SUB", r[i[2]], Num(1))
  <2>1. /\ i[1] # "MOVE" /\ ~(i[1] \in {"LOAD_NUM_IMM", "LOAD_NUM"}) /\ i[1] # "LOAD_BOOL" /\ i[1] # "LOAD_NONE"
        /\ ~(i[1] \in ArithOps) /\ ~(i[1] \in ImmOps) /\ i[1] # "NEG" /\ i[1] # "INC" /\ ~(i[1] \in CmpOps)
    BY <1>9 DEF ArithOps, ImmOps, CmpOps
  <2> QED
    BY <1>9, <2>1, Zenon DEF ValueOf
<1>10. ASSUME i[1] \in CmpOps PROVE ValueOf(i, r) = Bool(Holds(CmpRel(i[1]), r[i[3]], r[i[4]]))
  <2>1. /\ i[1] # "MOVE" /\ ~(i[1] \in {"LOAD_NUM_IMM", "LOAD_NUM"}) /\ i[1] # "LOAD_BOOL" /\ i[1] # "LOAD_NONE"
        /\ ~(i[1] \in ArithOps) /\ ~(i[1] \in ImmOps) /\ i[1] # "NEG" /\ i[1] # "INC" /\ i[1] # "DEC"
    BY <1>10 DEF ArithOps, ImmOps, CmpOps
  <2> QED
    BY <1>10, <2>1, Zenon DEF ValueOf
<1> QED
  BY <1>1, <1>2, <1>3, <1>4, <1>5, <1>6, <1>7, <1>8, <1>9, <1>10

LEMMA ReadsFacts ==
  ASSUME NEW i, NEW r
  PROVE  /\ i[1] \in LoadOps \cup {"CALL_BUILTIN", "RETURN_NONE"} => ~ReadsReg(i, r)
         /\ i[1] \in {"MOVE", "NEG"} \cup ArithOps \cup CmpOps => (ReadsReg(i, r) <=> r \in {i[3], i[4]})
         /\ i[1] \in ImmOps \cup NoneJumps => (ReadsReg(i, r) <=> i[3] = r)
         /\ i[1] \in {"INC", "DEC"} => (ReadsReg(i, r) <=> i[2] = r)
         /\ i[1] = "CALL_1" => (ReadsReg(i, r) <=> i[4] = r)
         /\ i[1] = "CALL_2" => (ReadsReg(i, r) <=> r \in {i[4], i[4] + 1})
<1> DEFINE P == i[1] \in LoadOps \cup {"CALL_BUILTIN", "RETURN_NONE"}
           Q == i[1] \in {"MOVE", "NEG"} \cup ArithOps \cup CmpOps
           V == i[1] \in ImmOps \cup NoneJumps
           W == i[1] \in {"INC", "DEC", "PUSH_ARG", "RETURN", "RETURN_NUM", "RETURN_BOOL"}
           X == i[1] = "CALL_1"
           Y == i[1] = "CALL_2"
<1>1. /\ P => ~Q /\ ~V /\ ~W /\ ~X /\ ~Y
      /\ Q => ~P /\ ~V /\ ~W /\ ~X /\ ~Y
      /\ V => ~P /\ ~Q /\ ~W /\ ~X /\ ~Y
      /\ W => ~P /\ ~Q /\ ~V /\ ~X /\ ~Y
      /\ X => ~P /\ ~Q /\ ~V /\ ~W /\ ~Y
      /\ Y => ~P /\ ~Q /\ ~V /\ ~W /\ ~X
      /\ i[1] \in {"INC", "DEC"} => W
  BY DEF LoadOps, ArithOps, CmpOps, ImmOps, NoneJumps
<1>2. ReadsReg(i, r) = CASE P -> FALSE
                         [] Q -> r \in {i[3], i[4]}
                         [] V -> i[3] = r
                         [] W -> i[2] = r
                         [] X -> i[4] = r
                         [] Y -> r \in {i[4], i[4] + 1}
                         [] OTHER -> TRUE
  BY Zenon DEF ReadsReg
<1> HIDE DEF P, Q, V, W, X, Y
<1>3. /\ P => ~ReadsReg(i, r)
      /\ Q => (ReadsReg(i, r) <=> r \in {i[3], i[4]})
      /\ V => (ReadsReg(i, r) <=> i[3] = r)
      /\ W => (ReadsReg(i, r) <=> i[2] = r)
      /\ X => (ReadsReg(i, r) <=> i[4] = r)
      /\ Y => (ReadsReg(i, r) <=> r \in {i[4], i[4] + 1})
  <2>1. P => ~ReadsReg(i, r)
    BY <1>1, <1>2, Zenon
  <2>2. Q => (ReadsReg(i, r) <=> r \in {i[3], i[4]})
    BY <1>1, <1>2, Zenon
  <2>3. V => (ReadsReg(i, r) <=> i[3] = r)
    BY <1>1, <1>2, Zenon
  <2>4. W => (ReadsReg(i, r) <=> i[2] = r)
    BY <1>1, <1>2, Zenon
  <2>5. X => (ReadsReg(i, r) <=> i[4] = r)
    BY <1>1, <1>2, Zenon
  <2>6. Y => (ReadsReg(i, r) <=> r \in {i[4], i[4] + 1})
    BY <1>1, <1>2, Zenon
  <2> QED
    BY <2>1, <2>2, <2>3, <2>4, <2>5, <2>6
<1> QED
  BY <1>1, <1>3 DEF P, Q, V, W, X, Y

\* A frame with the registers R.
Value == {None} \cup {Bool(b) : b \in BOOLEAN} \cup {Num(k) : k \in Int}
Is(f, R) == /\ f = [regs |-> f.regs, args |-> f.args, iters |-> f.iters,
                    out |-> f.out, value |-> f.value]
            /\ f.regs \in [R -> Value]

Straight(i, f) == ~Taken(i, f) /\ EndedBy(i, f) = ""

\* What writes its first operand from its other operands.
LEMMA PureFacts ==
  ASSUME NEW i, i[1] \in PureOps, NEW f
  PROVE  Effect(i, f) = Write(f, i[2], ValueOf(i, f.regs)) /\ Straight(i, f)
<1>1. /\ ~(i[1] \in JumpOps) /\ ~(i[1] \in ForOps) /\ ~(i[1] \in CallOps) /\ ~(i[1] \in ReturnOps)
      /\ i[1] # "PUSH_ARG" /\ i[1] # "FOR_INIT" /\ i[1] # "POP_ITER"
  BY DEF PureOps, LoadOps, ArithOps, ImmOps, CmpOps, JumpOps, ImmJumps, RegJumps, NoneJumps,
         ForOps, CallOps, ReturnOps
<1>2. Effect(i, f) = Write(f, i[2], ValueOf(i, f.regs))
  BY <1>1, Zenon DEF Effect
<1>3. EndedBy(i, f) = ""
  BY <1>1 DEF EndedBy
<1>4. ~Taken(i, f)
  BY <1>1 DEF Taken, JumpOps, ImmJumps, RegJumps, NoneJumps, ForOps
<1> QED
  BY <1>2, <1>3, <1>4 DEF Straight

LEMMA CallFacts ==
  ASSUME NEW i, i[1] \in CallOps, NEW f
  PROVE  Effect(i, f) = Called(i, f) /\ Straight(i, f)
<1>1. ~(i[1] \in JumpOps) /\ ~(i[1] \in ForOps) /\ ~(i[1] \in ReturnOps)
  BY DEF CallOps, JumpOps, ImmJumps, RegJumps, NoneJumps, ForOps, ReturnOps
<1>2. Effect(i, f) = Called(i, f)
  BY <1>1, Zenon DEF Effect
<1>3. EndedBy(i, f) = ""
  BY <1>1 DEF EndedBy
<1>4. ~Taken(i, f)
  BY <1>1 DEF Taken, JumpOps, ImmJumps, RegJumps, NoneJumps, ForOps
<1> QED
  BY <1>2, <1>3, <1>4 DEF Straight

LEMMA ReturnFacts ==
  ASSUME NEW i, i[1] \in ReturnOps, NEW f
  PROVE  /\ Effect(i, f) = [f EXCEPT !.value = Returned(i, f.regs)]
         /\ EndedBy(i, f) = "returned" /\ ~Taken(i, f)
<1>1. ~(i[1] \in JumpOps) /\ ~(i[1] \in ForOps) /\ ~(i[1] \in CallOps)
  BY DEF CallOps, JumpOps, ImmJumps, RegJumps, NoneJumps, ForOps, ReturnOps
<1>2. Effect(i, f) = [f EXCEPT !.value = Returned(i, f.regs)]
  BY <1>1, Zenon DEF Effect
<1>3. EndedBy(i, f) = "returned"
  BY DEF EndedBy
<1>4. ~Taken(i, f)
  BY <1>1 DEF Taken, JumpOps, ImmJumps, RegJumps, NoneJumps, ForOps
<1> QED
  BY <1>2, <1>3, <1>4

LEMMA JumpFacts ==
  ASSUME NEW i, i[1] \in JumpOps, NEW f
  PROVE  Effect(i, f) = f /\ EndedBy(i, f) = "" /\ Target(i) = i[2]
<1>1. ~(i[1] \in ReturnOps) /\ ~(i[1] \in ForOps)
  BY DEF JumpOps, ImmJumps, RegJumps, NoneJumps, ForOps, ReturnOps
<1> QED
  BY <1>1 DEF Effect, EndedBy, Target

\* A Write is a write of the registers and of nothing else.
LEMMA WriteForm ==
  ASSUME NEW R, NEW f, Is(f, R), NEW d, NEW v
  PROVE  Write(f, d, v) = [regs |-> [f.regs EXCEPT ![d] = v], args |-> f.args, iters |-> f.iters,
                           out |-> f.out, value |-> f.value]
BY DEF Write, Is

LEMMA WriteRegs ==
  ASSUME NEW R, NEW f, Is(f, R), NEW d, NEW v
  PROVE  Write(f, d, v).regs = [f.regs EXCEPT ![d] = v]
BY DEF Write, Is

LEMMA WriteIs ==
  ASSUME NEW R, NEW f, Is(f, R), NEW d, NEW v \in Value
  PROVE  Is(Write(f, d, v), R)
<1>1. [f.regs EXCEPT ![d] = v] \in [R -> Value]
  BY DEF Is
<1> QED
  BY <1>1, WriteForm DEF Is

LEMMA WriteTwice ==
  ASSUME NEW R, NEW f, Is(f, R), NEW d, NEW v, NEW w
  PROVE  Write(Write(f, d, v), d, w) = Write(f, d, w)
<1> DEFINE g == Write(f, d, v)
<1>1. g = [regs |-> [f.regs EXCEPT ![d] = v], args |-> f.args, iters |-> f.iters,
           out |-> f.out, value |-> f.value]
  BY WriteForm
<1>2. [[f.regs EXCEPT ![d] = v] EXCEPT ![d] = w] = [f.regs EXCEPT ![d] = w]
  BY DEF Is
<1> HIDE DEF g
<1>3. Write(g, d, w) = [regs |-> [f.regs EXCEPT ![d] = w], args |-> f.args, iters |-> f.iters,
                        out |-> f.out, value |-> f.value]
  BY <1>1, <1>2 DEF Write
<1> QED
  BY <1>3, WriteForm DEF g

LEMMA IsFramed ==
  ASSUME NEW R, NEW f, Is(f, R)
  PROVE  Framed(f)
BY DEF Is, Framed, IsFcn

-------------------------------------------------------------------------------
(* Fusion.                                                                  *)

\* The registers an instruction works with are in the frame.
Fits(i, R) == WritesDest(i[1]) => i[2] \in R /\ \A r : ReadsReg(i, r) => r \in R

LEMMA TupleFacts ==
  ASSUME NEW i \in Instruction
  PROVE  /\ i = <<i[1], i[2], i[3], i[4]>> /\ i[1] \in Opcodes
         /\ i[2] \in Int /\ i[3] \in Int /\ i[4] \in Int
         /\ \A x : /\ [i EXCEPT ![2] = x][1] = i[1] /\ [i EXCEPT ![2] = x][2] = x
                   /\ [i EXCEPT ![2] = x][3] = i[3] /\ [i EXCEPT ![2] = x][4] = i[4]
BY DEF Instruction

LEMMA SubstitutedFacts ==
  ASSUME NEW i, NEW a, NEW b, NEW S, NEW j, j = Substituted(i, a, b, S), ~(1 \in S), ~(2 \in S)
  PROVE  /\ j[1] = i[1] /\ j[2] = i[2]
         /\ j[3] = IF 3 \in S /\ i[3] = a THEN b ELSE i[3]
         /\ j[4] = IF 4 \in S /\ i[4] = a THEN b ELSE i[4]
BY DEF Substituted

\* Arguments of a call of a function.
Passed(i, r) == IF i[1] = "CALL_1" THEN <<r[i[4]]>> ELSE <<r[i[4]], r[i[4] + 1]>>

LEMMA BuiltinForm ==
  ASSUME NEW R, NEW f, Is(f, R), NEW i, i[1] = "CALL_BUILTIN"
  PROVE  Effect(i, f) = [regs |-> [f.regs EXCEPT ![i[2]] = None], args |-> <<>>, iters |-> f.iters,
                         out |-> Append(f.out, <<"out", f.args>>), value |-> f.value]
<1> DEFINE g == Write(f, i[2], None)
<1>1. Effect(i, f) = [g EXCEPT !.out = Append(@, <<"out", f.args>>), !.args = <<>>]
  <2>1. Effect(i, f) = Called(i, f)
    BY CallFacts DEF CallOps
  <2> QED
    BY <2>1, Zenon DEF Called
<1>2. g = [regs |-> [f.regs EXCEPT ![i[2]] = None], args |-> f.args, iters |-> f.iters,
           out |-> f.out, value |-> f.value]
  BY WriteForm
<1> HIDE DEF g
<1> QED
  BY <1>1, <1>2

LEMMA UserForm ==
  ASSUME NEW R, NEW f, Is(f, R), NEW i, i[1] \in {"CALL_1", "CALL_2"}
  PROVE  Effect(i, f) = [regs |-> [f.regs EXCEPT ![i[2]] = CallResult(Passed(i, f.regs))],
                         args |-> f.args, iters |-> f.iters,
                         out |-> Append(f.out, <<"call", Passed(i, f.regs)>>), value |-> f.value]
<1> DEFINE s == Passed(i, f.regs)
           v == CallResult(s)
           g == Write(f, i[2], v)
<1>1. Effect(i, f) = Called(i, f)
  BY CallFacts DEF CallOps
<1>2. Called(i, f) = CallUser(f, i[2], s)
  BY Zenon DEF Called, Passed
<1> HIDE DEF s
<1>3. CallUser(f, i[2], s) = [g EXCEPT !.out = Append(@, <<"call", s>>)]
  BY Zenon DEF CallUser
<1>4. g = [regs |-> [f.regs EXCEPT ![i[2]] = v], args |-> f.args, iters |-> f.iters,
           out |-> f.out, value |-> f.value]
  BY WriteForm
<1> HIDE DEF g, v
<1>5. Effect(i, f) = [regs |-> [f.regs EXCEPT ![i[2]] = v], args |-> f.args, iters |-> f.iters,
                      out |-> Append(f.out, <<"call", s>>), value |-> f.value]
  BY <1>1, <1>2, <1>3, <1>4
<1> QED
  BY <1>5, Zenon DEF v, s

\* An instruction writes the same after a write to its own destination, if it
\* reads the same.
LEMMA WriteThenWrite ==
  ASSUME NEW R, NEW f, Is(f, R), NEW d, NEW v, NEW i, NEW j,
         j[1] = i[1], j[2] = d, i[2] = d, WritesDest(i[1]),
         i[1] \in PureOps => ValueOf(j, f.regs) = ValueOf(i, [f.regs EXCEPT ![d] = v]),
         i[1] \in {"CALL_1", "CALL_2"} => Passed(j, f.regs) = Passed(i, [f.regs EXCEPT ![d] = v])
  PROVE  Effect(i, Write(f, d, v)) = Effect(j, f)
<1> DEFINE g == Write(f, d, v)
<1>1. g = [regs |-> [f.regs EXCEPT ![d] = v], args |-> f.args, iters |-> f.iters,
           out |-> f.out, value |-> f.value] /\ g.regs = [f.regs EXCEPT ![d] = v]
  BY WriteForm, WriteRegs
<1>2. ASSUME NEW w PROVE [g.regs EXCEPT ![d] = w] = [f.regs EXCEPT ![d] = w]
  BY <1>1 DEF Is
<1>3. ASSUME NEW w
      PROVE  Write(f, d, w) = [regs |-> [f.regs EXCEPT ![d] = w], args |-> f.args, iters |-> f.iters,
                               out |-> f.out, value |-> f.value]
  BY DEF Write, Is
<1>4. CASE i[1] \in PureOps
  <2>1. Effect(i, g) = Write(g, d, ValueOf(i, g.regs)) /\ Effect(j, f) = Write(f, d, ValueOf(j, f.regs))
    BY <1>4, PureFacts
  <2>2. ValueOf(i, g.regs) = ValueOf(j, f.regs)
    BY <1>1, <1>4
  <2>3. \A w : Write(g, d, w) = Write(f, d, w)
    BY WriteTwice
  <2> QED
    BY <2>1, <2>2, <2>3
<1>5. CASE i[1] = "CALL_BUILTIN"
  <2>1. Effect(j, f) = [regs |-> [f.regs EXCEPT ![d] = None], args |-> <<>>, iters |-> f.iters,
                        out |-> Append(f.out, <<"out", f.args>>), value |-> f.value]
    BY <1>5, BuiltinForm
  <2> DEFINE u == Write(f, d, None)
  <2>2. Effect(i, g) = [Write(g, d, None) EXCEPT !.out = Append(@, <<"out", g.args>>), !.args = <<>>]
    <3>1. Effect(i, g) = Called(i, g)
      BY <1>5, CallFacts DEF CallOps
    <3> QED
      BY <1>5, <3>1, Zenon DEF Called
  <2>3. Write(g, d, None) = u /\ g.args = f.args
    BY <1>1, WriteTwice
  <2>4. u = [regs |-> [f.regs EXCEPT ![d] = None], args |-> f.args, iters |-> f.iters,
             out |-> f.out, value |-> f.value]
    BY <1>3
  <2> HIDE DEF g, u
  <2>5. Effect(i, g) = [u EXCEPT !.out = Append(@, <<"out", f.args>>), !.args = <<>>]
    BY <2>2, <2>3
  <2> QED
    BY <2>1, <2>4, <2>5 DEF g
<1>6. CASE i[1] \in {"CALL_1", "CALL_2"}
  <2> DEFINE s == Passed(j, f.regs)
           u == Write(f, d, CallResult(s))
  <2>1. Effect(j, f) = [regs |-> [f.regs EXCEPT ![d] = CallResult(s)], args |-> f.args, iters |-> f.iters,
                        out |-> Append(f.out, <<"call", s>>), value |-> f.value]
    <3>1. j[1] \in {"CALL_1", "CALL_2"} /\ j[2] = d
      BY <1>6
    <3> QED
      BY <3>1, UserForm
  <2>2. Effect(i, g) = [Write(g, d, CallResult(s)) EXCEPT !.out = Append(@, <<"call", s>>)]
    <3>1. Effect(i, g) = Called(i, g)
      BY <1>6, CallFacts DEF CallOps
    <3>2. Called(i, g) = CallUser(g, d, Passed(i, g.regs))
      BY <1>6, Zenon DEF Called, Passed
    <3>3. Passed(i, g.regs) = s
      BY <1>1, <1>6
    <3>4. CallUser(g, d, s) = [Write(g, d, CallResult(s)) EXCEPT !.out = Append(@, <<"call", s>>)]
      BY Zenon DEF CallUser
    <3> QED
      BY <3>1, <3>2, <3>3, <3>4, Zenon
  <2>3. Write(g, d, CallResult(s)) = u
    BY WriteTwice
  <2>4. u = [regs |-> [f.regs EXCEPT ![d] = CallResult(s)], args |-> f.args,
             iters |-> f.iters, out |-> f.out, value |-> f.value]
    BY <1>3
  <2> HIDE DEF s, g, u
  <2>5. Effect(i, g) = [u EXCEPT !.out = Append(@, <<"call", s>>)]
    BY <2>2, <2>3
  <2> QED
    BY <2>1, <2>4, <2>5 DEF g
<1>7. i[1] \in PureOps \/ i[1] = "CALL_BUILTIN" \/ i[1] \in {"CALL_1", "CALL_2"}
  BY DEF WritesDest, CallOps
<1> QED
  BY <1>4, <1>5, <1>6, <1>7

\* What is not read does not matter.
LEMMA Unread ==
  ASSUME NEW R, NEW r \in [R -> Value], NEW d, NEW v, NEW i, Fits(i, R), WritesDest(i[1]),
         ~ReadsReg(i, d)
  PROVE  /\ i[1] \in PureOps => ValueOf(i, r) = ValueOf(i, [r EXCEPT ![d] = v])
         /\ i[1] \in {"CALL_1", "CALL_2"} => Passed(i, r) = Passed(i, [r EXCEPT ![d] = v])
<1> DEFINE q == [r EXCEPT ![d] = v]
<1>1. \A x \in R : x # d => q[x] = r[x]
  OBVIOUS
<1>2. \A x : ReadsReg(i, x) => q[x] = r[x]
  BY <1>1 DEF Fits
<1> HIDE DEF q
<1>3. ASSUME i[1] \in PureOps PROVE ValueOf(i, r) = ValueOf(i, q)
  <2>1. CASE i[1] \in {"MOVE", "NEG"} \cup ArithOps \cup CmpOps
    <3>1. q[i[3]] = r[i[3]] /\ q[i[4]] = r[i[4]]
      BY <2>1, <1>2, ReadsFacts
    <3> QED
      BY <2>1, <3>1, ValueFacts
  <2>2. CASE i[1] \in ImmOps
    <3>1. q[i[3]] = r[i[3]]
      BY <2>2, <1>2, ReadsFacts
    <3> QED
      BY <2>2, <3>1, ValueFacts
  <2>3. CASE i[1] \in {"INC", "DEC"}
    <3>1. q[i[2]] = r[i[2]]
      BY <2>3, <1>2, ReadsFacts
    <3> QED
      BY <2>3, <3>1, ValueFacts
  <2>4. CASE i[1] \in LoadOps
    BY <2>4, ValueFacts DEF LoadOps
  <2> QED
    BY <1>3, <2>1, <2>2, <2>3, <2>4 DEF PureOps
<1>4. ASSUME i[1] = "CALL_1" PROVE Passed(i, r) = Passed(i, q)
  BY <1>2, <1>4, ReadsFacts DEF Passed
<1>5. ASSUME i[1] = "CALL_2" PROVE Passed(i, r) = Passed(i, q)
  BY <1>2, <1>5, ReadsFacts DEF Passed
<1> QED
  BY <1>3, <1>4, <1>5 DEF q

\* Slots of i that name the register e, rewritten to name one of equal value.
LEMMA Renamed ==
  ASSUME NEW R, NEW r \in [R -> Value], NEW q \in [R -> Value], NEW e \in R, NEW a,
         q[e] = r[a], \A x \in R : x # e => q[x] = r[x],
         NEW i, Fits(i, R), WritesDest(i[1]), ~(i[1] \in LoadOps),
         NEW S, 3 \in S, ~(1 \in S), ~(2 \in S), NEW j, j = Substituted(i, e, a, S),
         i[1] \in ArithOps \cup CmpOps => 4 \in S,
         i[1] \in ImmOps => ~(4 \in S) \/ i[4] # e,
         i[1] \in {"INC", "DEC", "CALL_2"} => ~ReadsReg(i, e),
         i[1] = "CALL_1" => 4 \in S
  PROVE  /\ j[1] = i[1] /\ j[2] = i[2]
         /\ i[1] \in PureOps => ValueOf(j, r) = ValueOf(i, q)
         /\ i[1] = "CALL_1" => Passed(j, r) = Passed(i, q)
<1>1. /\ j[1] = i[1] /\ j[2] = i[2]
      /\ j[3] = IF i[3] = e THEN a ELSE i[3]
      /\ j[4] = IF 4 \in S /\ i[4] = e THEN a ELSE i[4]
  BY SubstitutedFacts
<1>2. \A x : ReadsReg(i, x) => x \in R
  BY DEF Fits
<1>3. ASSUME i[1] \in PureOps PROVE ValueOf(j, r) = ValueOf(i, q)
  <2>1. CASE i[1] \in {"MOVE", "NEG"}
    <3>1. i[3] \in R
      BY <2>1, <1>2, ReadsFacts
    <3>2. q[i[3]] = r[j[3]]
      BY <1>1, <3>1
    <3> QED
      BY <1>1, <2>1, <3>2, ValueFacts
  <2>2. CASE i[1] \in ArithOps \cup CmpOps
    <3>1. i[3] \in R /\ i[4] \in R
      BY <2>2, <1>2, ReadsFacts
    <3>2. q[i[3]] = r[j[3]] /\ q[i[4]] = r[j[4]]
      BY <1>1, <2>2, <3>1
    <3>3. CASE i[1] \in ArithOps
      BY <1>1, <3>2, <3>3, ValueFacts
    <3>4. CASE i[1] \in CmpOps
      BY <1>1, <3>2, <3>4, ValueFacts
    <3> QED
      BY <2>2, <3>3, <3>4
  <2>3. CASE i[1] \in ImmOps
    <3>1. i[3] \in R
      BY <2>3, <1>2, ReadsFacts
    <3>2. q[i[3]] = r[j[3]] /\ j[4] = i[4]
      BY <1>1, <2>3, <3>1
    <3> QED
      BY <1>1, <2>3, <3>2, ValueFacts
  <2>4. CASE i[1] \in {"INC", "DEC"}
    <3>1. i[2] \in R /\ i[2] # e
      BY <2>4, <1>2, ReadsFacts
    <3>2. q[i[2]] = r[j[2]]
      BY <1>1, <3>1
    <3> QED
      BY <1>1, <2>4, <3>2, ValueFacts
  <2> QED
    BY <1>3, <2>1, <2>2, <2>3, <2>4 DEF PureOps
<1>4. ASSUME i[1] = "CALL_1" PROVE Passed(j, r) = Passed(i, q)
  <2>1. i[4] \in R
    BY <1>4, <1>2, ReadsFacts
  <2>2. q[i[4]] = r[j[4]]
    BY <1>1, <1>4, <2>1
  <2> QED
    BY <1>1, <1>4, <2>2 DEF Passed
<1> QED
  BY <1>1, <1>3, <1>4

\* What the instruction i does in the frame f; what p does, and i behind it;
\* what stands in their place does.
Did(i, f) == [frame |-> Effect(i, f), end |-> EndedBy(i, f),
              goes |-> IF Taken(i, f) THEN <<Target(i)>> ELSE <<>>]
Both(p, i, f) == IF Straight(p, f) THEN Did(i, Effect(p, f)) ELSE Did(p, f)
Instead(u, p, f) == IF u.one THEN Did(u.inst, f) ELSE Both(p, u.inst, f)

\* The registers of a function that has returned are gone.
SameReturn(a, b) == /\ a.end = "returned" /\ b.end = "returned" /\ a.goes = b.goes
                    /\ a.frame.out = b.frame.out /\ a.frame.value = b.frame.value

\* A load into a register that a move takes the value from, where the register
\* is no variable's: after fusion it keeps what it had.
Temporary(cg, p, i) == /\ p[1] \in LoadOps /\ i[1] = "MOVE" /\ p[2] = i[3] /\ i[2] # i[3]
                       /\ ~IsHome(cg, p[2])
KeepsOld(a, b, t, f) == /\ a.end = b.end /\ a.goes = b.goes
                        /\ a.frame = Write(b.frame, t, f.regs[t])

AsGood(cg, p, i, f, u) == LET a == Instead(u, p, f)
                              b == Both(p, i, f)
                          IN  \/ a = b
                              \/ SameReturn(a, b)
                              \/ Temporary(cg, p, i) /\ KeepsOld(a, b, p[2], f)

\* Two negations, or additions, that cancel each other are left out.  That is
\* wrong of a boolean, which they turn into none.
Cancel(p, i) == /\ p[2] = i[2] /\ p[3] = i[2] /\ i[3] = i[2]
                /\ \/ p[1] = "NEG" /\ i[1] = "NEG"
                   \/ /\ p[1] \in {"ADD_IMM", "SUB_IMM"} /\ i[1] \in {"ADD_IMM", "SUB_IMM"}
                      /\ Signed(p) + Signed(i) = 0
OnBoolean(p, i, f) == Cancel(p, i) /\ f.regs[i[2]] \in {Bool(b) : b \in BOOLEAN}

LEMMA DidFacts ==
  ASSUME NEW i, NEW f
  PROVE  /\ Did(i, f).frame = Effect(i, f) /\ Did(i, f).end = EndedBy(i, f)
         /\ Straight(i, f) => Did(i, f).goes = <<>>
         /\ \A j, g : Straight(i, f) /\ Straight(j, g) => EndedBy(i, f) = EndedBy(j, g)
<1>1. Straight(i, f) => Did(i, f).goes = <<>>
  BY DEF Did, Straight
<1>2. \A j, g : Straight(i, f) /\ Straight(j, g) => EndedBy(i, f) = EndedBy(j, g)
  BY Zenon DEF Straight
<1> QED
  BY <1>1, <1>2 DEF Did

LEMMA InsteadOne ==
  ASSUME NEW j, NEW p, NEW f
  PROVE  Instead(OneFor(j), p, f) = Did(j, f) /\ Instead(InFront(j), p, f) = Both(p, j, f)
BY DEF Instead, OneFor, InFront

LEMMA BothStraight ==
  ASSUME NEW p, NEW i, NEW f, p[1] \in PureOps
  PROVE  /\ Effect(p, f) = Write(f, p[2], ValueOf(p, f.regs))
         /\ Both(p, i, f) = Did(i, Write(f, p[2], ValueOf(p, f.regs)))
BY PureFacts DEF Both

\* An instruction with the effect of p and then i takes their place.
LEMMA OneDoes ==
  ASSUME NEW cg, NEW p, NEW i, NEW f, NEW j, p[1] \in PureOps, WritesDest(i[1]), WritesDest(j[1]),
         Effect(j, f) = Effect(i, Effect(p, f))
  PROVE  AsGood(cg, p, i, f, OneFor(j))
<1> DEFINE g == Effect(p, f)
<1>1. Straight(p, f) /\ Straight(i, g) /\ Straight(j, f)
  BY PureFacts, CallFacts DEF WritesDest
<1>2. Both(p, i, f) = Did(i, g)
  BY <1>1 DEF Both
<1>3. Did(i, g) = Did(j, f)
  BY <1>1 DEF Did, Straight
<1> QED
  BY <1>2, <1>3, InsteadOne DEF AsGood

\* The rules of Fusion, with what is known when one is reached.
ValueReturns == {"RETURN", "RETURN_NUM", "RETURN_BOOL"}

\* A move to where the next instruction writes.
Lands(p, i) == p[1] = "MOVE" /\ WritesDest(i[1]) /\ p[2] = i[2]

Rewrites(cg, p, i, u) ==
    \/ /\ p[1] \in LoadOps /\ i[1] = "MOVE" /\ p[2] = i[3] /\ ~IsHome(cg, p[2])
       /\ u = OneFor([p EXCEPT ![2] = i[2]])
    \/ /\ i[1] \in ValueReturns /\ p[1] = "LOAD_NONE" /\ p[2] = i[2]
       /\ u = OneFor(<<"RETURN_NONE", 0, 0, 0>>)
    \/ /\ i[1] \in {"RETURN", "RETURN_NUM"} /\ p[1] = "LOAD_NUM_IMM" /\ p[2] = i[2]
       /\ u = OneFor(<<"RETURN_NUM_IMM", 0, p[3], 0>>)
    \/ i[1] \in ValueReturns /\ p[1] = "MOVE" /\ p[2] = i[2] /\ u = OneFor(<<i[1], p[3], 0, 0>>)
    \/ i[1] = "RETURN_NONE" /\ p[1] \in PureOps /\ u = OneFor(<<"RETURN_NONE", 0, 0, 0>>)
    \/ WritesDest(i[1]) /\ p[1] \in PureOps /\ p[2] = i[2] /\ ~ReadsReg(i, i[2]) /\ u = OneFor(i)
    \/ /\ ReadsReg(i, i[2]) /\ p[1] = "MOVE" /\ WritesDest(i[1]) /\ p[2] = i[2]
       /\ u = OneFor(Substituted(i, i[2], p[3], {3, 4}))
    \/ /\ p[1] = "MOVE" /\ WritesDest(i[1]) /\ \E s \in SourceSlots(i[1]) : i[s] = p[2]
       /\ ~Lands(p, i)
       /\ u = InFront(Substituted(i, p[2], p[3], SourceSlots(i[1])))
    \/ /\ p[1] = "LOAD_NUM_IMM" /\ i[1] \in ImmOps /\ i[3] = i[2] /\ p[2] = i[2]
       /\ u = OneFor(LoadNumber(i[2], Folded(i[1], p[3], i[4])))
    \/ /\ p[1] = "LOAD_NUM_IMM" /\ i[1] = "NEG" /\ i[3] = i[2] /\ p[2] = i[2]
       /\ u = OneFor(LoadNumber(i[2], -p[3]))
    \/ /\ p[1] = "LOAD_NUM_IMM" /\ i[1] = "INC" /\ p[2] = i[2] /\ p[3] < MaxImm
       /\ u = OneFor(<<"LOAD_NUM_IMM", i[2], p[3] + 1, 0>>)
    \/ /\ p[1] = "LOAD_NUM_IMM" /\ i[1] = "DEC" /\ p[2] = i[2] /\ p[3] > 0
       /\ u = OneFor(<<"LOAD_NUM_IMM", i[2], p[3] - 1, 0>>)
    \/ /\ p[1] = "LOAD_NUM_IMM" /\ i[1] \in ArithOps /\ i[3] = i[2] /\ p[2] = i[2] /\ i[4] = i[2]
       /\ u = OneFor(LoadNumber(i[2], Folded(i[1], p[3], p[3])))
    \/ /\ p[1] = "LOAD_NUM_IMM" /\ i[1] \in ImmJumps /\ p[2] = i[3]
       /\ Holds(JumpImmRel(i[1]), Num(p[3]), Num(i[4]))
       /\ u = InFront(<<"JUMP", i[2], 0, 0>>)
    \/ /\ p[1] = "LOAD_BOOL" /\ p[3] = 0 /\ i[1] = "JUMP_IF_FALSE" /\ p[2] = i[3]
       /\ u = InFront(<<"JUMP", i[2], 0, 0>>)
    \/ p[1] = "NEG" /\ i[1] = "NEG" /\ i[3] = i[2] /\ p[2] = i[2] /\ p[3] = i[2] /\ u = OneFor(Nop)
    \/ /\ p[1] \in {"ADD_IMM", "SUB_IMM"} /\ i[1] \in {"ADD_IMM", "SUB_IMM"} /\ i[3] = i[2]
       /\ p[2] = i[2] /\ p[3] = i[2]
       /\ u = OneFor(AddSigned(i[2], Signed(p) + Signed(i)))
    \/ p[1] = "MOVE" /\ i[1] = "MOVE" /\ p[2] = i[3] /\ p[3] = i[2] /\ u = OneFor(p)
    \/ ~Lands(p, i) /\ u = InFront(i)

LEMMA FusionRules ==
  ASSUME NEW cg, NEW p, NEW i, NEW u, u = Fusion(cg, p, i)
  PROVE  \/ IsNop(i) /\ u = OneFor(p)
         \/ IsNop(p) /\ u = OneFor(i)
         \/ ~IsNop(i) /\ ~IsNop(p) /\ Rewrites(cg, p, i, u)
<1> DEFINE C1 == IsNop(i)
           X1 == OneFor(p)
           C2 == IsNop(p)
           X2 == OneFor(i)
           C3 == p[1] \in LoadOps /\ i[1] = "MOVE" /\ p[2] = i[3] /\ ~IsHome(cg, p[2])
           X3 == OneFor([p EXCEPT ![2] = i[2]])
           C4 == i[1] \in ValueReturns /\ p[1] = "LOAD_NONE" /\ p[2] = i[2]
           X4 == OneFor(<<"RETURN_NONE", 0, 0, 0>>)
           C5 == i[1] \in {"RETURN", "RETURN_NUM"} /\ p[1] = "LOAD_NUM_IMM" /\ p[2] = i[2]
           X5 == OneFor(<<"RETURN_NUM_IMM", 0, p[3], 0>>)
           C6 == i[1] \in ValueReturns /\ p[1] = "MOVE" /\ p[2] = i[2]
           X6 == OneFor(<<i[1], p[3], 0, 0>>)
           C7 == i[1] = "RETURN_NONE" /\ p[1] \in PureOps
           X7 == OneFor(<<"RETURN_NONE", 0, 0, 0>>)
           C8 == WritesDest(i[1]) /\ p[1] \in PureOps /\ p[2] = i[2] /\ ~ReadsReg(i, i[2])
           X8 == OneFor(i)
           C9 == p[1] = "MOVE" /\ WritesDest(i[1]) /\ p[2] = i[2]
           X9 == OneFor(Substituted(i, i[2], p[3], {3, 4}))
           C10 == p[1] = "MOVE" /\ WritesDest(i[1]) /\ \E s \in SourceSlots(i[1]) : i[s] = p[2]
           X10 == InFront(Substituted(i, p[2], p[3], SourceSlots(i[1])))
           C11 == p[1] = "LOAD_NUM_IMM" /\ i[1] \in ImmOps /\ i[3] = i[2] /\ p[2] = i[2]
           X11 == OneFor(LoadNumber(i[2], Folded(i[1], p[3], i[4])))
           C12 == p[1] = "LOAD_NUM_IMM" /\ i[1] = "NEG" /\ i[3] = i[2] /\ p[2] = i[2]
           X12 == OneFor(LoadNumber(i[2], -p[3]))
           C13 == p[1] = "LOAD_NUM_IMM" /\ i[1] = "INC" /\ p[2] = i[2] /\ p[3] < MaxImm
           X13 == OneFor(<<"LOAD_NUM_IMM", i[2], p[3] + 1, 0>>)
           C14 == p[1] = "LOAD_NUM_IMM" /\ i[1] = "DEC" /\ p[2] = i[2] /\ p[3] > 0
           X14 == OneFor(<<"LOAD_NUM_IMM", i[2], p[3] - 1, 0>>)
           C15 == /\ p[1] = "LOAD_NUM_IMM" /\ i[1] \in ArithOps /\ i[3] = i[2] /\ p[2] = i[2]
                  /\ i[4] = i[2]
           X15 == OneFor(LoadNumber(i[2], Folded(i[1], p[3], p[3])))
           C16 == /\ p[1] = "LOAD_NUM_IMM" /\ i[1] \in ImmJumps /\ p[2] = i[3]
                  /\ Holds(JumpImmRel(i[1]), Num(p[3]), Num(i[4]))
           X16 == InFront(<<"JUMP", i[2], 0, 0>>)
           C17 == p[1] = "LOAD_BOOL" /\ p[3] = 0 /\ i[1] = "JUMP_IF_FALSE" /\ p[2] = i[3]
           X17 == InFront(<<"JUMP", i[2], 0, 0>>)
           C18 == p[1] = "NEG" /\ i[1] = "NEG" /\ i[3] = i[2] /\ p[2] = i[2] /\ p[3] = i[2]
           X18 == OneFor(Nop)
           C19 == /\ p[1] \in {"ADD_IMM", "SUB_IMM"} /\ i[1] \in {"ADD_IMM", "SUB_IMM"}
                  /\ i[3] = i[2] /\ p[2] = i[2] /\ p[3] = i[2]
           X19 == OneFor(AddSigned(i[2], Signed(p) + Signed(i)))
           C20 == p[1] = "MOVE" /\ i[1] = "MOVE" /\ p[2] = i[3] /\ p[3] = i[2]
           X20 == OneFor(p)
<1>1. u = IF C1 THEN X1
            ELSE IF C2 THEN X2
            ELSE IF C3 THEN X3
            ELSE IF C4 THEN X4
            ELSE IF C5 THEN X5
            ELSE IF C6 THEN X6
            ELSE IF C7 THEN X7
            ELSE IF C8 THEN X8
            ELSE IF C9 THEN X9
            ELSE IF C10 THEN X10
            ELSE IF C11 THEN X11
            ELSE IF C12 THEN X12
            ELSE IF C13 THEN X13
            ELSE IF C14 THEN X14
            ELSE IF C15 THEN X15
            ELSE IF C16 THEN X16
            ELSE IF C17 THEN X17
            ELSE IF C18 THEN X18
            ELSE IF C19 THEN X19
            ELSE IF C20 THEN X20
            ELSE InFront(i)
  BY Zenon DEF Fusion, ValueReturns
<1>2. C9 /\ ~C8 => ReadsReg(i, i[2])
  BY DEF WritesDest, PureOps
<1> HIDE DEF C3, X3, C4, X4, C5, X5, C6, X6, C7, X7, C8, X8, C9, X9, C10, X10, C11, X11, C12, X12,
             C13, X13, C14, X14, C15, X15, C16, X16, C17, X17, C18, X18, C19, X19, C20, X20
<1>3. \/ IsNop(i) /\ u = OneFor(p)
      \/ IsNop(p) /\ u = OneFor(i)
      \/ /\ ~IsNop(i) /\ ~IsNop(p)
         /\ \/ C3 /\ u = X3
            \/ C4 /\ u = X4
            \/ C5 /\ u = X5
            \/ C6 /\ u = X6
            \/ C7 /\ u = X7
            \/ C8 /\ u = X8
            \/ ReadsReg(i, i[2]) /\ C9 /\ u = X9
            \/ C10 /\ ~C9 /\ u = X10
            \/ C11 /\ u = X11
            \/ C12 /\ u = X12
            \/ C13 /\ u = X13
            \/ C14 /\ u = X14
            \/ C15 /\ u = X15
            \/ C16 /\ u = X16
            \/ C17 /\ u = X17
            \/ C18 /\ u = X18
            \/ C19 /\ u = X19
            \/ C20 /\ u = X20
            \/ ~C9 /\ u = InFront(i)
  BY <1>1, <1>2
<1> QED
  BY <1>3 DEF Rewrites, Lands, C3, X3, C4, X4, C5, X5, C6, X6, C7, X7, C8, X8, C9, X9, C10, X10, C11,
              X11, C12, X12, C13, X13, C14, X14, C15, X15, C16, X16, C17, X17, C18, X18, C19, X19,
              C20, X20

\* What the instructions Fusion puts in their place do.
LEMMA LoadNumberFacts ==
  ASSUME NEW d, NEW k, NEW f
  PROVE  /\ LoadNumber(d, k)[1] \in PureOps /\ LoadNumber(d, k)[2] = d
         /\ Effect(LoadNumber(d, k), f) = Write(f, d, Num(k))
<1> DEFINE j == LoadNumber(d, k)
<1>1. j[1] \in {"LOAD_NUM_IMM", "LOAD_NUM"} /\ j[2] = d /\ j[3] = k
  BY DEF LoadNumber
<1> HIDE DEF j
<1>2. j[1] \in PureOps
  BY <1>1 DEF PureOps, LoadOps
<1>3. ValueOf(j, f.regs) = Num(k)
  BY <1>1, ValueFacts
<1> QED
  BY <1>1, <1>2, <1>3, PureFacts DEF j

LEMMA FoldedIs ==
  ASSUME NEW op \in ArithOps \cup ImmOps, NEW a, NEW b
  PROVE  Arith(op, Num(a), Num(b)) = Num(Folded(op, a, b))
<1>1. \A x : Num(x)[2] = x
  BY DEF Num
<1>2. \E x : Arith(op, Num(a), Num(b)) = Num(x)
  BY Zenon DEF Arith, IsNum, Num
<1> QED
  BY <1>1, <1>2 DEF Folded

\* Arithmetic on what is no number, and on numbers.
LEMMA ArithFacts ==
  /\ \A op, v, w : ~IsNum(v) \/ ~IsNum(w) => Arith(op, v, w) = None
  /\ \A a, b : /\ Arith("ADD", Num(a), Num(b)) = Num(a + b)
               /\ Arith("ADD_IMM", Num(a), Num(b)) = Num(a + b)
               /\ Arith("SUB", Num(a), Num(b)) = Num(a - b)
               /\ Arith("SUB_IMM", Num(a), Num(b)) = Num(a - b)
  /\ \A v \in Value : v = None \/ v \in {Bool(b) : b \in BOOLEAN} \/ \E k \in Int : v = Num(k)
  /\ ~IsNum(None) /\ \A b : ~IsNum(Bool(b))
<1>1. \A op, v, w : ~IsNum(v) \/ ~IsNum(w) => Arith(op, v, w) = None
  BY DEF Arith
<1>2. \A k : IsNum(Num(k)) /\ Num(k)[2] = k
  BY DEF IsNum, Num
<1>3. ASSUME NEW a, NEW b
      PROVE  /\ Arith("ADD", Num(a), Num(b)) = Num(a + b)
             /\ Arith("ADD_IMM", Num(a), Num(b)) = Num(a + b)
             /\ Arith("SUB", Num(a), Num(b)) = Num(a - b)
             /\ Arith("SUB_IMM", Num(a), Num(b)) = Num(a - b)
  <2> DEFINE A == {"ADD", "ADD_IMM"}
             S == {"SUB", "SUB_IMM"}
             M == {"MUL", "MUL_IMM"}
  <2>1. /\ \A op \in A : ~(op \in S) /\ ~(op \in M)
        /\ \A op \in S : ~(op \in A) /\ ~(op \in M)
        /\ "ADD" \in A /\ "ADD_IMM" \in A /\ "SUB" \in S /\ "SUB_IMM" \in S
    OBVIOUS
  <2>2. \A op, v, w : IsNum(v) /\ IsNum(w) => Arith(op, v, w) = Num(CASE op \in A -> v[2] + w[2]
                                                                     [] op \in S -> v[2] - w[2]
                                                                     [] op \in M -> v[2] * w[2])
    BY Zenon DEF Arith
  <2> HIDE DEF A, S, M
  <2>3. \A op \in A : \A v, w : IsNum(v) /\ IsNum(w) => Arith(op, v, w) = Num(v[2] + w[2])
    BY <2>1, <2>2, Zenon
  <2>4. \A op \in S : \A v, w : IsNum(v) /\ IsNum(w) => Arith(op, v, w) = Num(v[2] - w[2])
    BY <2>1, <2>2, Zenon
  <2> QED
    BY <1>2, <2>1, <2>3, <2>4
<1>4. ~IsNum(None) /\ \A b : ~IsNum(Bool(b))
  BY DEF IsNum, None, Bool
<1> QED
  BY <1>1, <1>3, <1>4 DEF Value

LEMMA NoneAndNumbers ==
  ASSUME NEW v \in Value, ~(v \in {Bool(b) : b \in BOOLEAN})
  PROVE  v = None \/ \E k \in Int : v = Num(k)
BY DEF Value

\* A write of what the register holds, and a write taken back.
LEMMA WriteBack ==
  ASSUME NEW R, NEW f, Is(f, R), NEW t \in R, NEW d, d # t, NEW v, NEW w
  PROVE  /\ Write(f, t, f.regs[t]) = f
         /\ Write(Write(Write(f, t, v), d, w), t, f.regs[t]) = Write(f, d, w)
<1> DEFINE r == f.regs
<1>1. [r EXCEPT ![t] = r[t]] = r
  BY DEF Is
<1>2. [[[r EXCEPT ![t] = v] EXCEPT ![d] = w] EXCEPT ![t] = r[t]] = [r EXCEPT ![d] = w]
  BY DEF Is
<1>3. ASSUME NEW x, NEW y
      PROVE  Write(f, x, y) = [regs |-> [r EXCEPT ![x] = y], args |-> f.args, iters |-> f.iters,
                               out |-> f.out, value |-> f.value]
  BY DEF Write, Is
<1>4. ASSUME NEW g, g = [regs |-> g.regs, args |-> f.args, iters |-> f.iters,
                         out |-> f.out, value |-> f.value], NEW x, NEW y
      PROVE  Write(g, x, y) = [regs |-> [g.regs EXCEPT ![x] = y], args |-> f.args, iters |-> f.iters,
                               out |-> f.out, value |-> f.value]
  BY <1>4 DEF Write
<1>5. f = [regs |-> r, args |-> f.args, iters |-> f.iters, out |-> f.out, value |-> f.value]
  BY DEF Is
<1>6. Write(f, t, r[t]) = f
  BY <1>1, <1>3, <1>5
<1> DEFINE g == Write(f, t, v)
           h == Write(g, d, w)
<1>7. g = [regs |-> g.regs, args |-> f.args, iters |-> f.iters, out |-> f.out, value |-> f.value]
      /\ g.regs = [r EXCEPT ![t] = v]
  BY <1>3
<1> HIDE DEF g
<1>8. h = [regs |-> h.regs, args |-> f.args, iters |-> f.iters, out |-> f.out, value |-> f.value]
      /\ h.regs = [g.regs EXCEPT ![d] = w]
  BY <1>4, <1>7
<1> HIDE DEF h
<1>9. Write(h, t, r[t]) = [regs |-> [h.regs EXCEPT ![t] = r[t]], args |-> f.args, iters |-> f.iters,
                           out |-> f.out, value |-> f.value]
  BY <1>4, <1>8
<1>10. Write(h, t, r[t]) = Write(f, d, w)
  BY <1>2, <1>3, <1>7, <1>8, <1>9
<1> QED
  BY <1>6, <1>10 DEF g, h

LEMMA ReturnsSame ==
  ASSUME NEW R, NEW f, Is(f, R), NEW d, NEW v, NEW i, i[1] \in ReturnOps, NEW j, j[1] \in ReturnOps,
         Returned(j, f.regs) = Returned(i, [f.regs EXCEPT ![d] = v])
  PROVE  SameReturn(Did(j, f), Did(i, Write(f, d, v)))
<1> DEFINE g == Write(f, d, v)
<1>1. g.regs = [f.regs EXCEPT ![d] = v] /\ g.out = f.out
      /\ g = [regs |-> g.regs, args |-> g.args, iters |-> g.iters, out |-> g.out, value |-> g.value]
  BY WriteForm
<1>2. f = [regs |-> f.regs, args |-> f.args, iters |-> f.iters, out |-> f.out, value |-> f.value]
  BY DEF Is
<1>3. /\ Effect(j, f) = [f EXCEPT !.value = Returned(j, f.regs)]
      /\ EndedBy(j, f) = "returned" /\ ~Taken(j, f)
  BY ReturnFacts
<1>4. /\ Effect(i, g) = [g EXCEPT !.value = Returned(i, g.regs)]
      /\ EndedBy(i, g) = "returned" /\ ~Taken(i, g)
  BY ReturnFacts
<1> HIDE DEF g
<1>5. Effect(j, f).out = f.out /\ Effect(j, f).value = Returned(j, f.regs)
  BY <1>2, <1>3
<1>6. Effect(i, g).out = g.out /\ Effect(i, g).value = Returned(i, g.regs)
  BY <1>1, <1>4
<1>7. SameReturn(Did(j, f), Did(i, g))
  BY <1>1, <1>3, <1>4, <1>5, <1>6 DEF SameReturn, Did
<1> QED
  BY <1>7 DEF g

\* What a fusion does to the registers is what i does to them, or nothing.
Settled(p, i, f, u) == \/ ~WritesDest(i[1])
                       \/ WritesDest(u.inst[1]) /\ u.inst[2] = i[2]
                       \/ Effect(i, Effect(p, f)) = Effect(p, f)
                       \/ Cancel(p, i) /\ u = OneFor(Nop)
Fine(cg, p, i, f, u) == AsGood(cg, p, i, f, u) /\ Settled(p, i, f, u)

LEMMA OneIsFine ==
  ASSUME NEW cg, NEW p, NEW i, NEW f, NEW j, p[1] \in PureOps, WritesDest(i[1]), WritesDest(j[1]),
         j[2] = i[2], Effect(j, f) = Effect(i, Effect(p, f))
  PROVE  Fine(cg, p, i, f, OneFor(j))
<1>1. OneFor(j).inst = j
  BY DEF OneFor
<1> QED
  BY <1>1, OneDoes DEF Fine, Settled

\* NOPs go.
LEMMA FusesNop ==
  ASSUME NEW R, NEW cg, NEW p, NEW i, NEW f, Is(f, R)
  PROVE  /\ IsNop(i) => Fine(cg, p, i, f, OneFor(p))
         /\ IsNop(p) => Fine(cg, p, i, f, OneFor(i))
<1>1. ASSUME IsNop(i) PROVE Fine(cg, p, i, f, OneFor(p))
  <2> DEFINE g == Effect(p, f)
  <2>1. Framed(g)
    BY IsFramed, EffectFramed
  <2>2. Effect(i, g) = g /\ EndedBy(i, g) = "" /\ ~Taken(i, g)
    BY <1>1, <2>1, NopKeepsFrame
  <2> HIDE DEF g
  <2>3. Straight(p, f) => Did(i, g) = [frame |-> g, end |-> "", goes |-> <<>>]
    BY <2>2 DEF Did
  <2>4. Straight(p, f) => Did(p, f) = [frame |-> g, end |-> "", goes |-> <<>>]
    BY DEF Did, Straight, g
  <2>5. Both(p, i, f) = Did(p, f)
    BY <2>3, <2>4 DEF Both, g
  <2> QED
    BY <2>2, <2>5, InsteadOne DEF Fine, AsGood, Settled, g
<1>2. ASSUME IsNop(p) PROVE Fine(cg, p, i, f, OneFor(i))
  <2>1. Effect(p, f) = f /\ Straight(p, f)
    BY <1>2, IsFramed, NopKeepsFrame DEF Straight
  <2>2. Both(p, i, f) = Did(i, f)
    BY <2>1 DEF Both
  <2>3. OneFor(i).inst = i
    BY DEF OneFor
  <2> QED
    BY <2>2, <2>3, InsteadOne DEF Fine, AsGood, Settled
<1> QED
  BY <1>1, <1>2

\* A load is made into the register its value is moved to.
LEMMA FusesLoad ==
  ASSUME NEW R, NEW cg, NEW p \in Instruction, NEW i \in Instruction, NEW f, Is(f, R),
         Fits(p, R), Fits(i, R), ~IsNop(i),
         p[1] \in LoadOps, i[1] = "MOVE", p[2] = i[3], ~IsHome(cg, p[2])
  PROVE  Fine(cg, p, i, f, OneFor([p EXCEPT ![2] = i[2]]))
<1> DEFINE j == [p EXCEPT ![2] = i[2]]
           t == p[2]
           d == i[2]
           v == ValueOf(p, f.regs)
           g == Write(f, t, v)
           h == Write(g, d, v)
<1>1. p[1] \in PureOps /\ i[1] \in PureOps /\ WritesDest(p[1]) /\ WritesDest(i[1])
  BY DEF PureOps, WritesDest
<1>2. j[1] = p[1] /\ j[2] = d /\ j[3] = p[3]
  BY TupleFacts
<1>3. t \in R /\ d # t
  BY <1>1 DEF Fits, IsNop
<1> HIDE DEF j
<1>4. Effect(j, f) = Write(f, d, v) /\ Straight(j, f)
  <2>1. ValueOf(j, f.regs) = v
    BY <1>2, ValueFacts DEF LoadOps
  <2> QED
    BY <1>1, <1>2, <2>1, PureFacts
<1>5. Effect(p, f) = g /\ Both(p, i, f) = Did(i, g)
  BY <1>1, BothStraight
<1>6. Effect(i, g) = h /\ Straight(i, g)
  <2>1. g.regs = [f.regs EXCEPT ![t] = v]
    BY WriteRegs
  <2>2. g.regs[t] = v
    BY <1>3, <2>1 DEF Is
  <2>3. ValueOf(i, g.regs) = v
    BY <2>2, ValueFacts
  <2> HIDE DEF g, v
  <2> QED
    BY <1>1, <2>3, PureFacts
<1>7. Write(h, t, f.regs[t]) = Write(f, d, v)
  BY <1>3, WriteBack
<1> HIDE DEF g, h
<1>8. Did(j, f).frame = Write(f, d, v) /\ Did(i, g).frame = h
  BY <1>4, <1>6, DidFacts
<1>9. Did(j, f).end = Did(i, g).end /\ Did(j, f).goes = Did(i, g).goes
  BY <1>4, <1>6, DidFacts
<1>10. KeepsOld(Did(j, f), Did(i, g), t, f)
  BY <1>7, <1>8, <1>9 DEF KeepsOld
<1>11. Temporary(cg, p, i)
  BY <1>3 DEF Temporary
<1>12. AsGood(cg, p, i, f, OneFor(j))
  BY <1>5, <1>10, <1>11, InsteadOne DEF AsGood
<1>13. OneFor(j).inst = j
  BY DEF OneFor
<1>14. Settled(p, i, f, OneFor(j))
  BY <1>1, <1>2, <1>13 DEF Settled
<1> QED
  BY <1>12, <1>14 DEF Fine, j

\* What a return gives back is given back by one instruction.
LEMMA FusesReturn ==
  ASSUME NEW R, NEW cg, NEW p \in Instruction, NEW i \in Instruction, NEW f, Is(f, R), Fits(p, R),
         p[1] \in PureOps
  PROVE  /\ i[1] \in ValueReturns /\ p[1] = "LOAD_NONE" /\ p[2] = i[2]
            => Fine(cg, p, i, f, OneFor(<<"RETURN_NONE", 0, 0, 0>>))
         /\ i[1] \in {"RETURN", "RETURN_NUM"} /\ p[1] = "LOAD_NUM_IMM" /\ p[2] = i[2]
            => Fine(cg, p, i, f, OneFor(<<"RETURN_NUM_IMM", 0, p[3], 0>>))
         /\ i[1] \in ValueReturns /\ p[1] = "MOVE" /\ p[2] = i[2]
            => Fine(cg, p, i, f, OneFor(<<i[1], p[3], 0, 0>>))
         /\ i[1] = "RETURN_NONE" => Fine(cg, p, i, f, OneFor(<<"RETURN_NONE", 0, 0, 0>>))
<1> DEFINE t == p[2]
           v == ValueOf(p, f.regs)
           q == [f.regs EXCEPT ![t] = v]
<1>1. q[t] = v
  BY DEF Is, Fits, WritesDest
<1>2. /\ p[1] = "LOAD_NONE" => v = None
      /\ p[1] = "LOAD_NUM_IMM" => v = Num(p[3])
      /\ p[1] = "MOVE" => v = f.regs[p[3]]
  BY ValueFacts
<1>3. Both(p, i, f) = Did(i, Write(f, t, v))
  BY BothStraight
<1>4. ASSUME NEW j, i[1] \in ReturnOps, j[1] \in ReturnOps, Returned(j, f.regs) = Returned(i, q)
      PROVE  Fine(cg, p, i, f, OneFor(j))
  <2>1. SameReturn(Did(j, f), Did(i, Write(f, t, v)))
    BY <1>4, ReturnsSame
  <2>2. ~WritesDest(i[1])
    BY <1>4 DEF ReturnOps, WritesDest, PureOps, LoadOps, ArithOps, ImmOps, CmpOps, CallOps
  <2> QED
    BY <1>3, <2>1, <2>2, InsteadOne DEF Fine, AsGood, Settled
<1>5. ASSUME NEW r
      PROVE  /\ \A j : j[1] = "RETURN_NONE" => Returned(j, r) = None
             /\ \A j : j[1] = "RETURN_NUM_IMM" => Returned(j, r) = Num(j[3])
             /\ \A j : j[1] \in ValueReturns => Returned(j, r) = r[j[2]]
  BY DEF Returned, ValueReturns
<1>6. i[1] \in ValueReturns /\ t = i[2] => Returned(i, q) = v
  BY <1>1, <1>5
<1> HIDE DEF q, v
<1>7. ASSUME i[1] \in ValueReturns, p[1] = "LOAD_NONE", p[2] = i[2]
      PROVE  Fine(cg, p, i, f, OneFor(<<"RETURN_NONE", 0, 0, 0>>))
  <2> DEFINE j == <<"RETURN_NONE", 0, 0, 0>>
  <2>1. j[1] = "RETURN_NONE"
    OBVIOUS
  <2> HIDE DEF j
  <2>2. Returned(j, f.regs) = Returned(i, q) /\ i[1] \in ReturnOps /\ j[1] \in ReturnOps
    BY <1>2, <1>5, <1>6, <1>7, <2>1 DEF ReturnOps, ValueReturns
  <2>3. Fine(cg, p, i, f, OneFor(j))
    BY <1>4, <2>2
  <2> QED
    BY <2>3 DEF j
<1>8. ASSUME i[1] \in {"RETURN", "RETURN_NUM"}, p[1] = "LOAD_NUM_IMM", p[2] = i[2]
      PROVE  Fine(cg, p, i, f, OneFor(<<"RETURN_NUM_IMM", 0, p[3], 0>>))
  <2> DEFINE j == <<"RETURN_NUM_IMM", 0, p[3], 0>>
  <2>1. j[1] = "RETURN_NUM_IMM" /\ j[3] = p[3] /\ i[1] \in ValueReturns
    BY <1>8 DEF ValueReturns
  <2> HIDE DEF j
  <2>2. Returned(j, f.regs) = Returned(i, q) /\ i[1] \in ReturnOps /\ j[1] \in ReturnOps
    BY <1>2, <1>5, <1>6, <1>8, <2>1 DEF ReturnOps, ValueReturns
  <2>3. Fine(cg, p, i, f, OneFor(j))
    BY <1>4, <2>2
  <2> QED
    BY <2>3 DEF j
<1>9. ASSUME i[1] \in ValueReturns, p[1] = "MOVE", p[2] = i[2]
      PROVE  Fine(cg, p, i, f, OneFor(<<i[1], p[3], 0, 0>>))
  <2> DEFINE j == <<i[1], p[3], 0, 0>>
  <2>1. j[1] = i[1] /\ j[2] = p[3]
    OBVIOUS
  <2> HIDE DEF j
  <2>2. Returned(j, f.regs) = Returned(i, q) /\ i[1] \in ReturnOps /\ j[1] \in ReturnOps
    BY <1>2, <1>5, <1>6, <1>9, <2>1 DEF ReturnOps, ValueReturns
  <2>3. Fine(cg, p, i, f, OneFor(j))
    BY <1>4, <2>2
  <2> QED
    BY <2>3 DEF j
<1>10. ASSUME i[1] = "RETURN_NONE"
       PROVE  Fine(cg, p, i, f, OneFor(<<"RETURN_NONE", 0, 0, 0>>))
  <2> DEFINE j == <<"RETURN_NONE", 0, 0, 0>>
  <2>1. j[1] = "RETURN_NONE"
    OBVIOUS
  <2> HIDE DEF j
  <2>2. Returned(j, f.regs) = Returned(i, q) /\ i[1] \in ReturnOps /\ j[1] \in ReturnOps
    BY <1>5, <1>10, <2>1 DEF ReturnOps
  <2>3. Fine(cg, p, i, f, OneFor(j))
    BY <1>4, <2>2
  <2> QED
    BY <2>3 DEF j
<1> QED
  BY <1>7, <1>8, <1>9, <1>10

\* A store that the next instruction overwrites unread is dropped.
LEMMA FusesDeadStore ==
  ASSUME NEW R, NEW cg, NEW p, NEW i, NEW f, Is(f, R), Fits(p, R), Fits(i, R),
         p[1] \in PureOps, WritesDest(i[1]), p[2] = i[2], ~ReadsReg(i, i[2])
  PROVE  Fine(cg, p, i, f, OneFor(i))
<1> DEFINE v == ValueOf(p, f.regs)
<1>1. Effect(p, f) = Write(f, i[2], v)
  BY BothStraight
<1>2. f.regs \in [R -> Value]
  BY DEF Is
<1> HIDE DEF v
<1>3. /\ i[1] \in PureOps => ValueOf(i, f.regs) = ValueOf(i, [f.regs EXCEPT ![i[2]] = v])
      /\ i[1] \in {"CALL_1", "CALL_2"} => Passed(i, f.regs) = Passed(i, [f.regs EXCEPT ![i[2]] = v])
  BY <1>2, Unread
<1>4. Effect(i, Write(f, i[2], v)) = Effect(i, f)
  BY <1>3, WriteThenWrite
<1> QED
  BY <1>1, <1>4, OneIsFine

\* An instruction reads what a move copied from where it was copied.
LEMMA FusesMove ==
  ASSUME NEW R, NEW cg, NEW p \in Instruction, NEW i \in Instruction, NEW f, Is(f, R),
         Fits(p, R), Fits(i, R), ~IsNop(p), ~LosesMove(p, i), p[1] = "MOVE", WritesDest(i[1]),
         p[2] = i[2], ReadsReg(i, i[2])
  PROVE  Fine(cg, p, i, f, OneFor(Substituted(i, i[2], p[3], {3, 4})))
<1> DEFINE d == i[2]
           a == p[3]
           v == f.regs[a]
           S == {3, 4}
           j == Substituted(i, d, a, S)
           q == [f.regs EXCEPT ![d] = v]
<1>1. p[1] \in PureOps /\ p[2] # p[3] /\ WritesDest(p[1])
  BY DEF PureOps, IsNop, WritesDest
<1>2. Effect(p, f) = Write(f, d, v)
  BY <1>1, BothStraight, ValueFacts
<1>3. d \in R /\ a \in R /\ f.regs \in [R -> Value] /\ v \in Value
  <2>1. a \in R
    BY <1>1, ReadsFacts DEF Fits
  <2> QED
    BY <2>1 DEF Fits, Is
<1>4. q \in [R -> Value] /\ q[d] = f.regs[a] /\ \A x \in R : x # d => q[x] = f.regs[x]
  BY <1>3
<1>5. /\ ~(i[1] \in LoadOps) /\ ~(i[1] \in {"INC", "DEC", "CALL_2", "CALL_BUILTIN"})
      /\ i[1] \in ImmOps => i[4] # d
  <2>1. ~(i[1] \in LoadOps \cup {"CALL_BUILTIN"})
    BY ReadsFacts
  <2> QED
    BY <1>1, <2>1 DEF LosesMove
<1>6. 3 \in S /\ ~(1 \in S) /\ ~(2 \in S) /\ 4 \in S
  OBVIOUS
<1> HIDE DEF S, q
<1>7. j = Substituted(i, d, a, S)
  OBVIOUS
<1> HIDE DEF j
<1>8. /\ j[1] = i[1] /\ j[2] = i[2]
      /\ i[1] \in PureOps => ValueOf(j, f.regs) = ValueOf(i, q)
      /\ i[1] = "CALL_1" => Passed(j, f.regs) = Passed(i, q)
  BY <1>3, <1>4, <1>5, <1>6, <1>7, Renamed
<1>9. i[1] \in {"CALL_1", "CALL_2"} => Passed(j, f.regs) = Passed(i, q)
  BY <1>5, <1>8
<1>10. Effect(i, Write(f, d, v)) = Effect(j, f)
  BY <1>8, <1>9, WriteThenWrite DEF q
<1>11. Fine(cg, p, i, f, OneFor(j))
  BY <1>1, <1>2, <1>8, <1>10, OneIsFine
<1> QED
  BY <1>11 DEF j, S

LEMMA FusesSource ==
  ASSUME NEW R, NEW cg, NEW p \in Instruction, NEW i \in Instruction, NEW f, Is(f, R),
         Fits(p, R), Fits(i, R), ~IsNop(p), p[1] = "MOVE", WritesDest(i[1]),
         \E s \in SourceSlots(i[1]) : i[s] = p[2]
  PROVE  Fine(cg, p, i, f, InFront(Substituted(i, p[2], p[3], SourceSlots(i[1]))))
<1> DEFINE t == p[2]
           a == p[3]
           v == f.regs[a]
           S == SourceSlots(i[1])
           j == Substituted(i, t, a, S)
           g == Write(f, t, v)
<1>1. p[1] \in PureOps /\ t # a /\ WritesDest(p[1])
  BY DEF PureOps, IsNop, WritesDest
<1>2. Effect(p, f) = g /\ \A k : Both(p, k, f) = Did(k, g)
  BY <1>1, BothStraight, ValueFacts
<1>3. t \in R /\ a \in R
  BY <1>1, ReadsFacts DEF Fits
<1>4. g.regs \in [R -> Value] /\ g.regs[t] = g.regs[a]
  <2>1. g.regs = [f.regs EXCEPT ![t] = v]
    BY WriteRegs
  <2> QED
    BY <1>1, <1>3, <2>1 DEF Is
<1>5. S # {}
  OBVIOUS
<1>6. /\ i[1] \in {"MOVE", "NEG"} \cup ArithOps \cup CmpOps \cup ImmOps
      /\ 3 \in S /\ ~(1 \in S) /\ ~(2 \in S)
      /\ i[1] \in ArithOps \cup CmpOps => 4 \in S
      /\ i[1] \in ImmOps => ~(4 \in S)
  <2>1. i[1] \in {"NEG"} \cup ArithOps \cup CmpOps => S = {3, 4} /\ ~(i[1] \in {"MOVE"} \cup ImmOps)
    BY DEF SourceSlots, ArithOps, CmpOps, ImmOps
  <2>2. i[1] \in {"MOVE"} \cup ImmOps => S = {3} /\ ~(i[1] \in {"NEG"} \cup ArithOps \cup CmpOps)
    BY DEF SourceSlots, ArithOps, CmpOps, ImmOps
  <2>3. ~(i[1] \in {"NEG"} \cup ArithOps \cup CmpOps) /\ ~(i[1] \in {"MOVE"} \cup ImmOps) => S = {}
    BY DEF SourceSlots
  <2> HIDE DEF S
  <2> QED
    BY <1>5, <2>1, <2>2, <2>3
<1>7. ~(i[1] \in LoadOps) /\ ~(i[1] \in {"INC", "DEC", "CALL_1", "CALL_2"}) /\ i[1] \in PureOps
  BY <1>6 DEF LoadOps, ArithOps, CmpOps, ImmOps, PureOps
<1>8. j = Substituted(i, t, a, S)
  OBVIOUS
<1> HIDE DEF S, j, g
<1>9. j[1] = i[1] /\ j[2] = i[2] /\ ValueOf(j, g.regs) = ValueOf(i, g.regs)
  BY <1>3, <1>4, <1>6, <1>7, <1>8, Renamed
<1>10. Effect(j, g) = Effect(i, g) /\ Straight(i, g) /\ Straight(j, g)
  BY <1>7, <1>9, PureFacts
<1>11. Did(j, g) = Did(i, g)
  BY <1>10 DEF Did, Straight
<1>12. InFront(j).inst = j
  BY DEF InFront
<1>13. Fine(cg, p, i, f, InFront(j))
  BY <1>2, <1>9, <1>11, <1>12, InsteadOne DEF Fine, AsGood, Settled
<1> QED
  BY <1>13 DEF j, S

\* Arithmetic on a constant just loaded is done by the compiler.
LEMMA FusesConstant ==
  ASSUME NEW R, NEW cg, NEW p \in Instruction, NEW i \in Instruction, NEW f, Is(f, R),
         Fits(p, R), p[1] = "LOAD_NUM_IMM", p[2] = i[2]
  PROVE  /\ i[1] \in ImmOps /\ i[3] = i[2]
            => Fine(cg, p, i, f, OneFor(LoadNumber(i[2], Folded(i[1], p[3], i[4]))))
         /\ i[1] = "NEG" /\ i[3] = i[2] => Fine(cg, p, i, f, OneFor(LoadNumber(i[2], -p[3])))
         /\ i[1] = "INC" => Fine(cg, p, i, f, OneFor(<<"LOAD_NUM_IMM", i[2], p[3] + 1, 0>>))
         /\ i[1] = "DEC" => Fine(cg, p, i, f, OneFor(<<"LOAD_NUM_IMM", i[2], p[3] - 1, 0>>))
         /\ i[1] \in ArithOps /\ i[3] = i[2] /\ i[4] = i[2]
            => Fine(cg, p, i, f, OneFor(LoadNumber(i[2], Folded(i[1], p[3], p[3]))))
<1> DEFINE d == i[2]
           k == p[3]
           g == Write(f, d, Num(k))
<1>1. p[1] \in PureOps /\ d \in R /\ k \in Int
  BY TupleFacts DEF PureOps, LoadOps, WritesDest, Fits
<1>2. Effect(p, f) = g
  BY <1>1, BothStraight, ValueFacts
<1>3. g.regs[d] = Num(k)
  <2>1. g.regs = [f.regs EXCEPT ![d] = Num(k)]
    BY DEF Write, Is
  <2> QED
    BY <1>1, <2>1 DEF Is
<1>4. \A w : Write(g, d, w) = Write(f, d, w)
  BY WriteTwice
<1>5. ASSUME NEW j, NEW n, i[1] \in PureOps, ValueOf(i, g.regs) = Num(n),
             j[1] \in PureOps, j[2] = d, Effect(j, f) = Write(f, d, Num(n))
      PROVE  Fine(cg, p, i, f, OneFor(j))
  <2>1. Effect(i, g) = Effect(j, f)
    BY <1>4, <1>5, PureFacts
  <2> QED
    BY <1>1, <1>2, <1>5, <2>1, OneIsFine DEF WritesDest
<1> HIDE DEF g
<1>6. ASSUME NEW n, i[1] \in PureOps, ValueOf(i, g.regs) = Num(n)
      PROVE  /\ Fine(cg, p, i, f, OneFor(LoadNumber(d, n)))
             /\ Fine(cg, p, i, f, OneFor(<<"LOAD_NUM_IMM", d, n, 0>>))
  <2>1. Fine(cg, p, i, f, OneFor(LoadNumber(d, n)))
    BY <1>5, <1>6, LoadNumberFacts
  <2> DEFINE j == <<"LOAD_NUM_IMM", d, n, 0>>
  <2>2. j[1] = "LOAD_NUM_IMM" /\ j[2] = d /\ j[3] = n
    OBVIOUS
  <2> HIDE DEF j
  <2>3. j[1] \in PureOps /\ ValueOf(j, f.regs) = Num(n)
    BY <2>2, ValueFacts DEF PureOps, LoadOps
  <2>4. Effect(j, f) = Write(f, d, Num(n))
    BY <2>2, <2>3, PureFacts
  <2>5. Fine(cg, p, i, f, OneFor(j))
    BY <1>5, <1>6, <2>2, <2>3, <2>4
  <2> QED
    BY <2>1, <2>5 DEF j
<1>7. ASSUME i[1] \in ImmOps, i[3] = i[2]
      PROVE  Fine(cg, p, i, f, OneFor(LoadNumber(d, Folded(i[1], k, i[4]))))
  <2>1. ValueOf(i, g.regs) = Num(Folded(i[1], k, i[4]))
    BY <1>3, <1>7, ValueFacts, FoldedIs
  <2> QED
    BY <1>6, <1>7, <2>1 DEF PureOps
<1>8. ASSUME i[1] = "NEG", i[3] = i[2] PROVE Fine(cg, p, i, f, OneFor(LoadNumber(d, -k)))
  <2>1. ValueOf(i, g.regs) = Num(0 - k)
    BY <1>3, <1>8, ValueFacts, ArithFacts
  <2>2. 0 - k = -k
    BY <1>1
  <2> QED
    BY <1>6, <1>8, <2>1, <2>2 DEF PureOps
<1>9. ASSUME i[1] = "INC" PROVE Fine(cg, p, i, f, OneFor(<<"LOAD_NUM_IMM", d, k + 1, 0>>))
  <2>1. ValueOf(i, g.regs) = Num(k + 1)
    BY <1>3, <1>9, ValueFacts, ArithFacts
  <2> QED
    BY <1>6, <1>9, <2>1 DEF PureOps
<1>10. ASSUME i[1] = "DEC" PROVE Fine(cg, p, i, f, OneFor(<<"LOAD_NUM_IMM", d, k - 1, 0>>))
  <2>1. ValueOf(i, g.regs) = Num(k - 1)
    BY <1>3, <1>10, ValueFacts, ArithFacts
  <2> QED
    BY <1>6, <1>10, <2>1 DEF PureOps
<1>11. ASSUME i[1] \in ArithOps, i[3] = i[2], i[4] = i[2]
       PROVE  Fine(cg, p, i, f, OneFor(LoadNumber(d, Folded(i[1], k, k))))
  <2>1. ValueOf(i, g.regs) = Num(Folded(i[1], k, k))
    BY <1>3, <1>11, ValueFacts, FoldedIs
  <2> QED
    BY <1>6, <1>11, <2>1 DEF PureOps
<1> QED
  BY <1>7, <1>8, <1>9, <1>10, <1>11

\* A jump on a constant that holds is a JUMP.
LEMMA FusesJump ==
  ASSUME NEW R, NEW cg, NEW p \in Instruction, NEW i \in Instruction, NEW f, Is(f, R),
         Fits(p, R), p[2] = i[3]
  PROVE  /\ /\ p[1] = "LOAD_NUM_IMM" /\ i[1] \in ImmJumps
            /\ Holds(JumpImmRel(i[1]), Num(p[3]), Num(i[4]))
            => Fine(cg, p, i, f, InFront(<<"JUMP", i[2], 0, 0>>))
         /\ p[1] = "LOAD_BOOL" /\ p[3] = 0 /\ i[1] = "JUMP_IF_FALSE"
            => Fine(cg, p, i, f, InFront(<<"JUMP", i[2], 0, 0>>))
<1> DEFINE t == p[2]
           v == ValueOf(p, f.regs)
           g == Write(f, t, v)
           j == <<"JUMP", i[2], 0, 0>>
<1> SUFFICES ASSUME p[1] \in LoadOps, i[1] \in ImmJumps \cup {"JUMP_IF_FALSE"}, t \in R,
                    \/ /\ p[1] = "LOAD_NUM_IMM" /\ i[1] \in ImmJumps
                       /\ Holds(JumpImmRel(i[1]), Num(p[3]), Num(i[4]))
                    \/ p[1] = "LOAD_BOOL" /\ p[3] = 0 /\ i[1] = "JUMP_IF_FALSE"
             PROVE  Fine(cg, p, i, f, InFront(j))
  BY DEF LoadOps, PureOps, WritesDest, Fits
<1>1. p[1] \in PureOps /\ i[1] \in JumpOps
  BY DEF PureOps, JumpOps
<1>2. \A h : Both(p, h, f) = Did(h, g)
  BY <1>1, BothStraight
<1>3. g.regs[t] = v
  <2>1. g.regs = [f.regs EXCEPT ![t] = v]
    BY WriteRegs
  <2> QED
    BY <2>1 DEF Is
<1> HIDE DEF g
<1>4. Taken(i, g)
  <2>1. CASE i[1] \in ImmJumps
    <3>1. p[1] = "LOAD_NUM_IMM" /\ Holds(JumpImmRel(i[1]), Num(p[3]), Num(i[4]))
      BY <2>1 DEF ImmJumps
    <3>2. g.regs[i[3]] = Num(p[3])
      BY <1>3, <3>1, ValueFacts
    <3>3. ~(i[1] \in RegJumps) /\ i[1] # "JUMP" /\ i[1] # "JUMP_IF_FALSE" /\ i[1] # "JUMP_IF_NONE"
          /\ i[1] # "JUMP_IF_NOT_NONE" /\ i[1] # "FOR_NEXT" /\ i[1] # "FOR_NEXT_LOOP"
      BY <2>1 DEF ImmJumps, RegJumps
    <3>4. Taken(i, g) = Holds(JumpImmRel(i[1]), g.regs[i[3]], Num(i[4]))
      BY <2>1, <3>3, Zenon DEF Taken
    <3> QED
      BY <3>1, <3>2, <3>4
  <2>2. CASE i[1] = "JUMP_IF_FALSE"
    <3>1. p[1] = "LOAD_BOOL" /\ p[3] = 0
      BY <2>2 DEF ImmJumps
    <3>2. g.regs[i[3]] = Bool(FALSE)
      BY <1>3, <3>1, ValueFacts
    <3>3. ~Truthy(g.regs[i[3]])
      BY <3>2 DEF Truthy, Bool
    <3>4. ~(i[1] \in RegJumps) /\ ~(i[1] \in ImmJumps)
      BY <2>2 DEF ImmJumps, RegJumps
    <3>5. Taken(i, g) = ~Truthy(g.regs[i[3]])
      BY <2>2, <3>4, Zenon DEF Taken
    <3> QED
      BY <3>3, <3>5
  <2> QED
    BY <2>1, <2>2
<1>5. j[1] = "JUMP" /\ j[2] = i[2]
  OBVIOUS
<1> HIDE DEF j
<1>6. j[1] \in JumpOps /\ Taken(j, g)
  <2>1. ~("JUMP" \in RegJumps) /\ ~("JUMP" \in ImmJumps)
    BY DEF RegJumps, ImmJumps
  <2> QED
    BY <1>5, <2>1, Zenon DEF Taken, JumpOps
<1>7. Did(i, g) = Did(j, g)
  BY <1>1, <1>4, <1>5, <1>6, JumpFacts DEF Did
<1>8. ~WritesDest(i[1])
  BY DEF ImmJumps, WritesDest, PureOps, LoadOps, ArithOps, ImmOps, CmpOps, CallOps
<1> QED
  BY <1>2, <1>7, <1>8, InsteadOne DEF Fine, AsGood, Settled

\* What is done and undone is left out, but of a boolean.
LEMMA FusesCancel ==
  ASSUME NEW R, NEW cg, NEW p \in Instruction, NEW i \in Instruction, NEW f, Is(f, R),
         Fits(p, R), Cancel(p, i), ~OnBoolean(p, i, f)
  PROVE  Fine(cg, p, i, f, OneFor(Nop))
<1> DEFINE d == i[2]
           v == f.regs[d]
<1>1. p[1] \in PureOps /\ i[1] \in PureOps /\ p[2] = d /\ p[3] = d /\ i[3] = d
  BY DEF Cancel, PureOps, ImmOps
<1>2. d \in R /\ v \in Value
  BY <1>1 DEF Fits, WritesDest, Is
<1>3. v = None \/ \E k \in Int : v = Num(k)
  BY <1>2, NoneAndNumbers DEF OnBoolean
<1> HIDE DEF v
<1> DEFINE x == ValueOf(p, f.regs)
           g == Write(f, d, x)
<1>4. Effect(p, f) = g
  BY <1>1, PureFacts
<1>5. g.regs[d] = x
  <2>1. g.regs = [f.regs EXCEPT ![d] = x]
    BY WriteRegs
  <2> QED
    BY <1>2, <2>1 DEF Is
<1>6. ValueOf(i, g.regs) = v
  <2>1. CASE p[1] = "NEG" /\ i[1] = "NEG"
    <3>1. x = Arith("SUB", Num(0), v) /\ ValueOf(i, g.regs) = Arith("SUB", Num(0), x)
      BY <1>1, <1>5, <2>1, ValueFacts DEF v
    <3>2. CASE v = None
      BY <3>1, <3>2, ArithFacts
    <3>3. CASE v # None
      <4>1. PICK k \in Int : v = Num(k)
        BY <1>3, <3>3
      <4>2. ValueOf(i, g.regs) = Num(0 - (0 - k))
        BY <3>1, <4>1, ArithFacts
      <4>3. 0 - (0 - k) = k
        OBVIOUS
      <4> QED
        BY <4>1, <4>2, <4>3
    <3> QED
      BY <3>2, <3>3
  <2>2. CASE p[1] \in {"ADD_IMM", "SUB_IMM"} /\ i[1] \in {"ADD_IMM", "SUB_IMM"}
    <3>1. x = Arith(p[1], v, Num(p[4])) /\ ValueOf(i, g.regs) = Arith(i[1], x, Num(i[4]))
      BY <1>1, <1>5, <2>2, ValueFacts DEF v, ImmOps
    <3>2. CASE v = None
      BY <3>1, <3>2, ArithFacts
    <3>3. CASE v # None
      <4>1. PICK k \in Int : v = Num(k)
        BY <1>3, <3>3
      <4>2. x = Num(k + Signed(p)) /\ k + Signed(p) \in Int
        BY <2>2, <3>1, <4>1, ArithFacts, TupleFacts DEF Signed
      <4>3. ValueOf(i, g.regs) = Num((k + Signed(p)) + Signed(i)) /\ Signed(i) \in Int /\ Signed(p) \in Int
        BY <2>2, <3>1, <4>2, ArithFacts, TupleFacts DEF Signed
      <4>4. Signed(p) + Signed(i) = 0
        BY <2>2 DEF Cancel
      <4>5. (k + Signed(p)) + Signed(i) = k
        BY <4>3, <4>4
      <4> QED
        BY <4>1, <4>3, <4>5
    <3> QED
      BY <3>2, <3>3
  <2> QED
    BY <2>1, <2>2 DEF Cancel
<1>7. Effect(i, g) = f
  <2>1. Effect(i, g) = Write(g, d, v)
    BY <1>1, <1>6, PureFacts
  <2>2. Write(g, d, v) = Write(f, d, v)
    BY WriteTwice
  <2>3. Write(f, d, v) = f
    <3>1. [f.regs EXCEPT ![d] = v] = f.regs
      BY DEF Is, v
    <3> QED
      BY <3>1, WriteForm DEF Is
  <2> QED
    BY <2>1, <2>2, <2>3
<1>8. Effect(Nop, f) = f /\ Straight(Nop, f)
  <2>1. IsNop(Nop)
    BY DEF IsNop, Nop
  <2> QED
    BY <2>1, IsFramed, NopKeepsFrame DEF Straight
<1>9. Straight(p, f) /\ Straight(i, g)
  BY <1>1, PureFacts
<1>10. Both(p, i, f) = Did(i, g)
  BY <1>4, <1>9 DEF Both
<1> HIDE DEF g
<1>11. Did(Nop, f) = Did(i, g)
  BY <1>7, <1>8, <1>9 DEF Did, Straight
<1> QED
  BY <1>10, <1>11, InsteadOne DEF Fine, AsGood, Settled

\* Two additions are one.
LEMMA FusesAddition ==
  ASSUME NEW R, NEW cg, NEW p \in Instruction, NEW i \in Instruction, NEW f, Is(f, R),
         Fits(p, R), ~OnBoolean(p, i, f),
         p[1] \in {"ADD_IMM", "SUB_IMM"}, i[1] \in {"ADD_IMM", "SUB_IMM"},
         i[3] = i[2], p[2] = i[2], p[3] = i[2]
  PROVE  Fine(cg, p, i, f, OneFor(AddSigned(i[2], Signed(p) + Signed(i))))
<1> DEFINE d == i[2]
           n == Signed(p) + Signed(i)
           v == f.regs[d]
           x == ValueOf(p, f.regs)
           g == Write(f, d, x)
           j == AddSigned(d, n)
<1>1. Signed(p) \in Int /\ Signed(i) \in Int /\ n \in Int
  BY TupleFacts DEF Signed
<1>2. CASE n = 0
  <2>1. j = Nop /\ Cancel(p, i)
    BY <1>2 DEF AddSigned, Cancel
  <2> QED
    BY <2>1, FusesCancel
<1>3. CASE n # 0
  <2>1. p[1] \in PureOps /\ i[1] \in PureOps /\ p[1] \in ImmOps /\ i[1] \in ImmOps
    BY DEF PureOps, ImmOps
  <2>2. d \in R /\ v \in Value
    BY <2>1 DEF Fits, WritesDest, Is
  <2>3. Effect(p, f) = g
    BY <2>1, PureFacts
  <2>4. g.regs[d] = x
    <3>1. g.regs = [f.regs EXCEPT ![d] = x]
      BY WriteRegs
    <3> QED
      BY <2>2, <3>1 DEF Is
  <2>5. /\ j[1] \in {"ADD_IMM", "SUB_IMM"} /\ j[2] = d /\ j[3] = d /\ Signed(j) = n
        /\ j[1] = "ADD_IMM" => j[4] = n
        /\ j[1] = "SUB_IMM" => j[4] = -n
    <3>1. n > 0 \/ n < 0
      BY <1>1, <1>3
    <3>2. CASE n > 0
      <4>1. j = <<"ADD_IMM", d, d, n>>
        BY <1>1, <1>3, <3>2 DEF AddSigned
      <4> HIDE DEF j, n
      <4> QED
        BY <4>1 DEF Signed
    <3>3. CASE n < 0
      <4>1. j = <<"SUB_IMM", d, d, -n>>
        BY <1>1, <1>3, <3>3 DEF AddSigned
      <4> HIDE DEF j, n
      <4> QED
        BY <1>1, <4>1 DEF Signed
    <3> QED
      BY <3>1, <3>2, <3>3
  <2> HIDE DEF j, n, v, x, g
  <2>6. j[1] \in PureOps /\ j[1] \in ImmOps
    BY <2>5 DEF PureOps, ImmOps
  <2>7. /\ x = Arith(p[1], v, Num(p[4])) /\ ValueOf(i, g.regs) = Arith(i[1], x, Num(i[4]))
        /\ ValueOf(j, f.regs) = Arith(j[1], v, Num(j[4]))
    BY <2>1, <2>4, <2>5, <2>6, ValueFacts DEF x, v
  <2>8. ValueOf(i, g.regs) = ValueOf(j, f.regs)
    <3>1. CASE \E k \in Int : v = Num(k)
      <4>1. PICK k \in Int : v = Num(k)
        BY <3>1
      <4>2. x = Num(k + Signed(p)) /\ k + Signed(p) \in Int
        BY <2>7, <4>1, ArithFacts, TupleFacts DEF Signed
      <4>3. ValueOf(i, g.regs) = Num((k + Signed(p)) + Signed(i))
        BY <2>7, <4>2, ArithFacts, TupleFacts DEF Signed
      <4>4. ValueOf(j, f.regs) = Num(k + n)
        <5>1. k - (-n) = k + n
          BY <1>1
        <5> QED
          BY <2>5, <2>7, <4>1, <5>1, ArithFacts
      <4>5. (k + Signed(p)) + Signed(i) = k + n
        BY <1>1 DEF n
      <4> QED
        BY <4>3, <4>4, <4>5
    <3>2. CASE ~(\E k \in Int : v = Num(k))
      <4>1. ~IsNum(v)
        BY <2>2, <3>2, ArithFacts
      <4> QED
        BY <2>7, <4>1, ArithFacts
    <3> QED
      BY <3>1, <3>2
  <2>9. Effect(i, g) = Effect(j, f)
    <3>1. Effect(i, g) = Write(g, d, ValueOf(i, g.regs)) /\ Effect(j, f) = Write(f, d, ValueOf(j, f.regs))
      BY <2>1, <2>5, <2>6, PureFacts
    <3> QED
      BY <2>8, <3>1, WriteTwice DEF g
  <2>10. Fine(cg, p, i, f, OneFor(j))
    BY <2>1, <2>3, <2>5, <2>6, <2>9, OneIsFine DEF WritesDest
  <2> QED
    BY <2>10 DEF j, n
<1> QED
  BY <1>2, <1>3

\* A move back moves nothing.
LEMMA FusesMoveBack ==
  ASSUME NEW R, NEW cg, NEW p \in Instruction, NEW i \in Instruction, NEW f, Is(f, R),
         Fits(p, R), ~IsNop(i), p[1] = "MOVE", i[1] = "MOVE", p[2] = i[3], p[3] = i[2]
  PROVE  Fine(cg, p, i, f, OneFor(p))
<1> DEFINE a == i[2]
           t == p[2]
           v == f.regs[a]
           g == Write(f, t, v)
<1>1. p[1] \in PureOps /\ i[1] \in PureOps /\ WritesDest(p[1]) /\ a # t
  BY DEF PureOps, WritesDest, IsNop
<1>2. Effect(p, f) = g
  BY <1>1, PureFacts, ValueFacts
<1>3. t \in R /\ a \in R
  BY <1>1, ReadsFacts DEF Fits
<1>4. g.regs = [f.regs EXCEPT ![t] = v] /\ g = [g EXCEPT !.regs = g.regs]
  <2>1. g = [regs |-> [f.regs EXCEPT ![t] = v], args |-> f.args, iters |-> f.iters,
             out |-> f.out, value |-> f.value]
    BY WriteForm
  <2> HIDE DEF g
  <2> QED
    BY <2>1
<1>5. g.regs[t] = v /\ g.regs[a] = v /\ [g.regs EXCEPT ![a] = v] = g.regs
  BY <1>1, <1>3, <1>4 DEF Is
<1> HIDE DEF g
<1>6. ValueOf(i, g.regs) = v
  BY <1>5, ValueFacts
<1>7. Effect(i, g) = g
  <2>1. Effect(i, g) = Write(g, a, v)
    BY <1>1, <1>6, PureFacts
  <2> QED
    BY <1>4, <1>5, <2>1 DEF Write
<1>8. Straight(p, f) /\ Straight(i, g)
  BY <1>1, PureFacts
<1>9. Both(p, i, f) = Did(i, g) /\ Did(i, g) = Did(p, f)
  BY <1>2, <1>7, <1>8 DEF Both, Did, Straight
<1> QED
  BY <1>2, <1>7, <1>9, InsteadOne DEF Fine, AsGood, Settled

LEMMA FusionIsFine ==
  ASSUME NEW R, NEW cg, NEW p \in Instruction, NEW i \in Instruction, NEW f, Is(f, R),
         Fits(p, R), Fits(i, R), ~LosesMove(p, i), ~OnBoolean(p, i, f)
  PROVE  Fine(cg, p, i, f, Fusion(cg, p, i))
<1> DEFINE u == Fusion(cg, p, i)
           d == i[2]
<1>1. /\ p[1] \in LoadOps \cup {"MOVE"} => p[1] \in PureOps
      /\ p[1] \in {"LOAD_NONE", "LOAD_NUM_IMM", "LOAD_BOOL"} => p[1] \in LoadOps
  BY DEF PureOps, LoadOps
<1>2. IsNop(i) /\ u = OneFor(p) => Fine(cg, p, i, f, u)
  BY FusesNop
<1>3. IsNop(p) /\ u = OneFor(i) => Fine(cg, p, i, f, u)
  BY FusesNop
<1>4. ASSUME ~IsNop(i), ~IsNop(p) PROVE Fine(cg, p, i, f, u)
  <2>1. /\ p[1] \in LoadOps /\ i[1] = "MOVE" /\ p[2] = i[3] /\ ~IsHome(cg, p[2])
        /\ u = OneFor([p EXCEPT ![2] = d])
        => Fine(cg, p, i, f, u)
    BY <1>4, FusesLoad
  <2>2. ASSUME \/ /\ i[1] \in ValueReturns /\ p[1] = "LOAD_NONE" /\ p[2] = d
                  /\ u = OneFor(<<"RETURN_NONE", 0, 0, 0>>)
               \/ /\ i[1] \in {"RETURN", "RETURN_NUM"} /\ p[1] = "LOAD_NUM_IMM" /\ p[2] = d
                  /\ u = OneFor(<<"RETURN_NUM_IMM", 0, p[3], 0>>)
               \/ /\ i[1] \in ValueReturns /\ p[1] = "MOVE" /\ p[2] = d
                  /\ u = OneFor(<<i[1], p[3], 0, 0>>)
               \/ /\ i[1] = "RETURN_NONE" /\ p[1] \in PureOps
                  /\ u = OneFor(<<"RETURN_NONE", 0, 0, 0>>)
        PROVE  Fine(cg, p, i, f, u)
    <3>1. p[1] \in PureOps
      BY <1>1, <2>2
    <3> HIDE DEF u
    <3> QED
      BY <2>2, <3>1, FusesReturn
  <2>3. /\ WritesDest(i[1]) /\ p[1] \in PureOps /\ p[2] = d /\ ~ReadsReg(i, d)
        /\ u = OneFor(i)
        => Fine(cg, p, i, f, u)
    BY FusesDeadStore
  <2>4. /\ ReadsReg(i, d) /\ p[1] = "MOVE" /\ WritesDest(i[1]) /\ p[2] = d
        /\ u = OneFor(Substituted(i, d, p[3], {3, 4}))
        => Fine(cg, p, i, f, u)
    BY <1>4, FusesMove
  <2>5. /\ p[1] = "MOVE" /\ WritesDest(i[1]) /\ \E s \in SourceSlots(i[1]) : i[s] = p[2]
        /\ u = InFront(Substituted(i, p[2], p[3], SourceSlots(i[1])))
        => Fine(cg, p, i, f, u)
    BY <1>4, FusesSource
  <2>6. ASSUME p[1] = "LOAD_NUM_IMM", p[2] = d,
               \/ /\ i[1] \in ImmOps /\ i[3] = d
                  /\ u = OneFor(LoadNumber(d, Folded(i[1], p[3], i[4])))
               \/ i[1] = "NEG" /\ i[3] = d /\ u = OneFor(LoadNumber(d, -p[3]))
               \/ i[1] = "INC" /\ u = OneFor(<<"LOAD_NUM_IMM", d, p[3] + 1, 0>>)
               \/ i[1] = "DEC" /\ u = OneFor(<<"LOAD_NUM_IMM", d, p[3] - 1, 0>>)
               \/ /\ i[1] \in ArithOps /\ i[3] = d /\ i[4] = d
                  /\ u = OneFor(LoadNumber(d, Folded(i[1], p[3], p[3])))
        PROVE  Fine(cg, p, i, f, u)
    <3> HIDE DEF u
    <3> QED
      BY <2>6, FusesConstant
  <2>7. ASSUME p[2] = i[3], u = InFront(<<"JUMP", d, 0, 0>>),
               \/ /\ p[1] = "LOAD_NUM_IMM" /\ i[1] \in ImmJumps
                  /\ Holds(JumpImmRel(i[1]), Num(p[3]), Num(i[4]))
               \/ p[1] = "LOAD_BOOL" /\ p[3] = 0 /\ i[1] = "JUMP_IF_FALSE"
        PROVE  Fine(cg, p, i, f, u)
    <3> HIDE DEF u
    <3> QED
      BY <2>7, FusesJump
  <2>8. /\ p[1] = "NEG" /\ i[1] = "NEG" /\ i[3] = d /\ p[2] = d /\ p[3] = d
        /\ u = OneFor(Nop)
        => Fine(cg, p, i, f, u)
    BY FusesCancel DEF Cancel
  <2>9. /\ p[1] \in {"ADD_IMM", "SUB_IMM"} /\ i[1] \in {"ADD_IMM", "SUB_IMM"}
        /\ i[3] = d /\ p[2] = d /\ p[3] = d
        /\ u = OneFor(AddSigned(d, Signed(p) + Signed(i)))
        => Fine(cg, p, i, f, u)
    BY FusesAddition
  <2>10. p[1] = "MOVE" /\ i[1] = "MOVE" /\ p[2] = i[3] /\ p[3] = d /\ u = OneFor(p)
         => Fine(cg, p, i, f, u)
    BY <1>4, FusesMoveBack
  <2>11. ASSUME u = InFront(i) PROVE Fine(cg, p, i, f, u)
    <3>1. InFront(i).inst = i
      BY DEF InFront
    <3> HIDE DEF u
    <3> QED
      BY <2>11, <3>1, InsteadOne DEF Fine, AsGood, Settled
  <2> HIDE DEF u
  <2>12. Rewrites(cg, p, i, u)
    BY <1>4, FusionRules DEF u
  <2> QED
    BY <2>1, <2>2, <2>3, <2>4, <2>5, <2>6, <2>7, <2>8, <2>9, <2>10, <2>11, <2>12 DEF Rewrites
<1> HIDE DEF u
<1>5. \/ IsNop(i) /\ u = OneFor(p)
      \/ IsNop(p) /\ u = OneFor(i)
      \/ ~IsNop(i) /\ ~IsNop(p)
  BY FusionRules DEF u
<1>6. Fine(cg, p, i, f, u)
  BY <1>2, <1>3, <1>4, <1>5
<1> QED
  BY <1>6 DEF u

\* try_peephole_fuse: what it makes of two adjacent instructions does what
\* they did, whatever they are and whatever the registers hold.  Excepted are
\* the moves it loses, which emission marks as flaw "moveThenWrite", and two
\* instructions that cancel on a boolean.
THEOREM FusionCorrect ==
  ASSUME NEW R, NEW cg, NEW p \in Instruction, NEW i \in Instruction, NEW f, Is(f, R),
         Fits(p, R), Fits(i, R), ~LosesMove(p, i), ~OnBoolean(p, i, f)
  PROVE  AsGood(cg, p, i, f, Fusion(cg, p, i))
BY FusionIsFine DEF Fine

-------------------------------------------------------------------------------
(* opt_const_cache_invalidate and resolve_jump_target.                       *)

\* One entry less, and none that was not there.
LEMMA DropFirstFacts ==
  ASSUME NEW S, NEW s \in Seq(S), NEW w
  PROVE  /\ DropFirst(s, w) \in Seq(S)
         /\ \A j \in DOMAIN DropFirst(s, w) : \E k \in DOMAIN s : DropFirst(s, w)[j] = s[k]
         /\ IF Hits(s, w) = {} THEN DropFirst(s, w) = s ELSE Len(DropFirst(s, w)) = Len(s) - 1
<1> DEFINE m == Min(Hits(s, w))
           q == [s EXCEPT ![m] = Last(s)]
<1>1. CASE Hits(s, w) = {}
  BY <1>1 DEF DropFirst
<1>2. CASE Hits(s, w) # {}
  <2>1. Hits(s, w) \subseteq 1 .. Len(s) /\ Len(s) \in Nat
    BY DEF Hits
  <2>2. m \in Hits(s, w)
    <3>1. PICK n \in Hits(s, w) : \A k \in Hits(s, w) : n <= k
      <4>1. Hits(s, w) \subseteq Nat
        BY <2>1
      <4> QED
        BY <1>2, <4>1, Least
    <3> QED
      BY <3>1 DEF Min
  <2> HIDE DEF m
  <2>3. m \in 1 .. Len(s) /\ Len(s) \in 1 .. Len(s)
    BY <2>1, <2>2
  <2>4. q \in Seq(S) /\ Len(q) = Len(s) /\ \A j \in 1 .. Len(s) : q[j] = IF j = m THEN s[Len(s)] ELSE s[j]
    BY <2>3 DEF Last
  <2>5. DropFirst(s, w) = Front(q)
    BY <1>2 DEF DropFirst, m
  <2> HIDE DEF q
  <2>6. Front(q) \in Seq(S) /\ Len(Front(q)) = Len(s) - 1 /\ \A j \in 1 .. Len(s) - 1 : Front(q)[j] = q[j]
    BY <2>3, <2>4 DEF Front
  <2>7. \A j \in DOMAIN Front(q) : \E k \in DOMAIN s : Front(q)[j] = s[k]
    BY <2>3, <2>4, <2>6
  <2> QED
    BY <1>2, <2>5, <2>6, <2>7
<1> QED
  BY <1>1, <1>2

\* What is left of the entries s after n turns of opt_const_cache_invalidate.
IsLeft(h, s, w, n) == /\ \A j \in DOMAIN h : \E k \in DOMAIN s : h[j] = s[k]
                      /\ Hits(h, w) = {} \/ Len(h) = Len(s) - n

LEMMA OneLess ==
  ASSUME NEW S, NEW s \in Seq(S), NEW w, NEW n \in Nat, NEW h \in Seq(S), IsLeft(h, s, w, n)
  PROVE  IsLeft(DropFirst(h, w), s, w, n + 1)
<1> DEFINE d == DropFirst(h, w)
<1>1. /\ d \in Seq(S)
      /\ \A j \in DOMAIN d : \E k \in DOMAIN h : d[j] = h[k]
      /\ IF Hits(h, w) = {} THEN d = h ELSE Len(d) = Len(h) - 1
  BY DropFirstFacts
<1> HIDE DEF d
<1>2. \A j \in DOMAIN d : \E k \in DOMAIN s : d[j] = s[k]
  BY <1>1 DEF IsLeft
<1>3. Hits(d, w) = {} \/ Len(d) = Len(s) - (n + 1)
  BY <1>1 DEF IsLeft
<1> QED
  BY <1>2, <1>3 DEF IsLeft, d

\* opt_const_cache_invalidate leaves no entry of the register, and adds none.
LEMMA DropRegFacts ==
  ASSUME NEW S, NEW s \in Seq(S), NEW w
  PROVE  /\ DropReg(s, w) \in Seq(S) /\ Hits(DropReg(s, w), w) = {}
         /\ \A j \in DOMAIN DropReg(s, w) : \E k \in DOMAIN s : DropReg(s, w)[j] = s[k]
<1> DEFINE top == Len(s)
           T == Seq(S)
           Turns(f) == f = [n \in 0 .. top |-> IF n = 0 THEN s ELSE DropFirst(f[n - 1], w)]
           G == [x \in Nat \X T |-> DropFirst(x[2], w)]
           left == CHOOSE f : Turns(f)
<1>1. G \in [Nat \X T -> T]
  BY DropFirstFacts
<1>2. \A n \in Nat, q \in T : G[<<n, q>>] = DropFirst(q, w)
  OBVIOUS
<1>3. s \in T /\ top \in Nat
  OBVIOUS
<1> HIDE DEF G, T, top
<1>4. PICK f : IsIterate(f, T, s, top, G)
  BY <1>1, <1>3, Iterates
<1>5. Turns(f)
  <2>1. \A n \in 0 .. top : f[n] = IF n = 0 THEN s ELSE DropFirst(f[n - 1], w)
    <3> TAKE n \in 0 .. top
    <3>1. CASE n = 0
      BY <1>4, <3>1 DEF IsIterate
    <3>2. CASE n # 0
      <4>1. n \in 1 .. top /\ n - 1 \in 0 .. top /\ n \in Nat
        BY <1>3, <3>2
      <4>2. f[n - 1] \in T
        BY <1>4, <4>1 DEF IsIterate
      <4> QED
        BY <1>2, <1>4, <3>2, <4>1, <4>2 DEF IsIterate
    <3> QED
      BY <3>1, <3>2
  <2>2. f = [n \in 0 .. top |-> f[n]]
    BY <1>4 DEF IsIterate
  <2> QED
    BY <2>1, <2>2
<1>6. Turns(left)
  <2> HIDE DEF Turns
  <2> QED
    BY <1>5
<1>7. DropReg(s, w) = left[top]
  BY DEF DropReg, top
<1> HIDE DEF left
<1>8. left[0] = s /\ \A n \in 1 .. top : left[n] = DropFirst(left[n - 1], w)
  BY <1>3, <1>6
<1> DEFINE N == {n \in Nat : n <= top => left[n] \in T /\ IsLeft(left[n], s, w, n)}
<1>9. 0 \in N
  <2>1. IsLeft(s, s, w, 0)
    BY <1>3 DEF IsLeft, T, top
  <2> QED
    BY <1>3, <1>8, <2>1
<1>10. ASSUME NEW n \in Nat, n \in N PROVE n + 1 \in N
  <2>1. ASSUME n + 1 <= top PROVE left[n + 1] \in T /\ IsLeft(left[n + 1], s, w, n + 1)
    <3>1. n + 1 \in 1 .. top /\ (n + 1) - 1 = n /\ n <= top
      BY <1>3, <2>1
    <3>2. left[n + 1] = DropFirst(left[n], w)
      BY <1>8, <3>1
    <3>3. left[n] \in T /\ IsLeft(left[n], s, w, n)
      BY <1>10, <3>1
    <3> QED
      BY <3>2, <3>3, DropFirstFacts, OneLess DEF T
  <2> QED
    BY <2>1
<1> HIDE DEF N
<1>11. \A n \in Nat : n \in N
  BY <1>9, <1>10, AllNaturals
<1>12. left[top] \in T /\ IsLeft(left[top], s, w, top)
  BY <1>3, <1>11 DEF N
<1> DEFINE h == left[top]
<1> HIDE DEF h
<1>13. h \in Seq(S) /\ (Hits(h, w) = {} \/ Len(h) = 0) /\ \A j \in DOMAIN h : \E k \in DOMAIN s : h[j] = s[k]
  <2>1. Len(s) - top = 0
    BY DEF top
  <2> QED
    BY <1>12, <2>1 DEF IsLeft, T, h
<1>14. Hits(h, w) = {}
  BY <1>13 DEF Hits
<1> QED
  BY <1>7, <1>13, <1>14 DEF h

\* Following JUMPs leads to no pc but those a hop leads to.
LEMMA FollowStays ==
  ASSUME NEW S, NEW c, NEW p \in S, NEW hops \in Nat, \A q \in S : Hop(c, q) \in S
  PROVE  FollowJumps(c, p, hops) \in S
<1> DEFINE Turns(f) == f = [n \in 0 .. hops |-> IF n = 0 THEN p ELSE Hop(c, f[n - 1])]
           G == [x \in Nat \X S |-> Hop(c, x[2])]
           to == CHOOSE f : Turns(f)
<1>1. G \in [Nat \X S -> S]
  OBVIOUS
<1>2. \A n \in Nat, q \in S : G[<<n, q>>] = Hop(c, q)
  OBVIOUS
<1> HIDE DEF G
<1>3. PICK f : IsIterate(f, S, p, hops, G)
  BY <1>1, Iterates
<1>4. Turns(f)
  <2>1. \A n \in 0 .. hops : f[n] = IF n = 0 THEN p ELSE Hop(c, f[n - 1])
    <3> TAKE n \in 0 .. hops
    <3>1. CASE n = 0
      BY <1>3, <3>1 DEF IsIterate
    <3>2. CASE n # 0
      <4>1. n \in 1 .. hops /\ n - 1 \in 0 .. hops /\ n \in Nat
        BY <3>2
      <4>2. f[n - 1] \in S
        BY <1>3, <4>1 DEF IsIterate
      <4> QED
        BY <1>2, <1>3, <3>2, <4>1, <4>2 DEF IsIterate
    <3> QED
      BY <3>1, <3>2
  <2>2. f = [n \in 0 .. hops |-> f[n]]
    BY <1>3 DEF IsIterate
  <2> QED
    BY <2>1, <2>2
<1>5. Turns(to)
  <2> HIDE DEF Turns
  <2> QED
    BY <1>4
<1>6. FollowJumps(c, p, hops) = to[hops]
  BY DEF FollowJumps
<1> HIDE DEF to
<1>7. to[0] = p /\ \A n \in 1 .. hops : to[n] = Hop(c, to[n - 1])
  BY <1>5
<1> DEFINE N == {n \in Nat : n <= hops => to[n] \in S}
<1>8. 0 \in N
  BY <1>7
<1>9. ASSUME NEW n \in Nat, n \in N PROVE n + 1 \in N
  <2>1. ASSUME n + 1 <= hops PROVE to[n + 1] \in S
    <3>1. n + 1 \in 1 .. hops /\ (n + 1) - 1 = n /\ n <= hops
      BY <2>1
    <3>2. to[n + 1] = Hop(c, to[n])
      BY <1>7, <3>1
    <3> QED
      BY <1>9, <3>1, <3>2
  <2> QED
    BY <2>1
<1> HIDE DEF N
<1>10. \A n \in Nat : n \in N
  BY <1>8, <1>9, AllNaturals
<1> QED
  BY <1>6, <1>10 DEF N

-------------------------------------------------------------------------------
(* What an instruction computes is a value.                                  *)

\* What the compiler folds is a number.
LEMMA FoldedIsInt ==
  ASSUME NEW op \in ArithOps \cup ImmOps, NEW a \in Int, NEW b \in Int
  PROVE  Folded(op, a, b) \in Int
<1> DEFINE A == {"ADD", "ADD_IMM"}
           S == {"SUB", "SUB_IMM"}
           M == {"MUL", "MUL_IMM"}
<1>1. /\ op \in A => ~(op \in S) /\ ~(op \in M)
      /\ op \in S => ~(op \in A) /\ ~(op \in M)
      /\ op \in M => ~(op \in A) /\ ~(op \in S)
      /\ op \in A \/ op \in S \/ op \in M
  BY DEF ArithOps, ImmOps
<1>2. \A k : IsNum(Num(k)) /\ Num(k)[2] = k
  BY DEF IsNum, Num
<1>3. Arith(op, Num(a), Num(b)) = Num(CASE op \in A -> Num(a)[2] + Num(b)[2]
                                        [] op \in S -> Num(a)[2] - Num(b)[2]
                                        [] op \in M -> Num(a)[2] * Num(b)[2])
  BY <1>2, Zenon DEF Arith
<1> HIDE DEF A, S, M
<1>4. CASE op \in A
  <2>1. Arith(op, Num(a), Num(b)) = Num(Num(a)[2] + Num(b)[2])
    BY <1>1, <1>3, <1>4, Zenon
  <2> QED
    BY <1>2, <2>1 DEF Folded
<1>5. CASE op \in S
  <2>1. Arith(op, Num(a), Num(b)) = Num(Num(a)[2] - Num(b)[2])
    BY <1>1, <1>3, <1>5, Zenon
  <2> QED
    BY <1>2, <2>1 DEF Folded
<1>6. CASE op \in M
  <2>1. Arith(op, Num(a), Num(b)) = Num(Num(a)[2] * Num(b)[2])
    BY <1>1, <1>3, <1>6, Zenon
  <2>2. Arith(op, Num(a), Num(b)) = Num(a * b) /\ a * b \in Int
    BY <1>2, <2>1
  <2> QED
    BY <1>2, <2>2 DEF Folded
<1> QED
  BY <1>1, <1>4, <1>5, <1>6

LEMMA HoldsIsBoolean ==
  ASSUME NEW rel, NEW v, NEW w
  PROVE  Holds(rel, v, w) \in BOOLEAN
<1>1. CASE rel = "EQ"
  BY <1>1 DEF Holds
<1>2. CASE rel = "NEQ"
  BY <1>2 DEF Holds
<1>3. CASE rel = "NEQ_NUM"
  BY <1>3 DEF Holds
<1>4. CASE rel \notin {"EQ", "NEQ", "NEQ_NUM"}
  <2> DEFINE rest == CASE rel = "EQ_NUM" -> v[2] = w[2]
                       [] rel = "LT"  -> v[2] < w[2]
                       [] rel = "GT"  -> v[2] > w[2]
                       [] rel = "LTE" -> v[2] <= w[2]
                       [] rel = "GTE" -> v[2] >= w[2]
  <2>1. Holds(rel, v, w) = (IsNum(v) /\ IsNum(w) /\ rest)
    BY <1>4, Zenon DEF Holds
  <2> HIDE DEF rest
  <2> QED
    BY <2>1
<1> QED
  BY <1>1, <1>2, <1>3, <1>4

\* Arithmetic on values is a value.
LEMMA ArithIsValue ==
  ASSUME NEW op \in ArithOps \cup ImmOps, NEW v \in Value, NEW w \in Value
  PROVE  Arith(op, v, w) \in Value
<1>1. CASE IsNum(v) /\ IsNum(w)
  <2>1. PICK a \in Int, b \in Int : v = Num(a) /\ w = Num(b)
    BY <1>1, ArithFacts
  <2>2. Arith(op, v, w) = Num(Folded(op, a, b))
    BY <2>1, FoldedIs
  <2>3. Folded(op, a, b) \in Int
    BY FoldedIsInt
  <2> QED
    BY <2>2, <2>3 DEF Value
<1>2. CASE ~(IsNum(v) /\ IsNum(w))
  BY <1>2, ArithFacts DEF Value
<1> QED
  BY <1>1, <1>2

\* What an instruction writes to its first operand is a value.
LEMMA ValueIs ==
  ASSUME NEW R, NEW r \in [R -> Value], NEW i \in Instruction, i[1] \in PureOps, Fits(i, R)
  PROVE  ValueOf(i, r) \in Value
<1>1. /\ None \in Value /\ \A k \in Int : Num(k) \in Value
      /\ \A b \in BOOLEAN : Bool(b) \in Value
  BY DEF Value
<1>2. /\ \A x : ReadsReg(i, x) => r[x] \in Value
      /\ i[2] \in R /\ i[3] \in Int /\ i[4] \in Int
  BY TupleFacts DEF Fits, WritesDest
<1>3. CASE i[1] = "MOVE"
  <2>1. r[i[3]] \in Value
    BY <1>2, <1>3, ReadsFacts
  <2> QED
    BY <1>3, <2>1, ValueFacts
<1>4. CASE i[1] \in LoadOps
  <2>1. CASE i[1] \in {"LOAD_NUM_IMM", "LOAD_NUM"}
    BY <1>1, <1>2, <2>1, ValueFacts
  <2>2. CASE i[1] = "LOAD_BOOL"
    <3>1. ValueOf(i, r) = Bool(i[3] = 1) /\ (i[3] = 1) \in BOOLEAN
      BY <2>2, ValueFacts
    <3> QED
      BY <1>1, <3>1
  <2>3. CASE i[1] = "LOAD_NONE"
    BY <1>1, <2>3, ValueFacts
  <2> QED
    BY <1>4, <2>1, <2>2, <2>3 DEF LoadOps
<1>5. CASE i[1] \in ArithOps
  <2>1. r[i[3]] \in Value /\ r[i[4]] \in Value
    BY <1>2, <1>5, ReadsFacts
  <2> QED
    BY <1>5, <2>1, ValueFacts, ArithIsValue
<1>6. CASE i[1] \in ImmOps
  <2>1. r[i[3]] \in Value
    BY <1>2, <1>6, ReadsFacts
  <2> QED
    BY <1>1, <1>2, <1>6, <2>1, ValueFacts, ArithIsValue
<1>7. CASE i[1] = "NEG"
  <2>1. r[i[3]] \in Value
    BY <1>2, <1>7, ReadsFacts
  <2>2. "SUB" \in ArithOps
    BY DEF ArithOps
  <2> QED
    BY <1>1, <1>7, <2>1, <2>2, ValueFacts, ArithIsValue
<1>8. CASE i[1] \in {"INC", "DEC"}
  <2>1. r[i[2]] \in Value
    BY <1>2
  <2>2. "SUB" \in ArithOps /\ "ADD" \in ArithOps
    BY DEF ArithOps
  <2> QED
    BY <1>1, <1>8, <2>1, <2>2, ValueFacts, ArithIsValue
<1>9. CASE i[1] \in CmpOps
  <2>1. ValueOf(i, r) = Bool(Holds(CmpRel(i[1]), r[i[3]], r[i[4]]))
    BY <1>9, ValueFacts
  <2>2. \A rel, v, w : Holds(rel, v, w) \in BOOLEAN
    BY HoldsIsBoolean
  <2> QED
    BY <1>1, <2>1, <2>2
<1> QED
  BY <1>3, <1>4, <1>5, <1>6, <1>7, <1>8, <1>9 DEF PureOps

\* An instruction writes its destination, if it has one, and no other register.
LEMMA EffectIs ==
  ASSUME NEW R, NEW f, Is(f, R), NEW i \in Instruction, Fits(i, R), ~(i[1] \in ForOps \cup ReturnOps)
  PROVE  /\ Is(Effect(i, f), R)
         /\ \A x \in R : (WritesDest(i[1]) => x # i[2]) => Effect(i, f).regs[x] = f.regs[x]
<1> DEFINE g == Effect(i, f)
<1>1. f.regs \in [R -> Value]
  BY DEF Is
<1>2. ASSUME NEW v \in Value, WritesDest(i[1]), NEW a, NEW o,
             g = [regs |-> [f.regs EXCEPT ![i[2]] = v], args |-> a, iters |-> f.iters,
                  out |-> o, value |-> f.value]
      PROVE  /\ Is(g, R)
             /\ \A x \in R : (WritesDest(i[1]) => x # i[2]) => g.regs[x] = f.regs[x]
  <2>1. g.regs = [f.regs EXCEPT ![i[2]] = v]
    BY <1>2
  <2>2. g.regs \in [R -> Value] /\ \A x \in R : x # i[2] => g.regs[x] = f.regs[x]
    BY <1>1, <2>1
  <2> QED
    BY <1>2, <2>2 DEF Is
<1>3. CASE i[1] \in PureOps
  <2>1. g = Write(f, i[2], ValueOf(i, f.regs)) /\ ValueOf(i, f.regs) \in Value
    BY <1>1, <1>3, PureFacts, ValueIs
  <2> QED
    BY <1>2, <1>3, <2>1, WriteForm DEF WritesDest
<1>4. CASE i[1] = "CALL_BUILTIN"
  <2>1. None \in Value /\ WritesDest(i[1])
    BY <1>4 DEF Value, WritesDest, CallOps
  <2> QED
    BY <1>2, <1>4, <2>1, BuiltinForm
<1>5. CASE i[1] \in {"CALL_1", "CALL_2"}
  <2>1. WritesDest(i[1])
    BY <1>5 DEF WritesDest, CallOps
  <2>2. f.regs[i[4]] \in Value
    BY <1>1, <1>5, <2>1, ReadsFacts DEF Fits
  <2>3. Passed(i, f.regs)[1] \in Value
    BY <2>2 DEF Passed
  <2>4. CallResult(Passed(i, f.regs)) \in Value
    <3>1. Num(10) \in Value /\ "ADD" \in ArithOps
      BY DEF Value, ArithOps
    <3> QED
      BY <2>3, <3>1, ArithIsValue DEF CallResult
  <2> QED
    BY <1>2, <1>5, <2>1, <2>4, UserForm
<1>6. CASE i[1] \in JumpOps
  BY <1>6, JumpFacts DEF JumpOps, ImmJumps, RegJumps, NoneJumps, WritesDest, PureOps, LoadOps,
                         ArithOps, ImmOps, CmpOps, CallOps
<1>7. CASE i[1] \in {"PUSH_ARG", "FOR_INIT", "POP_ITER"}
  <2>1. /\ ~WritesDest(i[1]) /\ ~(i[1] \in JumpOps) /\ ~(i[1] \in ForOps) /\ ~(i[1] \in CallOps)
        /\ ~(i[1] \in ReturnOps)
    BY <1>7 DEF JumpOps, ImmJumps, RegJumps, NoneJumps, WritesDest, PureOps, LoadOps,
                ArithOps, ImmOps, CmpOps, CallOps, ForOps, ReturnOps
  <2>2. (\E a : g = [f EXCEPT !.args = a]) \/ (\E a : g = [f EXCEPT !.iters = a])
    <3>1. CASE i[1] = "PUSH_ARG"
      BY <2>1, <3>1, Zenon DEF Effect
    <3>2. CASE i[1] = "FOR_INIT"
      BY <2>1, <3>2, Zenon DEF Effect
    <3>3. CASE i[1] = "POP_ITER"
      <4>1. g = [f EXCEPT !.iters = IF f.iters = <<>> THEN f.iters ELSE Tail(f.iters)]
        BY <2>1, <3>3, Zenon DEF Effect
      <4> QED
        BY <4>1
    <3> QED
      BY <1>7, <3>1, <3>2, <3>3
  <2> HIDE DEF g
  <2>3. g.regs = f.regs /\ Is(g, R)
    <3>1. CASE \E a : g = [f EXCEPT !.args = a]
      <4>1. PICK a : g = [f EXCEPT !.args = a]
        BY <3>1
      <4>2. g = [regs |-> f.regs, args |-> a, iters |-> f.iters, out |-> f.out, value |-> f.value]
        BY <4>1 DEF Is
      <4> QED
        BY <1>1, <4>2 DEF Is
    <3>2. CASE \E a : g = [f EXCEPT !.iters = a]
      <4>1. PICK a : g = [f EXCEPT !.iters = a]
        BY <3>2
      <4>2. g = [regs |-> f.regs, args |-> f.args, iters |-> a, out |-> f.out, value |-> f.value]
        BY <4>1 DEF Is
      <4> QED
        BY <1>1, <4>2 DEF Is
    <3> QED
      BY <2>2, <3>1, <3>2
  <2> QED
    BY <2>1, <2>3 DEF g
<1> QED
  BY <1>3, <1>4, <1>5, <1>6, <1>7, TupleFacts DEF Opcodes, PureOps, CallOps

-------------------------------------------------------------------------------
(* The fields of the generator that emission changes.                        *)

\* The part of a generator that emission works on, and what may be put in it.
Fields == {"code", "targets", "lvn", "nums", "flaws", "floor"}
IsGen(cg) == IsFcn(cg) /\ Fields \subseteq DOMAIN cg

\* The same fields, but for those in T.
Same(n, cg, T) == IsGen(n) /\ \A y \in Fields \ T : n[y] = cg[y]

LEMMA PutFields ==
  ASSUME NEW cg, IsGen(cg), NEW x
  PROVE  /\ Same([cg EXCEPT !.code = x], cg, {"code"}) /\ [cg EXCEPT !.code = x].code = x
         /\ Same([cg EXCEPT !.targets = x], cg, {"targets"}) /\ [cg EXCEPT !.targets = x].targets = x
         /\ Same([cg EXCEPT !.lvn = x], cg, {"lvn"}) /\ [cg EXCEPT !.lvn = x].lvn = x
         /\ Same([cg EXCEPT !.nums = x], cg, {"nums"}) /\ [cg EXCEPT !.nums = x].nums = x
         /\ Same([cg EXCEPT !.flaws = x], cg, {"flaws"}) /\ [cg EXCEPT !.flaws = x].flaws = x
         /\ Same([cg EXCEPT !.floor = x], cg, {"floor"})
<1>1. ASSUME NEW z \in Fields PROVE Same([cg EXCEPT ![z] = x], cg, {z}) /\ [cg EXCEPT ![z] = x][z] = x
  <2> DEFINE n == [cg EXCEPT ![z] = x]
  <2>1. n = [y \in DOMAIN cg |-> IF y = z THEN x ELSE cg[y]]
    OBVIOUS
  <2>2. DOMAIN n = DOMAIN cg /\ IsFcn(n) /\ \A y \in DOMAIN cg : n[y] = IF y = z THEN x ELSE cg[y]
    BY <2>1 DEF IsFcn
  <2> HIDE DEF n
  <2>3. IsGen(n) /\ \A y \in Fields : n[y] = IF y = z THEN x ELSE cg[y]
    BY <2>2 DEF IsGen
  <2>4. Same(n, cg, {z}) /\ n[z] = x
    BY <2>3 DEF Same
  <2> QED
    BY <2>4 DEF n
<1>2. \A z \in Fields : Same([cg EXCEPT ![z] = x], cg, {z}) /\ [cg EXCEPT ![z] = x][z] = x
  BY <1>1
<1>3. "code" \in Fields /\ "targets" \in Fields /\ "lvn" \in Fields /\ "nums" \in Fields /\ "flaws" \in Fields
      /\ "floor" \in Fields
  BY DEF Fields
<1>4. Same([cg EXCEPT !["code"] = x], cg, {"code"}) /\ [cg EXCEPT !["code"] = x]["code"] = x
  BY <1>2, <1>3
<1>5. Same([cg EXCEPT !["targets"] = x], cg, {"targets"}) /\ [cg EXCEPT !["targets"] = x]["targets"] = x
  BY <1>2, <1>3
<1>6. Same([cg EXCEPT !["lvn"] = x], cg, {"lvn"}) /\ [cg EXCEPT !["lvn"] = x]["lvn"] = x
  BY <1>2, <1>3
<1>7. Same([cg EXCEPT !["nums"] = x], cg, {"nums"}) /\ [cg EXCEPT !["nums"] = x]["nums"] = x
  BY <1>2, <1>3
<1>8. Same([cg EXCEPT !["flaws"] = x], cg, {"flaws"}) /\ [cg EXCEPT !["flaws"] = x]["flaws"] = x
  BY <1>2, <1>3
<1>9. Same([cg EXCEPT !["floor"] = x], cg, {"floor"})
  BY <1>2, <1>3
<1> QED
  BY <1>4, <1>5, <1>6, <1>7, <1>8, <1>9

LEMMA SameFields ==
  ASSUME NEW n, NEW cg, NEW T, Same(n, cg, T)
  PROVE  /\ ~("code" \in T) => n.code = cg.code
         /\ ~("targets" \in T) => n.targets = cg.targets
         /\ ~("lvn" \in T) => n.lvn = cg.lvn
         /\ ~("nums" \in T) => n.nums = cg.nums
         /\ ~("flaws" \in T) => n.flaws = cg.flaws
<1>1. /\ ~("code" \in T) => n["code"] = cg["code"]
      /\ ~("targets" \in T) => n["targets"] = cg["targets"]
      /\ ~("lvn" \in T) => n["lvn"] = cg["lvn"]
      /\ ~("nums" \in T) => n["nums"] = cg["nums"]
      /\ ~("flaws" \in T) => n["flaws"] = cg["flaws"]
  BY DEF Same, Fields
<1> QED
  BY <1>1

LEMMA SameSame ==
  ASSUME NEW n, NEW m, NEW cg, NEW T, NEW U, Same(n, m, T), Same(m, cg, U)
  PROVE  Same(n, cg, T \cup U)
BY DEF Same

\* What on_emit and the invalidation of the number cache leave.
LvnAfter(s, j) == IF j[1] \in CallOps THEN {}
                  ELSE IF WritesDest(j[1]) THEN {e \in s : j[2] \notin {e.l, e.r, e.res}}
                  ELSE s
NumsAfter(s, j) == IF WritesDest(j[1]) THEN DropReg(s, j[2]) ELSE s

LEMMA LvnForm ==
  ASSUME NEW cg, IsGen(cg), NEW j
  PROVE  Same(LvnOnEmit(cg, j), cg, {"lvn"}) /\ LvnOnEmit(cg, j).lvn = LvnAfter(cg.lvn, j)
<1>1. CASE j[1] \in CallOps
  <2>1. LvnOnEmit(cg, j) = [cg EXCEPT !.lvn = {}]
    BY <1>1 DEF LvnOnEmit, LvnClear
  <2>2. Same([cg EXCEPT !.lvn = {}], cg, {"lvn"}) /\ [cg EXCEPT !.lvn = {}].lvn = {}
    BY PutFields
  <2>3. LvnAfter(cg.lvn, j) = {}
    BY <1>1 DEF LvnAfter
  <2> QED
    BY <2>1, <2>2, <2>3
<1>2. CASE ~(j[1] \in CallOps) /\ WritesDest(j[1])
  <2> DEFINE x == {e \in cg.lvn : j[2] \notin {e.l, e.r, e.res}}
  <2>1. LvnOnEmit(cg, j) = [cg EXCEPT !.lvn = x]
    BY <1>2 DEF LvnOnEmit, LvnInvalidate
  <2>2. LvnAfter(cg.lvn, j) = x
    BY <1>2 DEF LvnAfter
  <2> HIDE DEF x
  <2>3. Same([cg EXCEPT !.lvn = x], cg, {"lvn"}) /\ [cg EXCEPT !.lvn = x].lvn = x
    BY PutFields
  <2> QED
    BY <2>1, <2>2, <2>3
<1>3. CASE ~(j[1] \in CallOps) /\ ~WritesDest(j[1])
  BY <1>3 DEF LvnOnEmit, LvnAfter, Same
<1> QED
  BY <1>1, <1>2, <1>3

LEMMA CachesForm ==
  ASSUME NEW cg, IsGen(cg), NEW j
  PROVE  /\ Same(CachesOnEmit(cg, j), cg, {"lvn", "nums"})
         /\ CachesOnEmit(cg, j).lvn = LvnAfter(cg.lvn, j)
         /\ CachesOnEmit(cg, j).nums = NumsAfter(cg.nums, j)
<1> DEFINE m == LvnOnEmit(cg, j)
           n == CachesOnEmit(cg, j)
<1>1. Same(m, cg, {"lvn"}) /\ m.lvn = LvnAfter(cg.lvn, j) /\ IsGen(m)
  BY LvnForm DEF Same
<1>2. m.nums = cg.nums
  BY <1>1, SameFields
<1>3. CASE WritesDest(j[1])
  <2> DEFINE x == DropReg(m.nums, j[2])
  <2>1. n = [m EXCEPT !.nums = x]
    BY <1>3 DEF CachesOnEmit, NumInvalidate
  <2> HIDE DEF m, n, x
  <2>2. Same(n, m, {"nums"}) /\ n.nums = x
    BY <1>1, <2>1, PutFields
  <2>3. n.lvn = m.lvn
    BY <2>2, SameFields
  <2>4. Same(n, cg, {"nums"} \cup {"lvn"})
    BY <1>1, <2>2, SameSame
  <2>5. {"nums"} \cup {"lvn"} = {"lvn", "nums"}
    OBVIOUS
  <2>6. Same(n, cg, {"lvn", "nums"}) /\ n.lvn = LvnAfter(cg.lvn, j) /\ n.nums = NumsAfter(cg.nums, j)
    BY <1>1, <1>2, <1>3, <2>2, <2>3, <2>4, <2>5 DEF NumsAfter, x
  <2> QED
    BY <2>6 DEF n
<1>4. CASE ~WritesDest(j[1])
  <2>1. n = m
    BY <1>4 DEF CachesOnEmit
  <2> HIDE DEF m, n
  <2>2. Same(n, cg, {"lvn", "nums"})
    BY <1>1, <2>1 DEF Same
  <2>3. n.lvn = LvnAfter(cg.lvn, j) /\ n.nums = NumsAfter(cg.nums, j)
    BY <1>1, <1>2, <1>4, <2>1 DEF NumsAfter
  <2> QED
    BY <2>2, <2>3 DEF n
<1> QED
  BY <1>3, <1>4

LEMMA BlameForm ==
  ASSUME NEW cg, IsGen(cg), NEW bad, NEW flaw
  PROVE  /\ Same(Blame(cg, bad, flaw), cg, {"flaws"})
         /\ cg.flaws \subseteq Blame(cg, bad, flaw).flaws
         /\ bad => flaw \in Blame(cg, bad, flaw).flaws
<1>1. CASE bad
  <2> DEFINE x == cg.flaws \cup {flaw}
  <2>1. Blame(cg, bad, flaw) = [cg EXCEPT !.flaws = x]
    BY <1>1 DEF Blame
  <2>2. cg.flaws \subseteq x /\ flaw \in x
    OBVIOUS
  <2> HIDE DEF x
  <2>3. Same([cg EXCEPT !.flaws = x], cg, {"flaws"}) /\ [cg EXCEPT !.flaws = x].flaws = x
    BY PutFields
  <2> QED
    BY <2>1, <2>2, <2>3
<1>2. CASE ~bad
  <2>1. Blame(cg, bad, flaw) = cg
    BY <1>2 DEF Blame
  <2> QED
    BY <1>2, <2>1 DEF Same
<1> QED
  BY <1>1, <1>2

\* Emissions that make a cache untrue, or a value be lost.
Unsound == {"moveThenWrite", "staleNumber", "undoneResult"}

LEMMA JudgeForm ==
  ASSUME NEW cg, IsGen(cg), NEW i, NEW f
  PROVE  /\ Same(Judge(cg, i, f), cg, {"flaws"})
         /\ Judge(cg, i, f).flaws \cap Unsound = {} =>
              /\ ~(f.one /\ LosesMove(Last(cg.code), i))
              /\ ~(/\ f.one /\ f.inst = Nop /\ ~IsNop(i) /\ i[2] # 0
                   /\ \E e \in cg.lvn : e.res = i[2])
              /\ ~(/\ f.one /\ i[1] = "MOVE" /\ f.inst[1] \in LoadOps
                   /\ \E j \in DOMAIN cg.nums : cg.nums[j][2] = i[3] /\ i[2] # i[3])
<1> DEFINE b1 == f.one /\ LosesMove(Last(cg.code), i)
           b2 == /\ Len(cg.code) \in cg.heads \ cg.targets
                 /\ f # InFront(i) /\ ~IsNop(i)
           b3 == /\ f.one /\ f.inst = Nop /\ ~IsNop(i) /\ i[2] # 0
                 /\ \E e \in cg.lvn : e.res = i[2]
           b4 == /\ f.one /\ i[1] = "MOVE" /\ f.inst[1] \in LoadOps
                 /\ \E j \in DOMAIN cg.nums : cg.nums[j][2] = i[3] /\ i[2] # i[3]
           b5 == b4 \/ (WritesDest(f.inst[1]) /\ f.inst[2] \in cg.relied)
           g1 == Blame(cg, b1, "moveThenWrite")
           g2 == Blame(g1, b2, "loopHead")
           g3 == Blame(g2, b3, "undoneResult")
           g4 == Blame(g3, b5, "staleNumber")
<1>1. Judge(cg, i, f) = g4
  BY Zenon DEF Judge
<1>2. Same(g1, cg, {"flaws"}) /\ IsGen(g1) /\ (b1 => "moveThenWrite" \in g1.flaws)
  <2> HIDE DEF b1
  <2> QED
    BY BlameForm DEF Same
<1> HIDE DEF b1, b2, b3, g1
<1>3. Same(g2, g1, {"flaws"}) /\ IsGen(g2) /\ g1.flaws \subseteq g2.flaws
  BY <1>2, BlameForm DEF Same
<1> HIDE DEF g2
<1>4. /\ Same(g3, g2, {"flaws"}) /\ IsGen(g3) /\ g2.flaws \subseteq g3.flaws
      /\ b3 => "undoneResult" \in g3.flaws
  BY <1>3, BlameForm DEF Same
<1> HIDE DEF g3
<1>5. b4 => b5
  OBVIOUS
<1> HIDE DEF b4, b5
<1>6. /\ Same(g4, g3, {"flaws"}) /\ IsGen(g4) /\ g3.flaws \subseteq g4.flaws
      /\ b5 => "staleNumber" \in g4.flaws
  BY <1>4, BlameForm DEF Same
<1> HIDE DEF g4
<1>7. Same(g4, cg, {"flaws"})
  BY <1>2, <1>3, <1>4, <1>6 DEF Same
<1>8. g4.flaws \cap Unsound = {} => ~b1 /\ ~b3 /\ ~b4
  BY <1>2, <1>3, <1>4, <1>5, <1>6 DEF Unsound
<1> QED
  BY <1>1, <1>7, <1>8 DEF b1, b3, b4

\* What emission makes of the generator when fusion gives u and j stands at the
\* end of the code then.
Emitted(n, cg, i, u, j) ==
    /\ IsGen(n) /\ n.code = Append(IF u.one THEN Front(cg.code) ELSE cg.code, j)
    /\ n.lvn \subseteq LvnAfter(cg.lvn, j) /\ n.nums = NumsAfter(cg.nums, j)
    /\ n.flaws = Judge(cg, i, u).flaws
    /\ j[1] = u.inst[1] /\ j[3] = u.inst[3] /\ j[4] = u.inst[4]
    /\ j = u.inst \/ (j[1] \in JumpOps /\ ~u.one)

LEMMA NoDest ==
  ASSUME NEW j, j[1] \in JumpOps
  PROVE  ~WritesDest(j[1]) /\ ~(j[1] \in CallOps)
BY DEF JumpOps, ImmJumps, RegJumps, NoneJumps, WritesDest, PureOps, LoadOps, ArithOps, ImmOps,
       CmpOps, CallOps

LEMMA HopIsInt ==
  ASSUME NEW c \in Seq(Instruction), NEW p \in Int
  PROVE  Hop(c, p) \in Int
<1>1. CASE InCode(c, p)
  <2>1. c[p + 1] \in Instruction
    BY <1>1 DEF InCode
  <2> QED
    BY <2>1, TupleFacts DEF Hop
<1>2. CASE ~InCode(c, p)
  BY <1>2 DEF Hop
<1> QED
  BY <1>1, <1>2

LEMMA EmitForm ==
  ASSUME NEW cg, IsGen(cg), cg.code \in Seq(Instruction), NEW i, NEW u, u = FusionAt(cg, i),
         u.inst \in Instruction, NEW n, n = Emit(cg, i)
  PROVE  \E j \in Instruction : Emitted(n, cg, i, u, j)
<1> DEFINE h == u.inst
           g == Judge(cg, i, u)
           Bx == CachesOnEmit([g EXCEPT !.code = Append(Front(@), h)], h)
           t == FollowJumps(cg.code, h[2], 16)
           C == LvnClear(Mark([g EXCEPT !.code = Append(@, [h EXCEPT ![2] = t])], t))
           K == IF h[1] = "JUMP" THEN LvnClear(g) ELSE CachesOnEmit(g, h)
           D == [K EXCEPT !.code = Append(@, h)]
<1>1. n = IF u.one THEN Bx ELSE IF h[1] \in JumpOps /\ h[2] # 0 THEN C ELSE D
  BY Zenon DEF Emit
<1>2. Same(g, cg, {"flaws"}) /\ IsGen(g)
  BY JudgeForm DEF Same
<1>3. g.code = cg.code /\ g.lvn = cg.lvn /\ g.nums = cg.nums
  BY <1>2, SameFields
<1>4. CASE u.one
  <2> DEFINE m == [g EXCEPT !.code = Append(Front(g.code), h)]
  <2>1. n = CachesOnEmit(m, h)
    BY <1>1, <1>4
  <2> HIDE DEF g, h
  <2>2. Same(m, g, {"code"}) /\ IsGen(m) /\ m.code = Append(Front(g.code), h)
    <3> DEFINE x == Append(Front(g.code), h)
    <3> HIDE DEF x
    <3>1. Same([g EXCEPT !.code = x], g, {"code"}) /\ [g EXCEPT !.code = x].code = x
      BY <1>2, PutFields
    <3> QED
      BY <3>1 DEF x, Same
  <2> HIDE DEF m
  <2>3. m.lvn = g.lvn /\ m.nums = g.nums /\ m.flaws = g.flaws
    BY <2>2, SameFields
  <2>4. /\ Same(n, m, {"lvn", "nums"}) /\ IsGen(n)
        /\ n.lvn = LvnAfter(m.lvn, h) /\ n.nums = NumsAfter(m.nums, h)
    BY <2>1, <2>2, CachesForm DEF Same
  <2>5. n.code = m.code /\ n.flaws = m.flaws
    BY <2>4, SameFields
  <2>6. Emitted(n, cg, i, u, h)
    BY <1>3, <1>4, <2>2, <2>3, <2>4, <2>5 DEF Emitted, g, h
  <2> QED
    BY <2>6 DEF h
<1>5. CASE ~u.one /\ h[1] \in JumpOps /\ h[2] # 0
  <2> DEFINE j == [h EXCEPT ![2] = t]
             m == [g EXCEPT !.code = Append(g.code, j)]
             k == [m EXCEPT !.targets = m.targets \cup {t}]
  <2>1. n = [k EXCEPT !.lvn = {}]
    BY <1>1, <1>5 DEF LvnClear, Mark
  <2>2. t \in Int
    <3>1. h[2] \in Int
      BY TupleFacts
    <3> QED
      BY <3>1, HopIsInt, FollowStays
  <2>a. h \in Instruction
    OBVIOUS
  <2> HIDE DEF g, h, t
  <2>3. j \in Instruction /\ j[1] = h[1] /\ j[3] = h[3] /\ j[4] = h[4]
    BY <2>2, <2>a DEF Instruction
  <2> HIDE DEF j
  <2>4. Same(m, g, {"code"}) /\ IsGen(m) /\ m.code = Append(g.code, j)
    <3> DEFINE x == Append(g.code, j)
    <3> HIDE DEF x
    <3>1. Same([g EXCEPT !.code = x], g, {"code"}) /\ [g EXCEPT !.code = x].code = x
      BY <1>2, PutFields
    <3> QED
      BY <3>1 DEF x, Same
  <2> HIDE DEF m
  <2>5. m.lvn = g.lvn /\ m.nums = g.nums /\ m.flaws = g.flaws
    BY <2>4, SameFields
  <2>6. Same(k, m, {"targets"}) /\ IsGen(k)
    <3> DEFINE x == m.targets \cup {t}
    <3> HIDE DEF x
    <3>1. Same([m EXCEPT !.targets = x], m, {"targets"})
      BY <2>4, PutFields
    <3> QED
      BY <3>1 DEF x, Same
  <2> HIDE DEF k
  <2>7. k.nums = m.nums /\ k.flaws = m.flaws /\ k.code = m.code
    BY <2>6, SameFields
  <2>8. Same(n, k, {"lvn"}) /\ IsGen(n) /\ n.lvn = {}
    <3>1. Same([k EXCEPT !.lvn = {}], k, {"lvn"}) /\ [k EXCEPT !.lvn = {}].lvn = {}
      BY <2>6, PutFields
    <3> QED
      BY <2>1, <3>1 DEF Same
  <2>9. n.nums = k.nums /\ n.flaws = k.flaws /\ n.code = k.code
    BY <2>8, SameFields
  <2>10. NumsAfter(cg.nums, j) = cg.nums
    BY <1>5, <2>3, NoDest DEF NumsAfter
  <2>11. Emitted(n, cg, i, u, j)
    BY <1>3, <1>5, <2>3, <2>4, <2>5, <2>7, <2>8, <2>9, <2>10 DEF Emitted, g, h
  <2> QED
    BY <2>3, <2>11
<1>6. CASE ~u.one /\ ~(h[1] \in JumpOps /\ h[2] # 0)
  <2>1. n = D
    BY <1>1, <1>6
  <2> HIDE DEF g, h
  <2>2. Same(K, g, {"lvn", "nums"}) /\ IsGen(K) /\ K.lvn \subseteq LvnAfter(g.lvn, h) /\ K.nums = NumsAfter(g.nums, h)
    <3>1. CASE h[1] = "JUMP"
      <4>1. K = [g EXCEPT !.lvn = {}]
        BY <3>1 DEF LvnClear
      <4> HIDE DEF K
      <4>2. Same([g EXCEPT !.lvn = {}], g, {"lvn"}) /\ [g EXCEPT !.lvn = {}].lvn = {}
        BY <1>2, PutFields
      <4>3. Same(K, g, {"lvn"}) /\ K.lvn = {}
        BY <4>1, <4>2
      <4>4. K.nums = g.nums
        BY <4>3, SameFields
      <4>5. NumsAfter(g.nums, h) = g.nums
        BY <3>1, NoDest DEF NumsAfter, JumpOps
      <4>6. Same(K, g, {"lvn", "nums"})
        BY <4>3 DEF Same
      <4> QED
        BY <4>3, <4>4, <4>5, <4>6 DEF Same
    <3>2. CASE h[1] # "JUMP"
      <4>1. K = CachesOnEmit(g, h)
        BY <3>2
      <4> HIDE DEF K
      <4> QED
        BY <1>2, <4>1, CachesForm DEF Same
    <3> QED
      BY <3>1, <3>2
  <2> HIDE DEF K
  <2>3. K.code = g.code /\ K.flaws = g.flaws
    BY <2>2, SameFields
  <2>4. Same(n, K, {"code"}) /\ IsGen(n) /\ n.code = Append(K.code, h)
    <3> DEFINE x == Append(K.code, h)
    <3>0. n = [K EXCEPT !.code = x]
      BY <2>1
    <3> HIDE DEF x
    <3>1. Same([K EXCEPT !.code = x], K, {"code"}) /\ [K EXCEPT !.code = x].code = x
      BY <2>2, PutFields
    <3> QED
      BY <3>0, <3>1 DEF x, Same
  <2>5. n.lvn = K.lvn /\ n.nums = K.nums /\ n.flaws = K.flaws
    BY <2>4, SameFields
  <2>6. Emitted(n, cg, i, u, h)
    BY <1>3, <1>6, <2>2, <2>3, <2>4, <2>5 DEF Emitted, g, h
  <2> QED
    BY <2>6 DEF h
<1> QED
  BY <1>4, <1>5, <1>6

-------------------------------------------------------------------------------
(* What fusion makes of an instruction is one, with registers of the frame.  *)

LEMMA OneForFacts ==
  ASSUME NEW j
  PROVE  /\ OneFor(j).one /\ OneFor(j).inst = j
         /\ ~InFront(j).one /\ InFront(j).inst = j
BY DEF OneFor, InFront

LEMMA LosesOne ==
  ASSUME NEW cg, NEW p \in Instruction, NEW i \in Instruction, LosesMove(p, i)
  PROVE  Fusion(cg, p, i).one /\ Fusion(cg, p, i).inst \in Instruction
<1> DEFINE u == Fusion(cg, p, i)
           s == Substituted(i, i[2], p[3], {3, 4})
<1>1. Lands(p, i) /\ p[1] = "MOVE" /\ ~(p[1] \in LoadOps)
  BY DEF LosesMove, Lands, LoadOps
<1>2. ~(i[1] \in ValueReturns) /\ ~(i[1] \in {"RETURN", "RETURN_NUM"}) /\ i[1] # "RETURN_NONE"
  BY DEF LosesMove, WritesDest, PureOps, LoadOps, ArithOps, ImmOps, CmpOps, CallOps, ValueReturns
<1>3. u = OneFor(p) \/ u = OneFor(i) \/ Rewrites(cg, p, i, u)
  BY FusionRules
<1>4. s \in Instruction
  <2>1. /\ p[3] \in Int
        /\ i[1] \in Opcodes /\ i[2] \in Int /\ i[3] \in Int /\ i[4] \in Int
    BY TupleFacts
  <2>2. s = <<i[1], i[2], IF i[3] = i[2] THEN p[3] ELSE i[3], IF i[4] = i[2] THEN p[3] ELSE i[4]>>
    BY DEF Substituted
  <2> HIDE DEF s
  <2> QED
    BY <2>1, <2>2 DEF Instruction
<1> HIDE DEF u, s
<1>5. Rewrites(cg, p, i, u) => u = OneFor(p) \/ u = OneFor(i) \/ u = OneFor(s)
  BY <1>1, <1>2 DEF Rewrites, LosesMove, s
<1>6. u.one /\ u.inst \in Instruction
  BY <1>3, <1>4, <1>5, OneForFacts
<1> QED
  BY <1>6 DEF u

\* Only what computes a value into a register fuses with what follows.
LEMMA OtherFusion ==
  ASSUME NEW cg, NEW p, ~(p[1] \in PureOps), NEW i
  PROVE  \/ IsNop(i) /\ Fusion(cg, p, i) = OneFor(p)
         \/ Fusion(cg, p, i) = InFront(i)
<1> DEFINE u == Fusion(cg, p, i)
<1>1. ~IsNop(p) /\ ~(p[1] \in LoadOps) /\ ~(p[1] \in {"MOVE", "NEG", "ADD_IMM", "SUB_IMM"})
      /\ ~(p[1] \in {"LOAD_NONE", "LOAD_NUM_IMM", "LOAD_BOOL"})
  BY DEF PureOps, IsNop, LoadOps, ImmOps
<1>2. \/ IsNop(i) /\ u = OneFor(p)
      \/ Rewrites(cg, p, i, u)
  BY <1>1, FusionRules
<1> HIDE DEF u
<1>3. Rewrites(cg, p, i, u) => u = InFront(i)
  BY <1>1 DEF Rewrites
<1>4. (IsNop(i) /\ u = OneFor(p)) \/ u = InFront(i)
  BY <1>2, <1>3
<1> QED
  BY <1>4 DEF u

\* Arithmetic of other registers stays what it is, in the register it is in.
LEMMA ArithKept ==
  ASSUME NEW cg, NEW p, NEW i, i[1] \in ArithOps \cup ImmOps, i[3] # i[2]
  PROVE  Fusion(cg, p, i).inst[1] = i[1] /\ Fusion(cg, p, i).inst[2] = i[2]
<1> DEFINE u == Fusion(cg, p, i)
<1>1. /\ i[1] # "MOVE" /\ ~IsNop(i) /\ ~(i[1] \in ValueReturns) /\ i[1] # "RETURN_NONE" /\ i[1] # "NEG"
      /\ i[1] # "INC" /\ i[1] # "DEC" /\ ~(i[1] \in ImmJumps) /\ i[1] # "JUMP_IF_FALSE"
      /\ ~(i[1] \in {"RETURN", "RETURN_NUM"})
  BY DEF ArithOps, ImmOps, IsNop, ValueReturns, ImmJumps
<1>2. u = OneFor(i) \/ Rewrites(cg, p, i, u)
  BY <1>1, FusionRules
<1> HIDE DEF u
<1>3. Rewrites(cg, p, i, u) =>
        \/ u = OneFor(i)
        \/ u = OneFor(Substituted(i, i[2], p[3], {3, 4}))
        \/ u = InFront(Substituted(i, p[2], p[3], SourceSlots(i[1])))
        \/ u = InFront(i)
  BY <1>1 DEF Rewrites
<1>4. ~(1 \in SourceSlots(i[1])) /\ ~(2 \in SourceSlots(i[1]))
  BY DEF SourceSlots
<1>5. \A a, b : /\ Substituted(i, a, b, {3, 4})[1] = i[1] /\ Substituted(i, a, b, {3, 4})[2] = i[2]
                /\ Substituted(i, a, b, SourceSlots(i[1]))[1] = i[1]
                /\ Substituted(i, a, b, SourceSlots(i[1]))[2] = i[2]
  BY <1>4 DEF Substituted
<1>6. u.inst[1] = i[1] /\ u.inst[2] = i[2]
  BY <1>2, <1>3, <1>5, OneForFacts
<1> QED
  BY <1>6 DEF u

\* A load stays what it is.
LEMMA LoadKept ==
  ASSUME NEW cg, NEW p, NEW i, i[1] \in LoadOps
  PROVE  Fusion(cg, p, i).inst = i
<1> DEFINE u == Fusion(cg, p, i)
<1>1. /\ i[1] # "MOVE" /\ ~IsNop(i) /\ ~(i[1] \in ValueReturns) /\ i[1] # "RETURN_NONE" /\ i[1] # "NEG"
      /\ i[1] # "INC" /\ i[1] # "DEC" /\ ~(i[1] \in ImmJumps) /\ i[1] # "JUMP_IF_FALSE"
      /\ ~(i[1] \in {"RETURN", "RETURN_NUM"}) /\ ~(i[1] \in ImmOps) /\ ~(i[1] \in ArithOps)
      /\ ~(i[1] \in {"ADD_IMM", "SUB_IMM"}) /\ ~(i[1] \in CmpOps)
  BY DEF LoadOps, ArithOps, ImmOps, CmpOps, IsNop, ValueReturns, ImmJumps
<1>2. u = OneFor(i) \/ Rewrites(cg, p, i, u)
  BY <1>1, FusionRules
<1>3. ~ReadsReg(i, i[2])
  BY ReadsFacts
<1>4. SourceSlots(i[1]) = {}
  BY <1>1 DEF SourceSlots
<1> HIDE DEF u
<1>5. Rewrites(cg, p, i, u) => u = OneFor(i) \/ u = InFront(i)
  BY <1>1, <1>3, <1>4 DEF Rewrites
<1>6. u.inst = i
  BY <1>2, <1>5, OneForFacts
<1> QED
  BY <1>6 DEF u

\* What stands in the place of two instructions works with the registers they
\* worked with.
LEMMA LoadsFit ==
  ASSUME NEW R, NEW op \in LoadOps, NEW d \in Int, d \in R, NEW k \in Int, NEW m \in Int
  PROVE  <<op, d, k, m>> \in Instruction /\ Fits(<<op, d, k, m>>, R)
<1> DEFINE j == <<op, d, k, m>>
<1>1. j[1] = op /\ j[2] = d /\ op \in Opcodes
  BY DEF Opcodes
<1>2. j \in Instruction
  BY <1>1 DEF Instruction
<1> HIDE DEF j
<1>3. \A r : ~ReadsReg(j, r)
  BY <1>1, ReadsFacts
<1>4. Fits(j, R)
  BY <1>1, <1>3 DEF Fits
<1> QED
  BY <1>2, <1>4 DEF j

LEMMA LoadNumberFits ==
  ASSUME NEW R, NEW d \in Int, d \in R, NEW k \in Int
  PROVE  LoadNumber(d, k) \in Instruction /\ Fits(LoadNumber(d, k), R)
<1>1. \A op \in LoadOps : <<op, d, k, 0>> \in Instruction /\ Fits(<<op, d, k, 0>>, R)
  BY LoadsFit
<1>2. LoadNumber(d, k) = <<"LOAD_NUM_IMM", d, k, 0>> \/ LoadNumber(d, k) = <<"LOAD_NUM", d, k, 0>>
  BY DEF LoadNumber
<1>3. "LOAD_NUM_IMM" \in LoadOps /\ "LOAD_NUM" \in LoadOps
  BY DEF LoadOps
<1> QED
  BY <1>1, <1>2, <1>3

LEMMA SubstitutedFits ==
  ASSUME NEW R, NEW i \in Instruction, Fits(i, R), WritesDest(i[1]), NEW e, NEW a \in Int, a \in R,
         NEW S, ~(1 \in S), ~(2 \in S), i[1] # "CALL_2"
  PROVE  Substituted(i, e, a, S) \in Instruction /\ Fits(Substituted(i, e, a, S), R)
<1> DEFINE j == Substituted(i, e, a, S)
<1>1. /\ j[1] = i[1] /\ j[2] = i[2]
      /\ j[3] = IF 3 \in S /\ i[3] = e THEN a ELSE i[3]
      /\ j[4] = IF 4 \in S /\ i[4] = e THEN a ELSE i[4]
  BY SubstitutedFacts
<1>2. j = <<j[1], j[2], j[3], j[4]>>
  BY DEF Substituted
<1> HIDE DEF j
<1>3. i[1] \in Opcodes /\ i[2] \in Int /\ i[3] \in Int /\ i[4] \in Int
  BY TupleFacts
<1>4. j[1] \in Opcodes /\ j[2] \in Int /\ j[3] \in Int /\ j[4] \in Int
  BY <1>1, <1>3
<1>5. j \in Instruction
  BY <1>2, <1>4 DEF Instruction
<1>6. i[2] \in R /\ \A x : ReadsReg(i, x) => x \in R
  BY DEF Fits
<1>7. ASSUME NEW x, ReadsReg(j, x) PROVE x \in R
  <2>1. CASE i[1] \in LoadOps \cup {"CALL_BUILTIN"}
    BY <1>1, <1>7, <2>1, ReadsFacts
  <2>2. CASE i[1] \in {"MOVE", "NEG"} \cup ArithOps \cup CmpOps
    <3>1. x \in {j[3], j[4]} /\ i[3] \in R /\ i[4] \in R
      BY <1>1, <1>6, <1>7, <2>2, ReadsFacts
    <3> QED
      BY <1>1, <3>1
  <2>3. CASE i[1] \in ImmOps
    <3>1. x = j[3] /\ i[3] \in R
      BY <1>1, <1>6, <1>7, <2>3, ReadsFacts
    <3> QED
      BY <1>1, <3>1
  <2>4. CASE i[1] \in {"INC", "DEC"}
    BY <1>1, <1>6, <1>7, <2>4, ReadsFacts
  <2>5. CASE i[1] = "CALL_1"
    <3>1. x = j[4] /\ i[4] \in R
      BY <1>1, <1>6, <1>7, <2>5, ReadsFacts
    <3> QED
      BY <1>1, <3>1
  <2> QED
    BY <2>1, <2>2, <2>3, <2>4, <2>5 DEF WritesDest, PureOps, CallOps
<1>8. Fits(j, R)
  BY <1>1, <1>6, <1>7 DEF Fits
<1> QED
  BY <1>5, <1>8 DEF j

LEMMA AddSignedFits ==
  ASSUME NEW R, 0 \in R, NEW d \in Int, d \in R, NEW n \in Int
  PROVE  AddSigned(d, n) \in Instruction /\ Fits(AddSigned(d, n), R)
<1> DEFINE j == AddSigned(d, n)
<1>1. \/ j = Nop
      \/ j = <<"ADD_IMM", d, d, n>>
      \/ j = <<"SUB_IMM", d, d, -n>>
  <2>1. n = 0 \/ n > 0 \/ n < 0
    OBVIOUS
  <2>2. n = 0 => j = Nop
    BY DEF AddSigned
  <2>3. n > 0 => j = <<"ADD_IMM", d, d, n>>
    BY DEF AddSigned
  <2>4. n < 0 => j = <<"SUB_IMM", d, d, -n>>
    BY DEF AddSigned
  <2> QED
    BY <2>1, <2>2, <2>3, <2>4
<1> HIDE DEF j
<1>2. /\ j \in Instruction /\ j[2] \in R /\ j[3] \in R
      /\ (j[1] = "MOVE" /\ j[4] \in R) \/ j[1] \in ImmOps
  BY <1>1 DEF Nop, Instruction, Opcodes, ImmOps
<1>3. \A x : ReadsReg(j, x) => x \in R
  BY <1>2, ReadsFacts
<1>4. Fits(j, R)
  BY <1>2, <1>3 DEF Fits
<1> QED
  BY <1>2, <1>4 DEF j

LEMMA FusionFits ==
  ASSUME NEW R, 0 \in R, NEW cg, NEW p \in Instruction, NEW i \in Instruction,
         Fits(p, R), Fits(i, R), ~LosesMove(p, i)
  PROVE  Fusion(cg, p, i).inst \in Instruction /\ Fits(Fusion(cg, p, i).inst, R)
<1> DEFINE u == Fusion(cg, p, i)
           Good(x) == x \in Instruction /\ Fits(x, R)
           d == i[2]
<1>1. /\ p[1] \in Opcodes /\ p[2] \in Int /\ p[3] \in Int /\ p[4] \in Int
      /\ i[1] \in Opcodes /\ i[2] \in Int /\ i[3] \in Int /\ i[4] \in Int
  BY TupleFacts
<1>2. /\ p[1] \in LoadOps \cup {"MOVE", "NEG", "ADD_IMM", "SUB_IMM"} => p[1] \in PureOps
      /\ p[1] \in {"LOAD_NONE", "LOAD_NUM_IMM", "LOAD_BOOL"} => p[1] \in LoadOps
      /\ \A op \in PureOps : WritesDest(op)
  BY DEF PureOps, LoadOps, ImmOps, WritesDest
<1>3. p[1] \in PureOps => p[2] \in R
  BY <1>2 DEF Fits
<1>4. p[1] = "MOVE" => p[3] \in R
  BY <1>2, ReadsFacts DEF Fits
<1>5. Good(p) /\ Good(i)
  OBVIOUS
<1>6. ASSUME NEW x \in Instruction, ~WritesDest(x[1]) PROVE Good(x)
  BY <1>6 DEF Fits
<1>7. ASSUME p[1] \in LoadOps, i[1] = "MOVE" PROVE Good([p EXCEPT ![2] = d])
  <2>1. d \in R
    BY <1>7 DEF Fits, WritesDest, PureOps
  <2>2. Good(<<p[1], d, p[3], p[4]>>)
    BY <1>1, <1>7, <2>1, LoadsFit
  <2>3. [p EXCEPT ![2] = d] = <<p[1], d, p[3], p[4]>>
    BY DEF Instruction
  <2> QED
    BY <2>2, <2>3
<1>8. \A op \in ReturnOps \cup {"JUMP"}, k \in Int, m \in Int : Good(<<op, k, m, 0>>)
  <2> TAKE op \in ReturnOps \cup {"JUMP"}, k \in Int, m \in Int
  <2> DEFINE x == <<op, k, m, 0>>
  <2>1. x \in Instruction /\ x[1] = op
    BY DEF Instruction, Opcodes, JumpOps
  <2>2. ~WritesDest(op)
    BY DEF ReturnOps, WritesDest, PureOps, LoadOps, ArithOps, ImmOps, CmpOps, CallOps
  <2> HIDE DEF x
  <2>3. Good(x)
    BY <1>6, <2>1, <2>2
  <2> QED
    BY <2>3 DEF x
<1>9. /\ Good(<<"RETURN_NONE", 0, 0, 0>>) /\ Good(<<"RETURN_NUM_IMM", 0, p[3], 0>>)
      /\ i[1] \in ValueReturns => Good(<<i[1], p[3], 0, 0>>)
      /\ Good(<<"JUMP", d, 0, 0>>)
  <2>1. "RETURN_NONE" \in ReturnOps /\ "RETURN_NUM_IMM" \in ReturnOps /\ (i[1] \in ValueReturns => i[1] \in ReturnOps)
    BY DEF ReturnOps, ValueReturns
  <2> HIDE DEF Good
  <2> QED
    BY <1>1, <1>8, <2>1
<1>10. ASSUME p[1] = "MOVE", WritesDest(i[1]), p[2] = d, ReadsReg(i, d), ~IsNop(p)
       PROVE  Good(Substituted(i, d, p[3], {3, 4}))
  <2>1. i[1] # "CALL_2"
    BY <1>10 DEF LosesMove, IsNop
  <2> QED
    BY <1>1, <1>4, <1>10, <2>1, SubstitutedFits
<1>11. ASSUME p[1] = "MOVE", WritesDest(i[1]), \E s \in SourceSlots(i[1]) : i[s] = p[2]
       PROVE  Good(Substituted(i, p[2], p[3], SourceSlots(i[1])))
  <2>1. i[1] # "CALL_2" /\ ~(1 \in SourceSlots(i[1])) /\ ~(2 \in SourceSlots(i[1]))
    BY <1>11 DEF SourceSlots, ArithOps, CmpOps, ImmOps
  <2> QED
    BY <1>1, <1>4, <1>11, <2>1, SubstitutedFits
<1>12. \A k \in Int : p[1] \in PureOps /\ p[2] = d => Good(LoadNumber(d, k))
  BY <1>1, <1>3, LoadNumberFits
<1>13. ASSUME p[1] = "LOAD_NUM_IMM", p[2] = d
       PROVE  /\ i[1] \in ImmOps => Good(LoadNumber(d, Folded(i[1], p[3], i[4])))
              /\ Good(LoadNumber(d, -p[3]))
              /\ Good(<<"LOAD_NUM_IMM", d, p[3] + 1, 0>>) /\ Good(<<"LOAD_NUM_IMM", d, p[3] - 1, 0>>)
              /\ i[1] \in ArithOps => Good(LoadNumber(d, Folded(i[1], p[3], p[3])))
  <2>1. p[1] \in PureOps /\ "LOAD_NUM_IMM" \in LoadOps /\ d \in R
    BY <1>2, <1>3, <1>13 DEF LoadOps
  <2>2. -p[3] \in Int /\ p[3] + 1 \in Int /\ p[3] - 1 \in Int
    BY <1>1
  <2>3. i[1] \in ImmOps => Folded(i[1], p[3], i[4]) \in Int
    BY <1>1, FoldedIsInt
  <2>4. i[1] \in ArithOps => Folded(i[1], p[3], p[3]) \in Int
    BY <1>1, FoldedIsInt
  <2>5. \A k \in Int : Good(<<"LOAD_NUM_IMM", d, k, 0>>)
    BY <1>1, <2>1, LoadsFit
  <2> HIDE DEF Good
  <2> QED
    BY <1>12, <1>13, <2>1, <2>2, <2>3, <2>4, <2>5
<1>14. Good(Nop)
  <2>1. AddSigned(0, 0) = Nop
    BY DEF AddSigned
  <2> QED
    BY <2>1, AddSignedFits
<1>15. ASSUME p[1] \in {"ADD_IMM", "SUB_IMM"}, i[1] \in {"ADD_IMM", "SUB_IMM"}, p[2] = d
       PROVE  Good(AddSigned(d, Signed(p) + Signed(i)))
  <2>1. Signed(p) + Signed(i) \in Int
    BY <1>1 DEF Signed
  <2>2. d \in R
    BY <1>2, <1>3, <1>15
  <2> QED
    BY <1>1, <2>1, <2>2, AddSignedFits
<1>16. \/ IsNop(i) /\ u = OneFor(p)
       \/ IsNop(p) /\ u = OneFor(i)
       \/ ~IsNop(i) /\ ~IsNop(p) /\ Rewrites(cg, p, i, u)
  BY FusionRules
<1> HIDE DEF u, Good, d
<1>17. ~IsNop(p) /\ Rewrites(cg, p, i, u) => \E x : Good(x) /\ (u = OneFor(x) \/ u = InFront(x))
  <2> SUFFICES ASSUME ~IsNop(p), Rewrites(cg, p, i, u), \A x : Good(x) => u # OneFor(x) /\ u # InFront(x)
               PROVE  FALSE
    OBVIOUS
  <2> QED
    BY <1>5, <1>7, <1>9, <1>10, <1>11, <1>13, <1>14, <1>15 DEF Rewrites, d
<1>18. Good(u.inst)
  BY <1>5, <1>16, <1>17, OneForFacts
<1> QED
  BY <1>18 DEF u, Good

-------------------------------------------------------------------------------
(* What the caches say of the registers.                                     *)

\* A result that the value numbering table knows, as the instruction that
\* computes it; tables that are well formed, and true of the registers r.
Says(e) == <<e.op, e.res, e.l, IF e.r = -1 THEN e.imm ELSE e.r>>
Entries(R) == {e \in [op : ArithOps \cup ImmOps, l : R, r : R \cup {-1}, imm : Int, res : R] :
                 e.r = -1 <=> e.op \in ImmOps}

LvnHolds(s, r) == \A e \in s : r[e.res] = ValueOf(Says(e), r)
NumsHold(s, r) == \A j \in DOMAIN s : r[s[j][2]] = Num(s[j][1])
CachesHold(cg, R, r) == /\ cg.lvn \subseteq Entries(R) /\ cg.nums \in Seq(Int \X R)
                        /\ LvnHolds(cg.lvn, r) /\ NumsHold(cg.nums, r)

\* The instruction emitted last may be fused away: what it computed is known to
\* no cache, but that a load is in the number cache, and a result of arithmetic
\* in the value numbering table.
Fresh(cg) == LET p == Last(cg.code)
             IN  p[1] \in PureOps =>
                   /\ \A e \in cg.lvn : /\ p[2] \notin {e.l, e.r}
                                        /\ e.res = p[2] => p[1] \notin LoadOps
                   /\ \A j \in DOMAIN cg.nums : cg.nums[j][2] = p[2] => p[1] \in LoadOps

\* Control gets to the end of the code with the frame g: from elsewhere, or
\* from the instruction before it, which found the frame f.
AtJoin(cg) == cg.code = <<>> \/ Len(cg.code) \in cg.targets
Follows(cg, R, f, g) == LET p == Last(cg.code)
                        IN  /\ g = Effect(p, f) /\ Is(f, R)
                            /\ p[1] \in PureOps => Fits(p, R) /\ Fresh(cg)
Known(cg, R, f, g) == /\ IsGen(cg) /\ cg.code \in Seq(Instruction)
                      /\ Is(g, R) /\ CachesHold(cg, R, g.regs)
                      /\ AtJoin(cg) \/ Follows(cg, R, f, g)

LEMMA EntryStays ==
  ASSUME NEW R, NEW e \in Entries(R), NEW r, NEW q,
         q[e.l] = r[e.l], e.r # -1 => q[e.r] = r[e.r]
  PROVE  ValueOf(Says(e), q) = ValueOf(Says(e), r)
<1> DEFINE i == Says(e)
<1>1. /\ i[1] = e.op /\ i[3] = e.l /\ i[4] = IF e.r = -1 THEN e.imm ELSE e.r
      /\ e.op \in ArithOps \cup ImmOps /\ e.l \in R /\ e.r \in R \cup {-1}
      /\ (e.r = -1 <=> e.op \in ImmOps)
  BY DEF Entries, Says
<1> HIDE DEF i
<1>2. q[e.l] = r[e.l]
  OBVIOUS
<1>3. CASE i[1] \in ImmOps
  <2>1. ValueOf(i, q) = Arith(i[1], q[i[3]], Num(i[4])) /\ ValueOf(i, r) = Arith(i[1], r[i[3]], Num(i[4]))
    BY <1>3, ValueFacts
  <2> QED
    BY <1>1, <1>2, <2>1 DEF i
<1>4. CASE i[1] \in ArithOps /\ ~(i[1] \in ImmOps)
  <2>1. i[4] = e.r /\ q[e.r] = r[e.r]
    BY <1>1, <1>4
  <2>2. ValueOf(i, q) = Arith(i[1], q[i[3]], q[i[4]]) /\ ValueOf(i, r) = Arith(i[1], r[i[3]], r[i[4]])
    BY <1>4, ValueFacts
  <2> QED
    BY <1>1, <1>2, <2>1, <2>2 DEF i
<1> QED
  BY <1>1, <1>3, <1>4 DEF i

\* Entries of registers that keep their values stay true.
Spared(n, cg, R, C) ==
  /\ n.lvn \subseteq cg.lvn /\ \A e \in n.lvn : e.l \notin C /\ e.r \notin C /\ e.res \notin C
  /\ n.nums \in Seq(Int \X R)
  /\ \A j \in DOMAIN n.nums : /\ n.nums[j][2] \notin C
                              /\ \E k \in DOMAIN cg.nums : n.nums[j] = cg.nums[k]
Agree(q, r, R, C) == q \in [R -> Value] /\ r \in [R -> Value] /\ \A x \in R : x \in C \/ q[x] = r[x]

LEMMA CachesStay ==
  ASSUME NEW R, R \subseteq Nat, NEW cg, NEW r, CachesHold(cg, R, r),
         NEW C, NEW q, Agree(q, r, R, C), NEW n, Spared(n, cg, R, C)
  PROVE  CachesHold(n, R, q)
<1> USE DEF Spared, Agree
<1>1. LvnHolds(n.lvn, q)
  <2> SUFFICES ASSUME NEW e \in n.lvn PROVE q[e.res] = ValueOf(Says(e), q)
    BY DEF LvnHolds
  <2>1. e \in Entries(R) /\ r[e.res] = ValueOf(Says(e), r)
    BY DEF CachesHold, LvnHolds
  <2>2. e.res \in R /\ e.l \in R /\ (e.r # -1 => e.r \in R)
    BY <2>1 DEF Entries
  <2>3. q[e.res] = r[e.res] /\ q[e.l] = r[e.l] /\ (e.r # -1 => q[e.r] = r[e.r])
    BY <2>2
  <2>4. ValueOf(Says(e), q) = ValueOf(Says(e), r)
    BY <2>1, <2>3, EntryStays
  <2> QED
    BY <2>1, <2>2, <2>3, <2>4
<1>2. NumsHold(n.nums, q)
  <2> SUFFICES ASSUME NEW j \in DOMAIN n.nums PROVE q[n.nums[j][2]] = Num(n.nums[j][1])
    BY DEF NumsHold
  <2>1. PICK k \in DOMAIN cg.nums : n.nums[j] = cg.nums[k]
    OBVIOUS
  <2>2. r[cg.nums[k][2]] = Num(cg.nums[k][1]) /\ cg.nums[k][2] \in R
    BY DEF CachesHold, NumsHold
  <2> QED
    BY <2>1, <2>2
<1>3. n.lvn \subseteq Entries(R)
  BY DEF CachesHold
<1> QED
  BY <1>1, <1>2, <1>3 DEF CachesHold

\* What is left of the number cache s when j is emitted.
Kept(t, s, S, j) == /\ t \in Seq(S)
                    /\ \A x \in DOMAIN t : \E k \in DOMAIN s : t[x] = s[k]
                    /\ WritesDest(j[1]) => \A x \in DOMAIN t : t[x][2] # j[2]

LEMMA NumsAfterFacts ==
  ASSUME NEW S, NEW s \in Seq(S), NEW j
  PROVE  Kept(NumsAfter(s, j), s, S, j)
<1> DEFINE t == NumsAfter(s, j)
<1>1. CASE WritesDest(j[1])
  <2>1. t = DropReg(s, j[2])
    BY <1>1 DEF NumsAfter
  <2>2. t \in Seq(S) /\ Hits(t, j[2]) = {} /\ \A x \in DOMAIN t : \E k \in DOMAIN s : t[x] = s[k]
    BY <2>1, DropRegFacts
  <2>3. \A x \in DOMAIN t : t[x][2] # j[2]
    BY <2>2 DEF Hits
  <2> QED
    BY <2>2, <2>3 DEF Kept
<1>2. CASE ~WritesDest(j[1])
  <2>1. t = s
    BY <1>2 DEF NumsAfter
  <2> QED
    BY <1>2, <2>1 DEF Kept
<1> QED
  BY <1>1, <1>2

LEMMA LvnAfterFacts ==
  ASSUME NEW s, NEW j, NEW e \in LvnAfter(s, j)
  PROVE  e \in s /\ (WritesDest(j[1]) => j[2] \notin {e.l, e.r, e.res})
BY DEF LvnAfter, WritesDest

\* The caches after an instruction that leaves all registers but those in C.
Forgets(cg, j, C) ==
  /\ \A e \in LvnAfter(cg.lvn, j) : e.l \notin C /\ e.r \notin C /\ e.res \notin C
  /\ \A k \in DOMAIN cg.nums : cg.nums[k][2] \in C => WritesDest(j[1]) /\ j[2] = cg.nums[k][2]

LEMMA KnownAfter ==
  ASSUME NEW R, R \subseteq Nat, NEW cg, NEW r, NEW q, NEW C, Agree(q, r, R, C),
         CachesHold(cg, R, r), NEW n, NEW i, NEW u, NEW j, Emitted(n, cg, i, u, j),
         Forgets(cg, j, C), Last(n.code) = j
  PROVE  CachesHold(n, R, q) /\ Fresh(n)
<1> USE DEF Forgets
<1>1. n.lvn \subseteq LvnAfter(cg.lvn, j) /\ n.nums = NumsAfter(cg.nums, j)
  BY DEF Emitted
<1>2. cg.nums \in Seq(Int \X R)
  BY DEF CachesHold
<1>3. /\ n.nums \in Seq(Int \X R)
      /\ \A x \in DOMAIN n.nums : \E k \in DOMAIN cg.nums : n.nums[x] = cg.nums[k]
      /\ WritesDest(j[1]) => \A x \in DOMAIN n.nums : n.nums[x][2] # j[2]
  <2>1. Kept(NumsAfter(cg.nums, j), cg.nums, Int \X R, j)
    BY <1>2, NumsAfterFacts, Zenon
  <2>2. Kept(n.nums, cg.nums, Int \X R, j)
    BY <1>1, <2>1
  <2> QED
    BY <2>2 DEF Kept
<1>4. \A e \in n.lvn : e \in cg.lvn /\ (WritesDest(j[1]) => j[2] \notin {e.l, e.r, e.res})
  BY <1>1, LvnAfterFacts
<1>5. CachesHold(n, R, q)
  <2>1. \A x \in DOMAIN n.nums : /\ n.nums[x][2] \notin C
                                 /\ \E k \in DOMAIN cg.nums : n.nums[x] = cg.nums[k]
    BY <1>3
  <2>2. \A e \in n.lvn : e.l \notin C /\ e.r \notin C /\ e.res \notin C
    BY <1>1
  <2>3. n.lvn \subseteq cg.lvn
    BY <1>4
  <2>4. Spared(n, cg, R, C)
    BY <1>3, <2>1, <2>2, <2>3 DEF Spared
  <2> QED
    BY <2>4, CachesStay
<1>6. Fresh(n)
  <2>1. j[1] \in PureOps => WritesDest(j[1])
    BY DEF WritesDest
  <2> QED
    BY <1>3, <1>4, <2>1 DEF Fresh
<1> QED
  BY <1>5, <1>6

-------------------------------------------------------------------------------
(* Emission.                                                                 *)

\* Emission deals with what neither returns nor iterates.
Plain(i) == ~(i[1] \in ForOps \cup ReturnOps)

LEMMA FusionOps ==
  ASSUME NEW cg, NEW p \in Instruction, p[1] \in PureOps, NEW i \in Instruction, Plain(i)
  PROVE  Plain(Fusion(cg, p, i).inst)
<1> DEFINE u == Fusion(cg, p, i)
<1>1. \A j : j[1] \in PureOps \cup JumpOps => Plain(j)
  BY DEF Plain, PureOps, LoadOps, ArithOps, ImmOps, CmpOps, JumpOps, ImmJumps, RegJumps, NoneJumps,
         ForOps, ReturnOps
<1>2. ~(i[1] \in ValueReturns) /\ ~(i[1] \in {"RETURN", "RETURN_NUM"}) /\ i[1] # "RETURN_NONE"
  BY DEF Plain, ReturnOps, ValueReturns
<1>3. /\ \A j, a, b, s : ~(1 \in s) => Substituted(j, a, b, s)[1] = j[1]
      /\ ~(1 \in SourceSlots(i[1])) /\ ~(1 \in {3, 4})
  BY DEF Substituted, SourceSlots
<1>4. \A d, k : LoadNumber(d, k)[1] \in PureOps
  <2>1. \A d, k : LoadNumber(d, k)[1] \in {"LOAD_NUM_IMM", "LOAD_NUM"}
    BY DEF LoadNumber
  <2> QED
    BY <2>1 DEF PureOps, LoadOps
<1>5. \A n \in Int : AddSigned(i[2], n)[1] \in PureOps
  <2> SUFFICES ASSUME NEW n \in Int PROVE AddSigned(i[2], n)[1] \in PureOps
    OBVIOUS
  <2>1. n = 0 => AddSigned(i[2], n)[1] = "MOVE"
    BY DEF AddSigned, Nop
  <2>2. n > 0 => AddSigned(i[2], n)[1] = "ADD_IMM"
    BY DEF AddSigned
  <2>3. n < 0 => AddSigned(i[2], n)[1] = "SUB_IMM"
    BY DEF AddSigned
  <2>4. n = 0 \/ n > 0 \/ n < 0
    OBVIOUS
  <2> QED
    BY <2>1, <2>2, <2>3, <2>4 DEF PureOps, ImmOps
<1>6. Signed(p) + Signed(i) \in Int
  BY TupleFacts DEF Signed
<1>7. u = OneFor(p) \/ u = OneFor(i) \/ Rewrites(cg, p, i, u)
  BY FusionRules
<1>8. /\ \A d, k : <<"LOAD_NUM_IMM", d, k, 0>>[1] \in PureOps
      /\ \A d : <<"JUMP", d, 0, 0>>[1] \in JumpOps
      /\ Nop[1] \in PureOps
  BY DEF PureOps, LoadOps, JumpOps, Nop
<1>9. p \in Instruction => [p EXCEPT ![2] = i[2]][1] = p[1]
  BY DEF Instruction
<1> HIDE DEF u
<1>10. Rewrites(cg, p, i, u) => Plain(u.inst)
  <2> DEFINE OfKind(j) == j[1] \in PureOps \cup JumpOps \/ j[1] = i[1]
             Made(x) == \E j : (x = OneFor(j) \/ x = InFront(j)) /\ OfKind(j)
  <2>1. ASSUME Rewrites(cg, p, i, u) PROVE Made(u)
    <3>1. /\ OfKind([p EXCEPT ![2] = i[2]])
          /\ OfKind(Substituted(i, i[2], p[3], {3, 4}))
          /\ OfKind(Substituted(i, p[2], p[3], SourceSlots(i[1])))
          /\ \A k : OfKind(LoadNumber(i[2], k))
          /\ \A k : OfKind(<<"LOAD_NUM_IMM", i[2], k, 0>>)
          /\ OfKind(<<"JUMP", i[2], 0, 0>>) /\ OfKind(Nop) /\ OfKind(i) /\ OfKind(p)
          /\ OfKind(AddSigned(i[2], Signed(p) + Signed(i)))
      BY <1>3, <1>4, <1>5, <1>6, <1>8, <1>9
    <3> HIDE DEF OfKind
    <3> QED
      BY <1>2, <2>1, <3>1 DEF Rewrites
  <2>2. Made(u) => Plain(u.inst)
    BY <1>1, OneForFacts DEF Plain
  <2> QED
    BY <2>1, <2>2
<1> QED
  BY <1>1, <1>7, <1>10, OneForFacts DEF u

LEMMA TemporaryOne ==
  ASSUME NEW cg, NEW p \in Instruction, NEW i, Temporary(cg, p, i)
  PROVE  Fusion(cg, p, i).inst[1] = p[1]
<1>1. ~IsNop(i) /\ ~IsNop(p)
  BY DEF Temporary, IsNop, LoadOps
<1>2. Fusion(cg, p, i) = OneFor([p EXCEPT ![2] = i[2]])
  BY <1>1, Zenon DEF Fusion, Temporary
<1>3. [p EXCEPT ![2] = i[2]][1] = p[1]
  <2>1. 1 \in DOMAIN p
    BY DEF Instruction
  <2> QED
    BY <2>1
<1> QED
  BY <1>2, <1>3, OneForFacts

\* The frame at the end of the code that emission leaves, when control comes
\* from the instruction before it: fusion puts one in the place of two.
Found(cg, i, f, g) == IF FusionAt(cg, i).one THEN f ELSE g

\* What emission must keep: the effect, but for a temporary's old value.
KeepsEffect(cg, i, f, g, h) ==
    \/ h = Effect(i, g)
    \/ LET p == Last(cg.code)
       IN  Temporary(cg, p, i) /\ h = Write(Effect(i, g), p[2], f.regs[p[2]])

\* The instruction i is appended, or what fusion makes of it.
LEMMA EmitsBehind ==
  ASSUME NEW R, R \subseteq Nat, NEW cg, NEW f, NEW g, Known(cg, R, f, g), NEW i,
         NEW u, ~u.one, NEW j \in Instruction, Plain(j), Fits(j, R), NEW n, Emitted(n, cg, i, u, j)
  PROVE  Known(n, R, g, Effect(j, g))
<1> DEFINE h == Effect(j, g)
           C == {x \in R : h.regs[x] # g.regs[x]}
<1>1. IsGen(cg) /\ cg.code \in Seq(Instruction) /\ Is(g, R) /\ CachesHold(cg, R, g.regs)
  BY DEF Known
<1>2. Is(h, R) /\ \A x \in C : WritesDest(j[1]) /\ x = j[2]
  BY <1>1, EffectIs DEF Plain
<1>3. IsGen(n) /\ n.code = Append(cg.code, j) /\ n.code \in Seq(Instruction) /\ Last(n.code) = j
  BY <1>1 DEF Emitted, Last
<1>4. \A e \in LvnAfter(cg.lvn, j) : e.l \notin C /\ e.r \notin C /\ e.res \notin C
  <2> SUFFICES ASSUME NEW e \in LvnAfter(cg.lvn, j) PROVE e.l \notin C /\ e.r \notin C /\ e.res \notin C
    OBVIOUS
  <2>1. WritesDest(j[1]) => j[2] \notin {e.l, e.r, e.res}
    BY LvnAfterFacts
  <2> HIDE DEF C
  <2> QED
    BY <1>2, <2>1
<1>5. \A k \in DOMAIN cg.nums : cg.nums[k][2] \in C => WritesDest(j[1]) /\ j[2] = cg.nums[k][2]
  BY <1>2
<1>6. \A x \in R : x \in C \/ h.regs[x] = g.regs[x]
  OBVIOUS
<1>7. g.regs \in [R -> Value] /\ h.regs \in [R -> Value]
  BY <1>1, <1>2 DEF Is
<1> HIDE DEF h, C
<1>8. CachesHold(n, R, h.regs) /\ Fresh(n)
  <2>1. Agree(h.regs, g.regs, R, C)
    BY <1>6, <1>7 DEF Agree
  <2>2. Forgets(cg, j, C)
    BY <1>4, <1>5 DEF Forgets
  <2> QED
    BY <1>1, <1>3, <2>1, <2>2, KnownAfter
<1>9. Follows(n, R, g, h)
  BY <1>1, <1>3, <1>8 DEF Follows, h
<1>10. Known(n, R, g, h)
  BY <1>2, <1>3, <1>8, <1>9 DEF Known
<1> QED
  BY <1>10 DEF h

\* What fusion changes of the registers is what i changes, and a temporary.
Leaves(cg, p, i, f, g, h) ==
  /\ \/ h = Effect(i, g)
     \/ Temporary(cg, p, i) /\ h = Write(Effect(i, g), p[2], f.regs[p[2]])
  /\ \A x \in DOMAIN g.regs :
       \/ h.regs[x] = g.regs[x]
       \/ Temporary(cg, p, i) /\ x = p[2]
       \/ WritesDest(i[1]) /\ x = i[2] /\ Effect(i, g) # g

LEMMA FusionLeaves ==
  ASSUME NEW R, NEW cg, NEW p \in Instruction, p[1] \in PureOps, NEW i \in Instruction, Plain(i),
         NEW f, Is(f, R), Fits(p, R), Fits(i, R), NEW u, NEW j, u = OneFor(j),
         Fine(cg, p, i, f, u), NEW g, g = Effect(p, f), NEW h, h = Effect(j, f)
  PROVE  Leaves(cg, p, i, f, g, h)
<1> DEFINE k == Effect(i, g)
<1>1. Straight(p, f) /\ Both(p, i, f) = Did(i, g) /\ Instead(u, p, f) = Did(j, f)
  BY PureFacts, InsteadOne DEF Both
<1>2. Did(j, f).frame = h /\ Did(i, g).frame = k /\ Did(i, g).end = EndedBy(i, g)
  BY DidFacts
<1>3. EndedBy(i, g) # "returned"
  <2>1. ~(i[1] \in ReturnOps) /\ ~(i[1] \in ForOps)
    BY DEF Plain
  <2>2. EndedBy(i, g) = ""
    BY <2>1, Zenon DEF EndedBy
  <2> QED
    BY <2>2, Zenon
<1>4. \/ Did(j, f) = Did(i, g)
      \/ SameReturn(Did(j, f), Did(i, g))
      \/ Temporary(cg, p, i) /\ KeepsOld(Did(j, f), Did(i, g), p[2], f)
  BY <1>1 DEF Fine, AsGood
<1>5. ~SameReturn(Did(j, f), Did(i, g))
  BY <1>2, <1>3, Zenon DEF SameReturn
<1>6. h = k \/ (Temporary(cg, p, i) /\ h = Write(k, p[2], f.regs[p[2]]))
  BY <1>2, <1>4, <1>5 DEF KeepsOld
<1>7. Is(g, R)
  <2>1. Plain(p)
    BY DEF Plain, PureOps, LoadOps, ArithOps, ImmOps, CmpOps, ForOps, ReturnOps
  <2> QED
    BY <2>1, EffectIs DEF Plain
<1>8. Is(k, R) /\ \A x \in R : (WritesDest(i[1]) => x # i[2]) => k.regs[x] = g.regs[x]
  BY <1>7, EffectIs DEF Plain
<1>9. k = g => k.regs = g.regs
  OBVIOUS
<1> HIDE DEF k
<1>10. \A v : Write(k, p[2], v).regs = [k.regs EXCEPT ![p[2]] = v]
  BY <1>8, WriteRegs
<1>11. \A x \in R : h.regs[x] = k.regs[x] \/ (Temporary(cg, p, i) /\ x = p[2])
  <2> SUFFICES ASSUME NEW x \in R, ~(Temporary(cg, p, i) /\ x = p[2]) PROVE h.regs[x] = k.regs[x]
    OBVIOUS
  <2>1. CASE h = k
    BY <2>1
  <2>2. CASE Temporary(cg, p, i) /\ h = Write(k, p[2], f.regs[p[2]])
    <3>1. k.regs \in [R -> Value]
      BY <1>8 DEF Is
    <3>2. h.regs = [k.regs EXCEPT ![p[2]] = f.regs[p[2]]] /\ x # p[2]
      BY <1>10, <2>2
    <3> QED
      BY <3>1, <3>2
  <2> QED
    BY <1>6, <2>1, <2>2
<1>12. \A x \in R : \/ h.regs[x] = g.regs[x]
                    \/ Temporary(cg, p, i) /\ x = p[2]
                    \/ WritesDest(i[1]) /\ x = i[2] /\ k # g
  BY <1>8, <1>9, <1>11
<1>13. DOMAIN g.regs = R
  BY <1>7 DEF Is
<1>14. \A x \in DOMAIN g.regs :
         \/ h.regs[x] = g.regs[x]
         \/ Temporary(cg, p, i) /\ x = p[2]
         \/ WritesDest(i[1]) /\ x = i[2] /\ k # g
  BY <1>12, <1>13
<1> QED
  BY <1>6, <1>14, Zenon DEF k, Leaves

\* One instruction takes the place of the last and of i.
LEMMA EmitsInstead ==
  ASSUME NEW R, R \subseteq Nat, 0 \in R, NEW cg, NEW f, NEW g, Known(cg, R, f, g), ~AtJoin(cg),
         NEW p \in Instruction, p = Last(cg.code), p[1] \in PureOps,
         NEW i \in Instruction, Plain(i), Fits(i, R), ~OnBoolean(p, i, f),
         NEW u, u = Fusion(cg, p, i), NEW j, u = OneFor(j), Judge(cg, i, u).flaws \cap Unsound = {},
         NEW n, Emitted(n, cg, i, u, j)
  PROVE  Known(n, R, f, Effect(j, f)) /\ KeepsEffect(cg, i, f, g, Effect(j, f))
<1> DEFINE h == Effect(j, f)
           C == {x \in R : h.regs[x] # g.regs[x]}
<1>1. /\ IsGen(cg) /\ cg.code \in Seq(Instruction) /\ Is(g, R) /\ CachesHold(cg, R, g.regs)
      /\ g = Effect(p, f) /\ Is(f, R) /\ Fits(p, R) /\ Fresh(cg)
  BY DEF Known, Follows
<1>2. u.one /\ u.inst = j
  BY OneForFacts
<1>3. /\ ~LosesMove(p, i)
      /\ ~(j = Nop /\ ~IsNop(i) /\ i[2] # 0 /\ \E e \in cg.lvn : e.res = i[2])
      /\ ~(/\ i[1] = "MOVE" /\ j[1] \in LoadOps
           /\ \E k \in DOMAIN cg.nums : cg.nums[k][2] = i[3] /\ i[2] # i[3])
  BY <1>1, <1>2, JudgeForm
<1>4. Fine(cg, p, i, f, u) /\ j \in Instruction /\ Fits(j, R) /\ Plain(j)
  BY <1>1, <1>2, <1>3, FusionIsFine, FusionFits, FusionOps
<1>5. Is(h, R) /\ Leaves(cg, p, i, f, g, h)
  <2>1. Is(h, R)
    BY <1>1, <1>4, EffectIs DEF Plain
  <2>2. Leaves(cg, p, i, f, g, h)
    BY <1>1, <1>4, FusionLeaves
  <2> QED
    BY <2>1, <2>2
<1>6. KeepsEffect(cg, i, f, g, h)
  <2> HIDE DEF h
  <2> QED
    BY <1>5, Zenon DEF KeepsEffect, Leaves
<1>7. \A x \in C : \/ Temporary(cg, p, i) /\ x = p[2]
                   \/ WritesDest(i[1]) /\ x = i[2] /\ Effect(i, g) # g
  <2>1. DOMAIN g.regs = R
    BY <1>1 DEF Is
  <2> QED
    BY <1>5, <2>1 DEF Leaves
<1>8. /\ \A e \in cg.lvn : p[2] \notin {e.l, e.r} /\ (e.res = p[2] => p[1] \notin LoadOps)
      /\ \A k \in DOMAIN cg.nums : cg.nums[k][2] = p[2] => p[1] \in LoadOps
  BY <1>1 DEF Fresh
<1>9. Temporary(cg, p, i) => p[1] \in LoadOps /\ i[1] = "MOVE" /\ p[2] = i[3] /\ i[2] # i[3] /\ j[1] \in LoadOps
  <2>1. Temporary(cg, p, i) => u.inst[1] = p[1]
    <3>1. ASSUME Temporary(cg, p, i) PROVE Fusion(cg, p, i).inst[1] = p[1]
      BY <3>1, TemporaryOne
    <3> QED
      BY <3>1
  <2> QED
    BY <1>2, <2>1 DEF Temporary
<1>10. ASSUME WritesDest(i[1]), Effect(i, g) # g
       PROVE  \/ WritesDest(j[1]) /\ j[2] = i[2]
              \/ Cancel(p, i) /\ j = Nop /\ i[2] # 0
  <2>1. (WritesDest(j[1]) /\ j[2] = i[2]) \/ (Cancel(p, i) /\ j = Nop)
    BY <1>1, <1>2, <1>4, <1>10, OneForFacts DEF Fine, Settled
  <2>2. j = Nop => WritesDest(j[1]) /\ j[2] = 0
    BY DEF Nop, WritesDest, PureOps
  <2> QED
    BY <2>1, <2>2
<1>11. Cancel(p, i) => ~IsNop(i) /\ p[2] = i[2] /\ ~(p[1] \in LoadOps)
  BY DEF Cancel, IsNop, LoadOps
<1>12. IsGen(n) /\ n.code = Append(Front(cg.code), j) /\ n.code \in Seq(Instruction) /\ Last(n.code) = j
  <2>1. IsGen(n) /\ n.code = Append(Front(cg.code), j)
    BY <1>2 DEF Emitted
  <2>2. cg.code # <<>>
    BY DEF AtJoin
  <2>3. Front(cg.code) \in Seq(Instruction)
    BY <1>1, <2>2 DEF Front
  <2> QED
    BY <1>4, <2>1, <2>3 DEF Last
<1> HIDE DEF h, C
<1>13. ASSUME NEW e \in LvnAfter(cg.lvn, j) PROVE e.l \notin C /\ e.r \notin C /\ e.res \notin C
  <2>1. e \in cg.lvn /\ (WritesDest(j[1]) => j[2] \notin {e.l, e.r, e.res})
    BY LvnAfterFacts
  <2>2. ASSUME NEW x \in C PROVE x \notin {e.l, e.r, e.res}
    <3>1. CASE Temporary(cg, p, i) /\ x = p[2]
      BY <1>8, <1>9, <2>1, <3>1
    <3>2. CASE WritesDest(j[1]) /\ x = j[2]
      BY <2>1, <3>2
    <3>3. CASE Cancel(p, i) /\ j = Nop /\ i[2] # 0 /\ x = i[2]
      BY <1>3, <1>8, <1>11, <2>1, <3>3
    <3> QED
      BY <1>7, <1>10, <2>2, <3>1, <3>2, <3>3
  <2> QED
    BY <2>2
<1>14. ASSUME NEW k \in DOMAIN cg.nums, cg.nums[k][2] \in C
       PROVE  WritesDest(j[1]) /\ j[2] = cg.nums[k][2]
  <2> DEFINE x == cg.nums[k][2]
  <2>1. ~(Temporary(cg, p, i) /\ x = p[2])
    BY <1>3, <1>9
  <2>2. ~(Cancel(p, i) /\ x = i[2])
    BY <1>8, <1>11
  <2> QED
    BY <1>7, <1>10, <1>14, <2>1, <2>2
<1>15. CachesHold(n, R, h.regs) /\ Fresh(n)
  <2>1. Agree(h.regs, g.regs, R, C)
    BY <1>1, <1>5 DEF Agree, Is, C
  <2>2. Forgets(cg, j, C)
    BY <1>13, <1>14 DEF Forgets
  <2> QED
    BY <1>1, <1>12, <2>1, <2>2, KnownAfter
<1>16. Follows(n, R, f, h)
  BY <1>1, <1>4, <1>12, <1>15 DEF Follows, h
<1>17. Known(n, R, f, h)
  BY <1>5, <1>12, <1>15, <1>16 DEF Known
<1> QED
  BY <1>6, <1>17 DEF h

LEMMA FusionIsOne ==
  ASSUME NEW cg, NEW p, NEW i, NEW u, u = Fusion(cg, p, i), u.one
  PROVE  u = OneFor(u.inst)
<1>1. u = OneFor(p) \/ u = OneFor(i) \/ Rewrites(cg, p, i, u)
  BY FusionRules
<1>2. (\E j : u = OneFor(j)) \/ (\E j : u = InFront(j))
  BY <1>1 DEF Rewrites
<1> QED
  BY <1>2, OneForFacts

\* A NOP behind what fuses with nothing else is left out.
LEMMA EmitsNothing ==
  ASSUME NEW R, R \subseteq Nat, NEW cg, NEW f, NEW g, Known(cg, R, f, g), ~AtJoin(cg),
         NEW p \in Instruction, p = Last(cg.code), ~(p[1] \in PureOps),
         NEW i, NEW u, u.one, NEW n, Emitted(n, cg, i, u, p)
  PROVE  Known(n, R, f, g)
<1>1. /\ IsGen(cg) /\ cg.code \in Seq(Instruction) /\ Is(g, R) /\ CachesHold(cg, R, g.regs)
      /\ g = Effect(p, f) /\ Is(f, R)
  BY DEF Known, Follows
<1>2. IsGen(n) /\ n.code \in Seq(Instruction) /\ Last(n.code) = p
  <2>1. IsGen(n) /\ n.code = Append(Front(cg.code), p)
    BY DEF Emitted
  <2>2. cg.code # <<>>
    BY DEF AtJoin
  <2>3. Front(cg.code) \in Seq(Instruction)
    BY <1>1, <2>2 DEF Front
  <2> QED
    BY <2>1, <2>3 DEF Last
<1>3. CachesHold(n, R, g.regs)
  <2>1. Agree(g.regs, g.regs, R, {})
    BY <1>1 DEF Agree, Is
  <2>2. Forgets(cg, p, {})
    BY DEF Forgets
  <2> QED
    BY <1>1, <1>2, <2>1, <2>2, KnownAfter
<1>4. Follows(n, R, f, g)
  BY <1>1, <1>2 DEF Follows
<1> QED
  BY <1>1, <1>2, <1>3, <1>4 DEF Known

\* Two instructions that differ in the target of a jump change the same.
LEMMA SameEffect ==
  ASSUME NEW i, NEW j, j = i \/ (j[1] = i[1] /\ i[1] \in JumpOps), NEW f
  PROVE  Effect(j, f) = Effect(i, f)
<1>1. i[1] \in JumpOps => Effect(i, f) = f
  BY JumpFacts
<1>2. j[1] \in JumpOps => Effect(j, f) = f
  BY JumpFacts
<1> QED
  BY <1>1, <1>2

\* What i becomes behind a computation has the effect that i has.
LEMMA FrontEffect ==
  ASSUME NEW cg, NEW p, p[1] \in PureOps, NEW i, Plain(i), NEW f, NEW u, ~u.one,
         AsGood(cg, p, i, f, u), NEW g, g = Effect(p, f)
  PROVE  \/ Effect(u.inst, g) = Effect(i, g)
         \/ Temporary(cg, p, i) /\ Effect(u.inst, g) = Write(Effect(i, g), p[2], f.regs[p[2]])
<1>1. Both(p, i, f) = Did(i, g) /\ Instead(u, p, f) = Did(u.inst, g)
  BY PureFacts DEF Both, Instead
<1>2. /\ Did(u.inst, g).frame = Effect(u.inst, g) /\ Did(i, g).frame = Effect(i, g)
      /\ Did(i, g).end = EndedBy(i, g)
  BY DidFacts
<1>3. EndedBy(i, g) # "returned"
  <2>1. ~(i[1] \in ReturnOps) /\ ~(i[1] \in ForOps)
    BY DEF Plain
  <2>2. EndedBy(i, g) = ""
    BY <2>1, Zenon DEF EndedBy
  <2> QED
    BY <2>2, Zenon
<1>4. ~SameReturn(Did(u.inst, g), Did(i, g))
  BY <1>2, <1>3, Zenon DEF SameReturn
<1>5. \/ Did(u.inst, g) = Did(i, g)
      \/ Temporary(cg, p, i) /\ KeepsOld(Did(u.inst, g), Did(i, g), p[2], f)
  BY <1>1, <1>4 DEF AsGood
<1> QED
  BY <1>2, <1>5 DEF KeepsOld

LEMMA MakesInstruction ==
  ASSUME NEW R, 0 \in R, NEW cg, NEW f, NEW g, Known(cg, R, f, g), NEW i \in Instruction, Fits(i, R)
  PROVE  FusionAt(cg, i).inst \in Instruction
<1> DEFINE p == Last(cg.code)
           u == FusionAt(cg, i)
<1>1. CASE AtJoin(cg)
  <2>1. u = InFront(i)
    BY <1>1 DEF FusionAt, AtJoin
  <2> QED
    BY <2>1, OneForFacts
<1>2. CASE ~AtJoin(cg)
  <2>1. u = Fusion(cg, p, i) /\ p \in Instruction /\ Follows(cg, R, f, g)
    BY <1>2 DEF FusionAt, AtJoin, Known, Last
  <2>2. CASE LosesMove(p, i)
    BY <2>1, <2>2, LosesOne
  <2>3. CASE ~(p[1] \in PureOps) /\ ~LosesMove(p, i)
    <3>1. u = OneFor(p) \/ u = InFront(i)
      BY <2>1, <2>3, OtherFusion
    <3> QED
      BY <2>1, <3>1, OneForFacts
  <2>4. CASE p[1] \in PureOps /\ ~LosesMove(p, i)
    <3>1. Fits(p, R)
      BY <2>1, <2>4 DEF Follows
    <3> QED
      BY <2>1, <2>4, <3>1, FusionFits
  <2> QED
    BY <2>2, <2>3, <2>4
<1> QED
  BY <1>1, <1>2

\* emit: the code it leaves does what the code before and the instruction do,
\* also where it fuses the two, and the value numbering table and the number
\* cache stay true of the registers, whatever they hold.  Excepted are the
\* emissions that are marked as a flaw, and two instructions that cancel on a
\* boolean.
THEOREM EmitCorrect ==
  ASSUME NEW R, R \subseteq Nat, 0 \in R, NEW cg, NEW f, NEW g, Known(cg, R, f, g),
         NEW i \in Instruction, Plain(i), Fits(i, R),
         ~AtJoin(cg) => ~OnBoolean(Last(cg.code), i, f),
         Emit(cg, i).flaws \cap Unsound = {}
  PROVE  LET n == Emit(cg, i)
             was == Found(cg, i, f, g)
             h == Effect(Last(n.code), was)
         IN  Known(n, R, was, h) /\ KeepsEffect(cg, i, f, g, h)
<1> DEFINE n == Emit(cg, i)
           was == Found(cg, i, f, g)
           p == Last(cg.code)
           u == FusionAt(cg, i)
           Stands(h) == Known(n, R, was, h) /\ KeepsEffect(cg, i, f, g, h)
<1>1. IsGen(cg) /\ cg.code \in Seq(Instruction) /\ Is(g, R)
  BY DEF Known
<1>2. AtJoin(cg) => u = InFront(i)
  BY DEF FusionAt, AtJoin
<1>3. ~AtJoin(cg) => u = Fusion(cg, p, i) /\ p \in Instruction /\ Follows(cg, R, f, g) /\ ~OnBoolean(p, i, f)
  BY <1>1 DEF FusionAt, AtJoin, Known, Last
<1>4. u = InFront(i) => ~u.one /\ u.inst = i
  BY OneForFacts
<1>5. ASSUME ~AtJoin(cg), p[1] \in PureOps PROVE g = Effect(p, f) /\ Is(f, R) /\ Fits(p, R)
  BY <1>3, <1>5 DEF Follows
<1>6. ASSUME ~AtJoin(cg), ~(p[1] \in PureOps)
      PROVE  (IsNop(i) /\ u = OneFor(p)) \/ u = InFront(i)
  BY <1>3, <1>6, OtherFusion
<1>7. u.inst \in Instruction /\ (~AtJoin(cg) /\ LosesMove(p, i) => u.one)
  <2>1. u.inst \in Instruction
    BY MakesInstruction
  <2>2. ASSUME ~AtJoin(cg), LosesMove(p, i) PROVE u.one
    BY <1>3, <2>2, LosesOne
  <2> QED
    BY <2>1, <2>2
<1>8. PICK j \in Instruction : Emitted(n, cg, i, u, j)
  <2> HIDE DEF u, n
  <2>1. u = FusionAt(cg, i) /\ n = Emit(cg, i)
    BY DEF u, n
  <2> QED
    BY <1>1, <1>7, <2>1, EmitForm
<1>9. /\ Judge(cg, i, u).flaws \cap Unsound = {} /\ Last(n.code) = j
      /\ j = u.inst \/ (j[1] = u.inst[1] /\ u.inst[1] \in JumpOps /\ ~u.one)
  <2>1. n.flaws \cap Unsound = {}
    OBVIOUS
  <2> HIDE DEF n, u
  <2>2. n.code = Append(IF u.one THEN Front(cg.code) ELSE cg.code, j)
    BY <1>8 DEF Emitted
  <2>3. u.one => cg.code # <<>>
    BY <1>2, <1>4 DEF AtJoin
  <2>4. cg.code # <<>> => Front(cg.code) \in Seq(Instruction)
    BY <1>1 DEF Front
  <2>5. Last(n.code) = j
    BY <1>1, <2>2, <2>3, <2>4 DEF Last
  <2> QED
    BY <1>8, <2>1, <2>5 DEF Emitted
<1>10. ~(u.one /\ LosesMove(p, i))
  BY <1>1, <1>9, JudgeForm
<1>11. \A x : Effect(j, x) = Effect(u.inst, x)
  BY <1>9, SameEffect
<1>12. ASSUME ~u.one PROVE Stands(Effect(j, was))
  <2>1. was = g
    BY <1>12 DEF Found
  <2>2. Plain(u.inst) /\ Fits(u.inst, R) /\ KeepsEffect(cg, i, f, g, Effect(u.inst, g))
    <3>1. CASE u = InFront(i)
      BY <1>4, <3>1, Zenon DEF KeepsEffect
    <3>2. CASE u # InFront(i)
      <4>1. ~AtJoin(cg) /\ p[1] \in PureOps /\ ~LosesMove(p, i)
        BY <1>2, <1>6, <1>7, <1>12, <3>2, OneForFacts
      <4>2. Plain(u.inst) /\ Fits(u.inst, R) /\ AsGood(cg, p, i, f, u)
        BY <1>3, <1>5, <4>1, FusionOps, FusionFits, FusionCorrect
      <4> HIDE DEF u
      <4>3. KeepsEffect(cg, i, f, g, Effect(u.inst, g))
        BY <1>5, <1>12, <4>1, <4>2, FrontEffect DEF KeepsEffect
      <4> QED
        BY <4>2, <4>3
    <3> QED
      BY <3>1, <3>2
  <2>3. Plain(j) /\ Fits(j, R)
    BY <1>9, <2>2, NoDest DEF Plain, Fits
  <2> HIDE DEF n, was, u
  <2>4. Known(n, R, g, Effect(j, g))
    BY <1>8, <1>12, <2>3, EmitsBehind
  <2> QED
    BY <1>11, <2>1, <2>2, <2>4
<1>13. ASSUME u.one PROVE Stands(Effect(j, was))
  <2>1. was = f /\ j = u.inst
    BY <1>9, <1>13 DEF Found
  <2>2. ~AtJoin(cg)
    BY <1>2, <1>4, <1>13
  <2>3. CASE p[1] \in PureOps
    <3>1. u = OneFor(j)
      <4>1. u = Fusion(cg, p, i)
        BY <1>3, <2>2
      <4> HIDE DEF u
      <4> QED
        BY <1>13, <2>1, <4>1, FusionIsOne
    <3> HIDE DEF n, was
    <3>2. Known(n, R, f, Effect(j, f)) /\ KeepsEffect(cg, i, f, g, Effect(j, f))
      BY <1>3, <1>8, <1>9, <2>2, <2>3, <3>1, EmitsInstead
    <3> QED
      BY <2>1, <3>2
  <2>4. CASE ~(p[1] \in PureOps)
    <3>1. IsNop(i) /\ j = p
      BY <1>4, <1>6, <1>13, <2>1, <2>2, <2>4, OneForFacts
    <3>2. g = Effect(p, f) /\ Effect(i, g) = g
      BY <1>1, <1>3, <2>2, <3>1, IsFramed, NopKeepsFrame DEF Follows
    <3> HIDE DEF n, was, u
    <3>3. Known(n, R, f, g)
      BY <1>3, <1>8, <1>13, <2>2, <2>4, <3>1, EmitsNothing
    <3> QED
      BY <2>1, <3>1, <3>2, <3>3 DEF KeepsEffect
  <2> QED
    BY <2>3, <2>4
<1> QED
  BY <1>9, <1>12, <1>13

\* A generator that differs in its caches only.
LEMMA KnownWith ==
  ASSUME NEW R, NEW cg, NEW f, NEW g, Known(cg, R, f, g), NEW n, IsGen(n),
         n.code = cg.code, n.targets = cg.targets, CachesHold(n, R, g.regs),
         AtJoin(cg) \/ Fresh(n)
  PROVE  Known(n, R, f, g)
<1>1. AtJoin(n) <=> AtJoin(cg)
  BY DEF AtJoin
<1>2. Follows(cg, R, f, g) /\ Fresh(n) => Follows(n, R, f, g)
  BY DEF Follows
<1> QED
  BY <1>1, <1>2 DEF Known

\* The number cache is put with its floor.
WithNums(cg, x, y) == [cg EXCEPT !.nums = x, !.floor = y]

LEMMA PutNums ==
  ASSUME NEW cg, IsGen(cg), NEW x, NEW y
  PROVE  Same(WithNums(cg, x, y), cg, {"nums", "floor"}) /\ WithNums(cg, x, y).nums = x
<1> DEFINE m == [cg EXCEPT !.nums = x]
           n == [m EXCEPT !.floor = y]
<1>1. WithNums(cg, x, y) = n
  BY DEF WithNums
<1>2. Same(m, cg, {"nums"}) /\ m.nums = x
  BY PutFields
<1> HIDE DEF m
<1>3. Same(n, m, {"floor"})
  <2>1. IsGen(m)
    BY <1>2 DEF Same
  <2> QED
    BY <2>1, PutFields
<1> HIDE DEF n
<1>4. n.nums = m.nums
  <2>1. "nums" \in Fields \ {"floor"}
    BY DEF Fields
  <2> QED
    BY <1>3, <2>1 DEF Same
<1>5. {"floor"} \cup {"nums"} = {"nums", "floor"}
  OBVIOUS
<1>6. Same(n, cg, {"nums", "floor"})
  BY <1>2, <1>3, <1>5, SameSame
<1> QED
  BY <1>1, <1>2, <1>4, <1>6

\* compile_arith and opt_lvn_lookup, opt_const_cache_lookup: a register that a
\* cache names holds the value that is looked for.
THEOREM LookupCorrect ==
  ASSUME NEW R, R \subseteq Nat, NEW cg, NEW f, NEW g, Known(cg, R, f, g)
  PROVE  /\ \A op, l, r, imm : LET it == LvnLookup(cg, op, l, r, imm)
                               IN  it >= 0 => it \in R /\ g.regs[it] =
                                     Arith(op, g.regs[l], IF r = -1 THEN Num(imm) ELSE g.regs[r])
         /\ \A k : LET it == NumLookup(cg, k) IN it >= 0 => it \in R /\ g.regs[it] = Num(k)
<1>1. /\ cg.lvn \subseteq Entries(R) /\ cg.nums \in Seq(Int \X R)
      /\ LvnHolds(cg.lvn, g.regs) /\ NumsHold(cg.nums, g.regs)
  BY DEF Known, CachesHold
<1>2. ASSUME NEW op, NEW l, NEW r, NEW imm, LvnLookup(cg, op, l, r, imm) >= 0
      PROVE  /\ LvnLookup(cg, op, l, r, imm) \in R
             /\ g.regs[LvnLookup(cg, op, l, r, imm)] =
                  Arith(op, g.regs[l], IF r = -1 THEN Num(imm) ELSE g.regs[r])
  <2> DEFINE hits == {e \in cg.lvn : e.op = op /\ e.l = l /\ e.r = r /\ e.imm = imm}
             e == CHOOSE x \in hits : TRUE
             it == LvnLookup(cg, op, l, r, imm)
  <2>1. it = IF hits = {} THEN -1 ELSE e.res
    BY DEF LvnLookup
  <2>2. hits # {} /\ it = e.res
    BY <1>2, <2>1
  <2>3. e \in hits
    BY <2>2
  <2> HIDE DEF it, e
  <2>4. /\ e \in cg.lvn /\ e \in Entries(R) /\ e.op = op /\ e.l = l /\ e.r = r /\ e.imm = imm
        /\ g.regs[e.res] = ValueOf(Says(e), g.regs)
    BY <1>1, <2>3 DEF LvnHolds
  <2>5. e.res \in R /\ (r = -1 <=> op \in ImmOps) /\ op \in ArithOps \cup ImmOps
    BY <2>4 DEF Entries
  <2>6. Says(e)[1] = op /\ Says(e)[3] = l /\ Says(e)[4] = IF r = -1 THEN imm ELSE r
    BY <2>4 DEF Says
  <2>7. ValueOf(Says(e), g.regs) = Arith(op, g.regs[l], IF r = -1 THEN Num(imm) ELSE g.regs[r])
    <3>1. CASE op \in ImmOps
      BY <2>5, <2>6, <3>1, ValueFacts
    <3>2. CASE ~(op \in ImmOps)
      BY <2>5, <2>6, <3>2, ValueFacts
    <3> QED
      BY <3>1, <3>2
  <2>8. it \in R /\ g.regs[it] = Arith(op, g.regs[l], IF r = -1 THEN Num(imm) ELSE g.regs[r])
    BY <2>2, <2>4, <2>5, <2>7
  <2> QED
    BY <2>8 DEF it
<1>3. ASSUME NEW k, NumLookup(cg, k) >= 0
      PROVE  NumLookup(cg, k) \in R /\ g.regs[NumLookup(cg, k)] = Num(k)
  <2> DEFINE hits == {j \in DOMAIN cg.nums : cg.nums[j][1] = k}
  <2>1. hits # {} /\ NumLookup(cg, k) = cg.nums[Min(hits)][2]
    BY <1>3 DEF NumLookup
  <2>2. Min(hits) \in hits
    <3>1. hits \subseteq Nat
      BY <1>1
    <3> HIDE DEF hits
    <3>2. PICK m \in hits : \A x \in hits : m <= x
      BY <2>1, <3>1, Least
    <3> QED
      BY <3>2 DEF Min
  <2> DEFINE m == Min(hits)
  <2>3. m \in DOMAIN cg.nums /\ cg.nums[m][1] = k
    BY <2>2
  <2> HIDE DEF m
  <2>4. cg.nums[m] \in Int \X R /\ g.regs[cg.nums[m][2]] = Num(cg.nums[m][1])
    BY <1>1, <2>3 DEF NumsHold
  <2>5. cg.nums[m][2] \in R /\ g.regs[cg.nums[m][2]] = Num(k)
    BY <2>3, <2>4
  <2> QED
    BY <2>1, <2>5 DEF m
<1> QED
  BY <1>2, <1>3

\* PATCH_JUMP to the end of the code: where two paths meet nothing is known, so
\* what is said of the registers is true with whatever either leaves in them.
THEOREM JoinCorrect ==
  ASSUME NEW R, NEW cg, NEW f, NEW g, Known(cg, R, f, g), NEW at \in Nat,
         NEW x, NEW y, Is(y, R)
  PROVE  Known(PatchJump(cg, at, Here(cg)), R, x, y)
<1> DEFINE t == FollowJumps(cg.code, Here(cg), 16)
           a == SetSlot(cg, at, 2, t)
           b == Mark(a, t)
           c == LvnClear(b)
           n == NumTruncate(c, 0)
<1>1. IsGen(cg) /\ cg.code \in Seq(Instruction) /\ cg.nums \in Seq(Int \X R)
  BY DEF Known, CachesHold
<1>2. t = Len(cg.code)
  <2> DEFINE S == {Len(cg.code)}
  <2>1. \A q \in S : Hop(cg.code, q) \in S
    BY <1>1 DEF Hop, InCode
  <2>2. Here(cg) \in S /\ 16 \in Nat
    BY DEF Here
  <2> HIDE DEF S
  <2>3. t \in S
    BY <2>1, <2>2, FollowStays
  <2> QED
    BY <2>3 DEF S
<1> HIDE DEF t
<1>3. Same(a, cg, {"code"}) /\ a.code \in Seq(Instruction) /\ Len(a.code) = Len(cg.code)
  <2>1. CASE at < Len(cg.code)
    <3> DEFINE s == [cg.code EXCEPT ![at + 1] = [@ EXCEPT ![2] = t]]
    <3>1. a = [cg EXCEPT !.code = s]
      BY <2>1 DEF SetSlot
    <3>2. s \in Seq(Instruction) /\ Len(s) = Len(cg.code)
      <4>1. at + 1 \in 1 .. Len(cg.code) /\ t \in Int
        BY <1>1, <1>2, <2>1
      <4>2. cg.code[at + 1] \in Instruction
        BY <1>1, <4>1
      <4>3. [cg.code[at + 1] EXCEPT ![2] = t] \in Instruction
        BY <4>1, <4>2 DEF Instruction
      <4> QED
        BY <1>1, <4>1, <4>3
    <3> HIDE DEF s
    <3>3. Same([cg EXCEPT !.code = s], cg, {"code"}) /\ [cg EXCEPT !.code = s].code = s
      BY <1>1, PutFields
    <3> QED
      BY <3>1, <3>2, <3>3
  <2>2. CASE ~(at < Len(cg.code))
    <3>1. a = cg
      BY <2>2 DEF SetSlot
    <3> QED
      BY <1>1, <3>1 DEF Same
  <2> QED
    BY <2>1, <2>2
<1> HIDE DEF a
<1>4. IsGen(b) /\ b.code = a.code /\ t \in b.targets /\ b.nums = cg.nums
  <2> DEFINE s == a.targets \cup {t}
  <2>1. IsGen(a) /\ a.nums = cg.nums /\ t \in s
    BY <1>3, SameFields DEF Same
  <2>2. b = [a EXCEPT !.targets = s]
    BY DEF Mark
  <2> HIDE DEF b, s
  <2>3. Same(b, a, {"targets"}) /\ b.targets = s
    BY <2>1, <2>2, PutFields
  <2>4. b.code = a.code /\ b.nums = a.nums
    BY <2>3, SameFields
  <2> QED
    BY <2>1, <2>3, <2>4 DEF Same
<1> HIDE DEF b
<1>5. IsGen(c) /\ c.code = a.code /\ t \in c.targets /\ c.nums = cg.nums /\ c.lvn = {}
  <2>1. c = [b EXCEPT !.lvn = {}]
    BY DEF LvnClear
  <2> HIDE DEF c
  <2>2. Same(c, b, {"lvn"}) /\ c.lvn = {}
    BY <1>4, <2>1, PutFields
  <2>3. c.code = b.code /\ c.nums = b.nums /\ c.targets = b.targets
    BY <2>2, SameFields
  <2> QED
    BY <1>4, <2>2, <2>3 DEF Same
<1> HIDE DEF c
<1>6. IsGen(n) /\ n.code = a.code /\ t \in n.targets /\ n.nums = <<>> /\ n.lvn = {}
  <2>1. CASE 0 >= Len(c.nums)
    <3>1. n = c
      BY <2>1 DEF NumTruncate
    <3>2. c.nums = <<>>
      BY <1>1, <1>5, <2>1
    <3> QED
      BY <1>5, <3>1, <3>2
  <2>2. CASE ~(0 >= Len(c.nums))
    <3> DEFINE x0 == SubSeq(c.nums, 1, 0)
               y0 == 1 + Max({-1} \cup {e[2] : e \in Range(x0)})
    <3>1. n = WithNums(c, x0, y0)
      BY <2>2, Zenon DEF NumTruncate, WithNums
    <3>2. x0 = <<>>
      BY <1>1, <1>5
    <3> HIDE DEF n, x0, y0
    <3>3. Same(n, c, {"nums", "floor"}) /\ n.nums = x0
      BY <1>5, <3>1, PutNums
    <3>4. n.code = c.code /\ n.targets = c.targets /\ n.lvn = c.lvn
      BY <3>3, SameFields
    <3> QED
      BY <1>5, <3>2, <3>3, <3>4 DEF Same
  <2> QED
    BY <2>1, <2>2
<1> HIDE DEF n
<1>7. CachesHold(n, R, y.regs)
  BY <1>6 DEF CachesHold, LvnHolds, NumsHold
<1>8. AtJoin(n)
  BY <1>2, <1>3, <1>6 DEF AtJoin
<1>9. Known(n, R, x, y)
  BY <1>3, <1>6, <1>7, <1>8 DEF Known
<1>10. n = PatchJump(cg, at, Here(cg))
  BY DEF PatchJump, n, c, b, a, t
<1> QED
  BY <1>9, <1>10

\* What Emit leaves of an instruction that fusion cannot make a temporary's
\* move of: its effect.
LEMMA NoMoveEffect ==
  ASSUME NEW cg, NEW i, i[1] # "MOVE", NEW f, NEW g, NEW h, KeepsEffect(cg, i, f, g, h)
  PROVE  h = Effect(i, g)
BY DEF KeepsEffect, Temporary

\* The instruction at the end of the code, when fusion keeps its opcode.
LEMMA EmittedLast ==
  ASSUME NEW cg, IsGen(cg), cg.code \in Seq(Instruction), NEW i \in Instruction,
         WritesDest(i[1]), NEW op, ~(op \in JumpOps),
         FusionAt(cg, i).inst \in Instruction, FusionAt(cg, i).inst[1] = op
  PROVE  Last(Emit(cg, i).code) = FusionAt(cg, i).inst
<1> DEFINE n == Emit(cg, i)
           u == FusionAt(cg, i)
<1> HIDE DEF n, u
<1>1. u = FusionAt(cg, i) /\ n = Emit(cg, i)
  BY DEF n, u
<1>2. PICK j \in Instruction : Emitted(n, cg, i, u, j)
  BY <1>1, EmitForm
<1>3. j = u.inst
  BY <1>1, <1>2 DEF Emitted
<1>4. u.one => cg.code # <<>>
  BY <1>1, OneForFacts DEF FusionAt
<1>5. cg.code # <<>> => Front(cg.code) \in Seq(Instruction)
  BY DEF Front
<1>6. Last(n.code) = j
  BY <1>2, <1>4, <1>5 DEF Emitted, Last
<1> QED
  BY <1>1, <1>3, <1>6

\* opt_lvn_add: what it notes of the instruction that has just been emitted is
\* true, and the instruction may still be fused with the next.
THEOREM NumberCorrect ==
  ASSUME NEW R, R \subseteq Nat, 0 \in R, NEW cg, NEW f, NEW g, Known(cg, R, f, g),
         NEW op, NEW d \in R, NEW l \in R, NEW r \in R \cup {-1}, NEW imm \in Int,
         op \in ArithOps \cup ImmOps, r = -1 <=> op \in ImmOps,
         NEW i, i = <<op, d, l, IF r = -1 THEN imm ELSE r>>,
         ~AtJoin(cg) => ~OnBoolean(Last(cg.code), i, f),
         Emit(cg, i).flaws \cap Unsound = {}
  PROVE  LET n == Emit(cg, i)
             was == Found(cg, i, f, g)
         IN  Known(LvnAdd(n, op, l, r, imm, d), R, was, Effect(Last(n.code), was))
<1> DEFINE n == Emit(cg, i)
           was == Found(cg, i, f, g)
           h == Effect(Last(n.code), was)
           e == [op |-> op, l |-> l, r |-> r, imm |-> imm, res |-> d]
           m == LvnAdd(n, op, l, r, imm, d)
<1>1. /\ i \in Instruction /\ Plain(i) /\ i[1] = op /\ i[2] = d /\ i[3] = l
      /\ i[4] = IF r = -1 THEN imm ELSE r
      /\ i[1] # "MOVE" /\ WritesDest(op) /\ op \in PureOps /\ ~(op \in JumpOps) /\ ~(op \in LoadOps)
  BY DEF Instruction, Opcodes, Plain, ArithOps, ImmOps, ForOps, ReturnOps, WritesDest, PureOps,
         JumpOps, ImmJumps, RegJumps, NoneJumps, LoadOps
<1>2. Fits(i, R)
  BY <1>1, ReadsFacts DEF Fits
<1>3. Known(n, R, was, h) /\ KeepsEffect(cg, i, f, g, h)
  BY <1>1, <1>2, EmitCorrect
<1>4. h = Effect(i, g)
  BY <1>1, <1>3, NoMoveEffect
<1>5. CASE d \in {l, r} \/ Cardinality(n.lvn) >= LvnCap
  BY <1>3, <1>5 DEF LvnAdd
<1>6. CASE ~(d \in {l, r} \/ Cardinality(n.lvn) >= LvnCap)
  <2>1. Same(m, n, {"lvn"}) /\ m.lvn = n.lvn \cup {e}
    <3> DEFINE s == n.lvn \cup {e}
    <3>1. m = [n EXCEPT !.lvn = s]
      BY <1>6 DEF LvnAdd
    <3>2. IsGen(n)
      BY <1>3 DEF Known
    <3> HIDE DEF n, m, s
    <3>3. Same(m, n, {"lvn"}) /\ m.lvn = s
      BY <3>1, <3>2, PutFields
    <3> QED
      BY <3>3 DEF s
  <2>2. IsGen(m) /\ m.code = n.code /\ m.targets = n.targets /\ m.nums = n.nums
    <3> HIDE DEF n, m
    <3> QED
      BY <2>1, SameFields DEF Same
  <2>3. Says(e) = i /\ e \in Entries(R)
    BY DEF Says, Entries
  <2>4. h.regs[d] = ValueOf(Says(e), h.regs)
    <3>1. g.regs \in [R -> Value] /\ Is(g, R)
      BY DEF Known, Is
    <3>2. h.regs = [g.regs EXCEPT ![d] = ValueOf(i, g.regs)]
      BY <1>1, <1>4, <3>1, PureFacts, WriteRegs
    <3> HIDE DEF h, e
    <3>3. e.l = l /\ e.r = r
      BY DEF e
    <3>4. h.regs[d] = ValueOf(i, g.regs) /\ h.regs[l] = g.regs[l] /\ (r # -1 => h.regs[r] = g.regs[r])
      BY <1>6, <3>1, <3>2
    <3>5. ValueOf(Says(e), h.regs) = ValueOf(Says(e), g.regs)
      BY <2>3, <3>3, <3>4, EntryStays
    <3> QED
      BY <2>3, <3>4, <3>5
  <2> HIDE DEF e, h, m
  <2>5. CachesHold(m, R, h.regs)
    <3>1. CachesHold(n, R, h.regs)
      BY <1>3 DEF Known
    <3>2. e.res = d
      BY DEF e
    <3> HIDE DEF n
    <3> QED
      BY <2>1, <2>2, <2>3, <2>4, <3>1, <3>2 DEF CachesHold, LvnHolds
  <2>6. ASSUME ~AtJoin(n) PROVE Fresh(m)
    <3> DEFINE u == FusionAt(cg, i)
    <3>1. u.inst[1] = op /\ u.inst[2] = d
      <4>1. AtJoin(cg) => u = InFront(i)
        BY DEF FusionAt, AtJoin
      <4>2. ~AtJoin(cg) => u = Fusion(cg, Last(cg.code), i)
        BY DEF FusionAt, AtJoin
      <4>3. i[1] \in ArithOps \cup ImmOps /\ i[3] # i[2]
        BY <1>1, <1>6
      <4> HIDE DEF u
      <4> QED
        BY <1>1, <4>1, <4>2, <4>3, ArithKept, OneForFacts
    <3>2. IsGen(cg) /\ cg.code \in Seq(Instruction)
      BY DEF Known
    <3>3. u.inst \in Instruction
      BY <1>1, <1>2, MakesInstruction
    <3>4. Last(n.code)[1] = op /\ Last(n.code)[2] = d
      BY <1>1, <3>1, <3>2, <3>3, EmittedLast
    <3> HIDE DEF n
    <3>5. Fresh(n)
      BY <1>1, <1>3, <2>6, <3>4 DEF Known, Follows
    <3>6. d \notin {e.l, e.r} /\ e.res = d
      BY <1>6 DEF e
    <3> QED
      BY <1>1, <2>1, <2>2, <3>4, <3>5, <3>6 DEF Fresh
  <2> HIDE DEF n, was
  <2>7. Known(m, R, was, h)
    BY <1>3, <2>2, <2>5, <2>6, KnownWith
  <2> QED
    BY <2>7 DEF m, h, n, was
<1> QED
  BY <1>5, <1>6

\* opt_const_cache_add: the same of a number that has just been loaded.
THEOREM ConstantCorrect ==
  ASSUME NEW R, R \subseteq Nat, 0 \in R, NEW cg, NEW f, NEW g, Known(cg, R, f, g),
         NEW d \in R, NEW k \in Int,
         Emit(cg, LoadNumber(d, k)).flaws \cap Unsound = {}
  PROVE  LET n == Emit(cg, LoadNumber(d, k))
             was == Found(cg, LoadNumber(d, k), f, g)
         IN  Known(NumAdd(n, k, d), R, was, Effect(Last(n.code), was))
<1> DEFINE i == LoadNumber(d, k)
           n == Emit(cg, i)
           was == Found(cg, i, f, g)
           h == Effect(Last(n.code), was)
           m == NumAdd(n, k, d)
<1>1. /\ i \in Instruction /\ Plain(i) /\ i[1] \in {"LOAD_NUM_IMM", "LOAD_NUM"} /\ i[2] = d /\ i[3] = k
      /\ i[1] \in LoadOps /\ i[1] \in PureOps /\ WritesDest(i[1]) /\ ~(i[1] \in JumpOps) /\ i[1] # "MOVE"
  <2>1. i \in Instruction /\ i[1] \in {"LOAD_NUM_IMM", "LOAD_NUM"} /\ i[2] = d /\ i[3] = k
    <3>1. i = <<"LOAD_NUM_IMM", d, k, 0>> \/ i = <<"LOAD_NUM", d, k, 0>>
      BY DEF LoadNumber
    <3> HIDE DEF i
    <3> QED
      BY <3>1 DEF Instruction, Opcodes, LoadOps
  <2> HIDE DEF i
  <2> QED
    BY <2>1 DEF Plain, LoadOps, PureOps, WritesDest, JumpOps, ImmJumps, RegJumps, NoneJumps,
                ForOps, ReturnOps
<1>2. Fits(i, R)
  <2> HIDE DEF i
  <2> QED
    BY <1>1, ReadsFacts DEF Fits
<1>3. ~OnBoolean(Last(cg.code), i, f)
  BY <1>1 DEF OnBoolean, Cancel, LoadOps
<1>4. Known(n, R, was, h) /\ KeepsEffect(cg, i, f, g, h)
  BY <1>1, <1>2, <1>3, EmitCorrect
<1>5. h = Effect(i, g)
  BY <1>1, <1>4, NoMoveEffect
<1>6. CASE Len(n.nums) >= NumCap
  BY <1>4, <1>6 DEF NumAdd
<1>7. CASE ~(Len(n.nums) >= NumCap)
  <2> DEFINE s == Append(n.nums, <<k, d>>)
  <2>1. Same(m, n, {"nums", "floor"}) /\ m.nums = s
    <3> DEFINE y == IF n.floor <= d THEN d + 1 ELSE n.floor
    <3>1. m = WithNums(n, s, y)
      BY <1>7 DEF NumAdd, WithNums
    <3>2. IsGen(n)
      BY <1>4 DEF Known
    <3> HIDE DEF n, m, s, y
    <3> QED
      BY <3>1, <3>2, PutNums
  <2>2. IsGen(m) /\ m.code = n.code /\ m.targets = n.targets /\ m.lvn = n.lvn
    <3> HIDE DEF n, m
    <3> QED
      BY <2>1, SameFields DEF Same
  <2>3. h.regs[d] = Num(k)
    <3>1. g.regs \in [R -> Value] /\ Is(g, R)
      BY DEF Known, Is
    <3> HIDE DEF i, h, n
    <3>2. h.regs = [g.regs EXCEPT ![d] = ValueOf(i, g.regs)]
      BY <1>1, <1>5, <3>1, PureFacts, WriteRegs
    <3>3. ValueOf(i, g.regs) = Num(k)
      BY <1>1, ValueFacts
    <3> QED
      BY <3>1, <3>2, <3>3
  <2> HIDE DEF h, m
  <2>4. CachesHold(m, R, h.regs)
    <3>1. CachesHold(n, R, h.regs)
      BY <1>4 DEF Known
    <3> HIDE DEF n
    <3>2. n.nums \in Seq(Int \X R)
      BY <3>1 DEF CachesHold
    <3>3. s \in Seq(Int \X R)
      BY <3>2
    <3>4. NumsHold(s, h.regs)
      <4> SUFFICES ASSUME NEW j \in DOMAIN s PROVE h.regs[s[j][2]] = Num(s[j][1])
        BY DEF NumsHold
      <4>1. s[j] = <<k, d>> \/ (j \in DOMAIN n.nums /\ s[j] = n.nums[j])
        BY <3>2
      <4> HIDE DEF s
      <4>2. CASE s[j] = <<k, d>>
        BY <2>3, <4>2
      <4>3. CASE j \in DOMAIN n.nums /\ s[j] = n.nums[j]
        BY <3>1, <4>3 DEF CachesHold, NumsHold
      <4> QED
        BY <4>1, <4>2, <4>3
    <3> HIDE DEF s
    <3> QED
      BY <2>1, <2>2, <3>1, <3>3, <3>4 DEF CachesHold
  <2>5. ASSUME ~AtJoin(n) PROVE Fresh(m)
    <3> DEFINE u == FusionAt(cg, i)
    <3>1. u.inst = i
      <4>1. AtJoin(cg) => u = InFront(i)
        BY DEF FusionAt, AtJoin
      <4>2. ~AtJoin(cg) => u = Fusion(cg, Last(cg.code), i)
        BY DEF FusionAt, AtJoin
      <4> HIDE DEF u, i
      <4> QED
        BY <1>1, <4>1, <4>2, LoadKept, OneForFacts
    <3>2. IsGen(cg) /\ cg.code \in Seq(Instruction)
      BY DEF Known
    <3> HIDE DEF i
    <3>3. Last(n.code) = i
      BY <1>1, <3>1, <3>2, EmittedLast
    <3> HIDE DEF n, u
    <3>4. Fresh(n)
      BY <1>1, <1>4, <2>5, <3>3 DEF Known, Follows
    <3>5. n.nums \in Seq(Int \X R)
      BY <1>4 DEF Known, CachesHold
    <3>6. \A j \in DOMAIN s : s[j][2] = d => i[1] \in LoadOps
      BY <1>1
    <3> HIDE DEF s
    <3> QED
      BY <1>1, <2>1, <2>2, <3>3, <3>4, <3>6 DEF Fresh
  <2> HIDE DEF n, was, i
  <2>6. Known(m, R, was, h)
    BY <1>4, <2>2, <2>4, <2>5, KnownWith
  <2> QED
    BY <2>6 DEF m, h, n, was, i
<1> QED
  BY <1>6, <1>7
===============================================================================
