-------------------------------- MODULE Compiler --------------------------------
(***************************************************************************)
(* codegen_generate: the code of a function is generated, then its jumps   *)
(* are threaded, then it is compacted; the code after each step is run on  *)
(* the interpreter of module Bytecode and compared with what the function  *)
(* means (module Meaning).  At last the compact code may be turned into    *)
(* machine code (module Assembly), which is run and compared with it.      *)
(*                                                                         *)
(* gen is the code generator as it was left.                               *)
(***************************************************************************)
EXTENDS Codegen, Assembly, Meaning

CONSTANTS Generator(_, _),   \* parameters and a body to the generator behind them
          Programs,    \* the bodies it may have
          Witnesses,   \* flaw -> a body that flaw alone makes misbehave
          LoopFuel     \* bound on a run of the source: passes through loops

ASSUME CompilerAssumption ==
    /\ LoopFuel \in Nat
    /\ Frames = {Frame(in) : in \in Inputs}
    /\ DOMAIN Witnesses = FlawNames \cup NativeFlawNames \cup GuessNames
    /\ \A in \in Inputs : DOMAIN in = Range(Params)

VARIABLES body, gen
vars == <<body, gen, chunk, native>>

NoGenerator == EmptyGenerator(<<>>)

Init == /\ body \in Programs \cup Range(Witnesses)
        /\ gen = NoGenerator
        /\ code = <<>> /\ entry = 0
        /\ native = NoNative
        /\ stage = "source"

Generate == /\ stage = "source"
            /\ gen' = Generator(Params, body)
            /\ code' = gen'.code
            /\ entry' = 1
            /\ stage' = "generated"
            /\ UNCHANGED <<body, native>>

Optimize == /\ Thread \/ Shrink
            /\ UNCHANGED <<body, gen, native>>

Translate == Assemble /\ UNCHANGED <<body, gen>>

Next == Generate \/ Optimize \/ Translate
Spec == Init /\ [][Next]_vars
-------------------------------------------------------------------------------
Meant(in) == Result(body, [x \in BodyNames(body) \cup Range(Params) |->
                                IF x \in Range(Params) THEN in[x] ELSE None], LoopFuel)
Fits(o, m) == m.defined => o = m.seen
AgreesOn(in) == Fits(Ran(in), Meant(in))
Misbehaves == \E in \in Inputs : ~AgreesOn(in)

\* The bound on machine operations keeps no run from being compared.
InTime(in) == LET m == NativeOn(in)
              IN  m.end = "" => m.guessed \/ Ran(in).end # "returned"

\* The generator's registers keep to the frame and its pcs to the function.
\* Every jump goes to an instruction of it, and only the one over it to its
\* end: none still holds the placeholder 0 once compiled, unless a jump fused
\* away before it was patched or the last branch has no return.
TypeOK == /\ stage \in {"source", "generated", "threaded", "compact", "native"}
          /\ gen.flaws \subseteq FlawNames /\ native.flaws \subseteq NativeFlawNames
          /\ gen.next \in 0 .. FrameSize /\ gen.floor \in 0 .. FrameSize
          /\ code \in Chunk /\ entry \in 0 .. Len(code)
          /\ stage # "source" /\ gen.flaws \cap {"jumpIntoNop", "fallsOffEnd"} = {} =>
                \A at \in 2 .. Len(code) : \A s \in PcSlots(code[at]) : code[at][s] \in 1 .. (Len(code) - 1)
          /\ stage = "native" => Usual /\ (Sound => \A in \in NativeInputs : InTime(in))

\* Code in which no flaw happened does, for every input, what the source
\* means: the same calls in the same order and the same result, whatever the
\* registers held before.  This is what fusion, value numbering, the number
\* cache, dead stores, copy propagation, register sharing and the jumps of
\* codegen_if.c and codegen_for.c must add up to.
CodeMeansTheSource == stage = "generated" /\ gen.flaws = {} => ~Misbehaves

\* Each flaw is a defect of the code the compiler emits and not a caution of
\* this model: a function in which it alone happens returns something else or
\* calls with something else than its source says, or, of the flaws of machine
\* code, than the interpreter does.  The guesses are no flaws of the emission:
\* an operand that is none is taken for a number, or a result for none.
Differs == \E in \in NativeInputs : Observed(NativeOn(in)) # Ran(in)
EveryFlawBites ==
    \A f \in DOMAIN Witnesses : Witnesses[f] = body =>
        /\ stage = "generated" /\ f \in FlawNames => gen.flaws = {f} /\ Misbehaves
        /\ stage = "native" /\ f \notin FlawNames =>
              native.flaws = {f} \ GuessNames /\ native.unset = {} /\ Differs
===============================================================================
