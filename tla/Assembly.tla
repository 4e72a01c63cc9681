-------------------------------- MODULE Assembly --------------------------------
(***************************************************************************)
(* What becomes of a chunk once it is compact: jit_analyze may turn it     *)
(* into machine code, which is then called in place of the interpreter.    *)
(*                                                                         *)
(* native is the machine code.                                             *)
(***************************************************************************)
EXTENDS ChunkPasses, NativeCode

CONSTANTS Params,      \* the parameters of the function compiled
          Inputs,      \* the arguments it is called with: functions Params -> values
          OpFuel       \* bound on a run: machine operations, in tens

IsValue(v) == \/ v \in {None, Bool(TRUE), Bool(FALSE)}
              \/ IsNum(v) /\ v = Num(v[2]) /\ v[2] \in Int

\* CALL_1 and CALL_2 pass no more arguments.
ASSUME AssemblyAssumption ==
    /\ OpFuel \in Nat
    /\ Params = [k \in 1 .. Len(Params) |-> Params[k]] /\ Len(Params) \in 0 .. 2
    /\ FrameSize >= 2
    /\ \A in \in Inputs : \A x \in Range(Params) : IsValue(in[x])

VARIABLE native

NoNative == [ops |-> <<>>, label |-> <<>>, kind |-> "none", flaws |-> {}, unset |-> {}]

Assemble == /\ stage = "compact"
            /\ Compiled(code)
            /\ native' = NativeOf(code, Len(Params))
            /\ stage' = "native"
            /\ UNCHANGED <<code, entry>>

Passes == (Thread \/ Shrink) /\ UNCHANGED native

\* From any code the generator may hand over.
AssemblySpec == /\ PassesInit /\ native = NoNative
                /\ [][Passes \/ Assemble]_<<chunk, native>>
-------------------------------------------------------------------------------
\* The parameters are in the first registers, the others of the frame hold what
\* an earlier call left there.
Left == Num(777)
Frame(in) == [r \in Slots |-> IF r < Len(Params) THEN in[Params[r + 1]] ELSE Left]

Ran(in) == Run(code, entry, Frame(in), StepFuel)

\* The interpreter hands a call to machine code when every argument is a
\* number (vm.c, the calls).
ArgsOf(in) == [k \in 1 .. Len(Params) |-> in[Params[k]]]
NativeInputs == {in \in Inputs : \A x \in Range(Params) : IsNum(in[x])}
NativeOn(in) == NativeRun(native, ArgsOf(in), OpFuel)

\* Code the emitter is given and can deal with (NativeAnalysis).
Usual == entry = 1 /\ Regular(code)
Sound == native.flaws = {} /\ native.unset = {}

SameAsInterpreted(in) ==
    LET m == NativeOn(in)
    IN  m.end # "" => SameAs(m, Ran(in))

\* Machine code does what the interpreter does with the code it was made of:
\* the same calls and the same result.  This is what the register cache, its
\* write-backs at labels and calls, the snapshots, dead stores and fused
\* comparisons of the emitter must add up to.
NativeAgrees == stage = "native" /\ Usual /\ Sound => \A in \in NativeInputs : SameAsInterpreted(in)
===============================================================================
