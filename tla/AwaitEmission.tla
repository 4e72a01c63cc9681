----------------------------- MODULE AwaitEmission -----------------------------
(***************************************************************************)
(* How the code generator decides whether a builtin call is emitted as     *)
(* asynchronous (compiler/codegen_expr.c): AST_AWAIT sets a flag around    *)
(* the whole of its operand, and codegen_call reads it after it has        *)
(* generated the arguments.                                                *)
(***************************************************************************)
EXTENDS Naturals, Sequences

CONSTANT MaxNodes   \* bound on nested expression nodes

ASSUME NodesAssumption == MaxNodes \in Nat

VARIABLES
  current_call_is_awaited,
  nodes,   \* the expression nodes being generated, innermost last
  code     \* the last call emitted

gen_vars == <<current_call_is_awaited, nodes, code>>

\* An await remembers the flag it found, and whether its operand has been generated.
Node == [kind : {"await"}, saved : BOOLEAN, done : BOOLEAN]
        \cup [kind : {"builtin", "function", "operator"}]

\* direct: the call is the operand of an await; async: it was emitted as
\* OP_ASYNC_CALL_BUILTIN.
Emitted == [builtin : BOOLEAN, direct : BOOLEAN, async : BOOLEAN]

GenTypeOK ==
  /\ current_call_is_awaited \in BOOLEAN
  /\ nodes \in Seq(Node) /\ Len(nodes) <= MaxNodes
  /\ code \in Emitted
  /\ \A i \in DOMAIN nodes : nodes[i].kind = "await" /\ nodes[i].done => i = Len(nodes)

GenInit ==
  /\ current_call_is_awaited = FALSE
  /\ nodes = <<>>
  /\ code = [builtin |-> FALSE, direct |-> FALSE, async |-> FALSE]

Kind(i) == nodes[i].kind
Inside(kind) == nodes # <<>> /\ Kind(Len(nodes)) = kind
Push(node) == Len(nodes) < MaxNodes /\ nodes' = Append(nodes, node)

\* An await still waits for its operand, which the parser has checked is a call.
OperandDue == Inside("await") /\ ~nodes[Len(nodes)].done

\* A further argument, operand or statement may start here.
MayStart == ~Inside("await")

\* AST_AWAIT up to its operand (the bound leaves room for the operand).
OpenAwait ==
  /\ MayStart /\ Len(nodes) + 1 < MaxNodes
  /\ Push([kind |-> "await", saved |-> current_call_is_awaited, done |-> FALSE])
  /\ current_call_is_awaited' = TRUE
  /\ UNCHANGED code

\* Mutant of OpenCall: the flag is taken down for the arguments and never put back.
OpenCallClears(kind) ==
  /\ MayStart \/ OperandDue
  /\ Push([kind |-> kind])
  /\ current_call_is_awaited' = FALSE
  /\ UNCHANGED code

\* codegen_call starts with the arguments.
OpenCall(kind) ==
  /\ MayStart \/ OperandDue
  /\ Push([kind |-> kind])
  /\ UNCHANGED <<current_call_is_awaited, code>>

\* An operator, index, table or other node: it leaves the flag alone.
OpenOther ==
  /\ MayStart
  /\ Push([kind |-> "operator"])
  /\ UNCHANGED <<current_call_is_awaited, code>>
CloseOther ==
  /\ Inside("operator")
  /\ nodes' = SubSeq(nodes, 1, Len(nodes) - 1)
  /\ UNCHANGED <<current_call_is_awaited, code>>

\* codegen_call emits the call; an await around it has its operand.
Emit(kind) ==
  /\ Inside(kind)
  /\ LET rest   == SubSeq(nodes, 1, Len(nodes) - 1)
         direct == rest # <<>> /\ rest[Len(rest)].kind = "await"
     IN  /\ nodes' = IF direct THEN [rest EXCEPT ![Len(rest)].done = TRUE] ELSE rest
         /\ code' = [builtin |-> kind = "builtin", direct |-> direct,
                     async |-> kind = "builtin" /\ current_call_is_awaited]
  /\ UNCHANGED current_call_is_awaited

\* AST_AWAIT after its operand: OP_AWAIT is emitted.
CloseAwait ==
  /\ Inside("await") /\ ~OperandDue
  /\ current_call_is_awaited' = nodes[Len(nodes)].saved
  /\ nodes' = SubSeq(nodes, 1, Len(nodes) - 1)
  /\ UNCHANGED code

GenNext ==
  \/ OpenAwait \/ CloseAwait \/ OpenOther \/ CloseOther
  \/ \E kind \in {"builtin", "function"} : OpenCall(kind) \/ Emit(kind)

-----------------------------------------------------------------------------
(* Properties.                                                              *)

\* A builtin that is the operand of an await is emitted as asynchronous, also when its
\* own arguments contain awaits (saved_flag of AST_AWAIT, read late in codegen_call).
AwaitedIsAsync == code.builtin /\ code.direct => code.async

=============================================================================
