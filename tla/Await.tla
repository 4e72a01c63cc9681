--------------------------------- MODULE Await ---------------------------------
(***************************************************************************)
(* The two halves of the compiler's treatment of `await`, in their order:  *)
(* the parser judges the whole program first (AwaitSyntax), and the code   *)
(* generator then walks the tree (AwaitEmission).                          *)
(***************************************************************************)
EXTENDS AwaitSyntax, AwaitEmission

await_vars == <<vars, gen_vars>>

AwaitTypeOK == TypeOK /\ GenTypeOK

AwaitInit == Init /\ GenInit

\* The parser runs until every declaration is closed.
Parse == GenInit /\ Next /\ UNCHANGED gen_vars

\* The code generator starts when the parser is done, and never goes back to it.
Generate == open = <<>> /\ GenNext /\ UNCHANGED vars

AwaitSpec == AwaitInit /\ [][Parse \/ Generate]_await_vars
=============================================================================
