--------------------------------- MODULE Names ---------------------------------
(***************************************************************************)
(* What the parser knows of names, and the types it infers from that       *)
(* (core/parser.c, the symbol table and the infer_ functions).             *)
(*                                                                         *)
(* Expressions:                                                            *)
(*   <<"number", k>> <<"string", v>> <<"none">> <<"boolean", b>>           *)
(*   <<"name", x>>   <<"neg", e>> <<"await", e>>  <<"bin", op, l, r>>      *)
(*   <<"call", f, args>>  <<"index", e, i>>  <<"table", items, pairs>>     *)
(*   <<"interp", es>>     <<"tern", c, a, b>>  <<"assign", target, e>>     *)
(* m.x is <<"index", <<"name", "m">>, <<"name", "x">>>>, as m[x] is. The   *)
(* name of a symbol is the sequence of its segments: <<"m", "x">> for m.x. *)
(*                                                                         *)
(* Of a parser p this module uses the fields                               *)
(*   syms    the symbol table: records [name, scope, kind, type, params,   *)
(*           known, const, async, at]; known holds the value of a known    *)
(*           number, at is the token that declared the name                *)
(*   scope   current_scope                                                 *)
(*   checks  semantic_checks                                               *)
(* Positions of errors are left out: an error is known by its name only.   *)
(***************************************************************************)
EXTENDS Integers, Sequences, FiniteSets, SequencesExt

CONSTANTS Builtins    \* the table BUILTINS: name -> [min, max, arg]

Nothing == <<>>       \* NULL, where a node is expected

KnownModules == {"os", "sys", "string", "math", "table", "random", "regex", "csv", "crypto",
                 "json", "xml", "base", "zip", "datetime", "ui"}

-----------------------------------------------------------------------------
(* The symbol table. *)

\* Mutant of Find: the outermost declaration is found.
FindOutermost(p, x) ==
    LET is == {i \in DOMAIN p.syms : p.syms[i].name = x /\ p.syms[i].scope <= p.scope}
    IN  IF is = {} THEN 0 ELSE CHOOSE i \in is : \A j \in is : p.syms[i].scope <= p.syms[j].scope

\* symbol_index_recursive; 0 for a name that is not visible.
Find(p, x) ==
    LET is == {i \in DOMAIN p.syms : p.syms[i].name = x /\ p.syms[i].scope <= p.scope}
    IN  IF is = {} THEN 0 ELSE CHOOSE i \in is : \A j \in is : p.syms[j].scope <= p.syms[i].scope

\* symbol_index_in_scope.
FindIn(p, x, scope) ==
    LET is == {i \in DOMAIN p.syms : p.syms[i].name = x /\ p.syms[i].scope = scope}
    IN  IF is = {} THEN 0 ELSE CHOOSE i \in is : TRUE

\* parser_declare_symbol: a second declaration in one scope changes nothing.
DeclareAt(p, x, kind, type, params, at) ==
    IF FindIn(p, x, p.scope) # 0 THEN p
    ELSE [p EXCEPT !.syms = Append(@, [name |-> x, scope |-> p.scope, kind |-> kind, type |-> type,
                                       params |-> params, known |-> {}, const |-> kind = "constant",
                                       async |-> FALSE, at |-> at])]

IsKind(p, i, kinds) == i # 0 /\ p.syms[i].kind \in kinds
IsConstant(p, x) == Find(p, x) # 0 /\ p.syms[Find(p, x)].const
SetKnown(p, i, e) == [p EXCEPT !.syms[i].known = IF e[1] = "number" THEN {e[2]} ELSE {}]

EnterScope(p) == [p EXCEPT !.scope = @ + 1]

\* Mutant of ExitScope: the names of the scope stay in the table.
ExitScopeKeepsNames(p) == [p EXCEPT !.scope = @ - 1]

\* parser_exit_scope.
ExitScope(p) ==
    [p EXCEPT !.syms = SelectSeq(@, LAMBDA s : s.scope # p.scope), !.scope = @ - 1]

-----------------------------------------------------------------------------
(* Expressions. *)

NoName == <<>>

\* resolve_call_name: the dotted name, if there is one.
RECURSIVE CallName(_)
CallName(e) ==
    CASE e[1] = "name" -> <<e[2]>>
      [] e[1] = "index" /\ e[3] # Nothing /\ e[3][1] = "name" ->
           LET root == CallName(e[2]) IN IF root = NoName THEN NoName ELSE Append(root, e[3][2])
      [] OTHER -> NoName

RECURSIVE Root(_)
Root(e) == IF e[1] = "index" THEN Root(e[2]) ELSE e

Dotted(e) == e[1] = "index"

\* check_builtin_module_imported.
Unimported(p, x) == x \in KnownModules /\ Find(p, <<x>>) = 0

Comparisons == {"==", "!=", "<", ">", "<=", ">="}
Arithmetic == {"+", "-", "*", "/", "%"}

\* is_explicit_condition.
RECURSIVE IsExplicit(_)
IsExplicit(e) ==
    /\ e # Nothing /\ e[1] = "bin"
    /\ e[2] \in Comparisons \/ (e[2] \in {"and", "or"} /\ IsExplicit(e[3]) /\ IsExplicit(e[4]))

\* expr_has_side_effect.
RECURSIVE HasEffect(_)
HasEffect(e) ==
    CASE e = Nothing -> FALSE
      [] e[1] \in {"call", "assign", "await"} -> TRUE
      [] e[1] = "bin" -> HasEffect(e[3]) \/ HasEffect(e[4])
      [] e[1] = "neg" -> HasEffect(e[2])
      [] e[1] = "index" -> HasEffect(e[2]) \/ HasEffect(e[3])
      [] e[1] = "interp" -> \E i \in DOMAIN e[2] : HasEffect(e[2][i])
      [] e[1] = "table" -> \/ \E i \in DOMAIN e[2] : HasEffect(e[2][i])
                           \/ \E i \in DOMAIN e[3] : HasEffect(e[3][i][1]) \/ HasEffect(e[3][i][2])
      [] OTHER -> FALSE

\* evaluate_numeric_constant: the value, if it is known. Quotients are left out.
RECURSIVE NumericConstant(_, _)
NumericConstant(p, e) ==
    CASE e[1] = "number" -> {e[2]}
      [] e[1] = "name" -> LET i == Find(p, <<e[2]>>) IN IF i = 0 THEN {} ELSE p.syms[i].known
      [] e[1] = "neg" -> {-v : v \in NumericConstant(p, e[2])}
      [] e[1] = "bin" /\ e[2] \in {"+", "-", "*"} ->
           {CASE e[2] = "+" -> v + w [] e[2] = "-" -> v - w [] e[2] = "*" -> v * w :
              v \in NumericConstant(p, e[3]), w \in NumericConstant(p, e[4])}
      [] OTHER -> {}

-----------------------------------------------------------------------------
(* Types. Infer gives the type of an expression and the errors on the way. *)

Typed(t, errs) == [t |-> t, errs |-> errs]
Loose == {"any", "unknown"}

\* infer_binary_type, from the types of the operands.
BinaryType(op, l, r) ==
    LET ts == {l, r}
        Need(ok, t, name) == IF ok THEN Typed(t, {}) ELSE Typed("error", {name})
    IN  CASE "error" \in ts -> Typed("any", {})
          [] op = "+" /\ "string" \in ts -> Typed("error", {"operand"})
          [] "any" \in ts -> Typed(IF op \in Arithmetic THEN "number" ELSE "boolean", {})
          [] "unknown" \in ts -> Typed("unknown", {})
          [] op \in Arithmetic -> Need(ts = {"number"}, "number", "operand")
          [] op \in {"==", "!="} -> Need(\/ "none" \in ts
                                         \/ l = r /\ l \in {"number", "string", "boolean", "table"},
                                         "boolean", "comparison")
          [] op \in Comparisons -> Need(ts = {"number"}, "boolean", "comparison")
          [] OTHER -> Need(ts = {"boolean"}, "boolean", "logical")

NegType(t) ==
    CASE t \in {"any", "number"} -> Typed("number", {})
      [] t = "unknown" -> Typed("unknown", {})
      [] OTHER -> Typed("error", {"operand"})

RECURSIVE Infer(_, _), CheckCondition(_, _)

ErrorsOf(p, es) == UNION {Infer(p, es[i]).errs : i \in DOMAIN es}

\* The call of a builtin: its argument count, and the type of its first argument.
BuiltinErrors(p, b, args) ==
    LET first == IF args = <<>> THEN Typed(b.arg, {}) ELSE Infer(p, args[1])
    IN  (IF Len(args) \in b.min .. b.max THEN {} ELSE {"arity"})
          \cup (IF args = <<>> \/ b.arg = "any" THEN {}
                ELSE first.errs \cup IF first.t \in Loose \cup {b.arg} THEN {} ELSE {"argument"})

\* infer_call_type.
InferCall(p, e) ==
    LET callee == Infer(p, e[2])
        name == CallName(e[2])
        root == Root(e[2])[2]
        ofModule == Dotted(e[2]) /\ root \in KnownModules
        sym == Find(p, name)
        AnyWith(errs) == Typed("any", callee.errs \cup errs)
    IN  CASE callee.t = "error" -> AnyWith({})
          [] name \in {<<"number">>, <<"string">>, <<"type">>} ->
               Typed(IF name = <<"number">> THEN "number" ELSE "string", callee.errs)
          [] callee.t \notin Loose \cup {"function"} -> AnyWith({"notFunction"})
          [] name # NoName /\ ofModule /\ Unimported(p, root) -> AnyWith({"notImported"})
          [] name \in DOMAIN Builtins -> AnyWith(BuiltinErrors(p, Builtins[name], e[3]))
          [] name # NoName /\ ofModule -> AnyWith({"unknownBuiltin"})
          [] name # NoName /\ IsKind(p, sym, {"function"}) ->
               AnyWith(IF p.syms[sym].params = Len(e[3]) THEN {} ELSE {"arity"})
          [] name # NoName /\ sym # 0 -> AnyWith({"notFunction"})
          [] OTHER -> Typed("unknown", callee.errs \cup ErrorsOf(p, e[3]))

\* infer_index_access_type, after the test for a name the symbol table knows. An index
\* that is missing is used.
InferIndex(p, e) ==
    LET object == Infer(p, e[2])
        resolved == CallName(e)
    IN  CASE e[3] = Nothing -> Typed("any", {"crash"})
          [] resolved # NoName /\ Find(p, resolved) # 0 -> Typed(p.syms[Find(p, resolved)].type, {})
          [] resolved \in DOMAIN Builtins -> Typed("function", {})
          [] e[2][1] = "name" /\ e[3][1] = "name" ->
               Typed("any", IF Unimported(p, e[2][2]) THEN {"notImported"} ELSE {})
          [] object.t = "error" -> Typed("any", object.errs)
          [] object.t \notin Loose \cup {"table"} -> Typed("any", object.errs \cup {"notTable"})
          [] OTHER -> Typed("unknown", object.errs \cup Infer(p, e[3]).errs)

\* infer_expression_type.
Infer(p, e) ==
    CASE e = Nothing -> Typed("unknown", {})
      [] e[1] \in {"number", "string", "none", "boolean"} -> Typed(e[1], {})
      [] e[1] = "assign" -> Infer(p, e[3])
      [] e[1] = "name" ->
           CASE Find(p, <<e[2]>>) # 0 -> Typed(p.syms[Find(p, <<e[2]>>)].type, {})
             [] <<e[2]>> \in DOMAIN Builtins -> Typed("function", {})
             [] e[2] \in KnownModules -> Typed("unknown", {})
             [] OTHER -> Typed("error", {"undefined"})
      [] e[1] = "bin" -> LET l == Infer(p, e[3])  r == Infer(p, e[4])
                             b == BinaryType(e[2], l.t, r.t)
                         IN  Typed(b.t, l.errs \cup r.errs \cup b.errs)
      [] e[1] = "neg" -> LET o == Infer(p, e[2]) IN [NegType(o.t) EXCEPT !.errs = @ \cup o.errs]
      [] e[1] = "call" -> InferCall(p, e)
      [] e[1] = "index" -> InferIndex(p, e)
      [] e[1] = "table" -> Typed("table", ErrorsOf(p, e[2])
                                            \cup ErrorsOf(p, [i \in DOMAIN e[3] |-> e[3][i][2]]))
      [] e[1] = "interp" -> Typed("string", ErrorsOf(p, e[2]))
      [] e[1] = "tern" -> LET a == Infer(p, e[3])  b == Infer(p, e[4])
                              t == IF a.t = b.t THEN a.t
                                   ELSE IF "any" \in {a.t, b.t} THEN "any" ELSE "unknown"
                          IN  Typed(t, a.errs \cup b.errs \cup CheckCondition(p, e[2]))
      [] e[1] = "await" -> Typed("any", Infer(p, e[2]).errs)

\* parser_check_condition.
CheckCondition(p, c) ==
    IF ~p.checks \/ c = Nothing \/ (c[1] = "bin" /\ c[2] \in {"and", "or"}) \/ IsExplicit(c) THEN {}
    ELSE Infer(p, c).errs \cup {"condition"}

\* parser_check_number_expr.
CheckNumber(p, e) ==
    LET i == Infer(p, e)
    IN  IF ~p.checks \/ e = Nothing THEN {}
        ELSE i.errs \cup IF i.t \in Loose \cup {"number"} THEN {} ELSE {"notNumber"}
=============================================================================
