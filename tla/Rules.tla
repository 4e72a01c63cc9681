--------------------------------- MODULE Rules ---------------------------------
(***************************************************************************)
(* The rules of the language that are not its grammar, by recursion over   *)
(* the syntax tree: what resources/EC_fDevelopers.md asks of a program, as *)
(* the names of the rules that a tree breaks.                              *)
(*                                                                         *)
(* An environment is a record: names (the bindings in force), own (the     *)
(* names bound in this block), fun, async, loop (is this in a function, an *)
(* async one, a loop of this function), around (in a loop of a function    *)
(* around it), files, known (the files imported before).  A binding has    *)
(* kind, params, async and seen: whether its declaration came before.      *)
(***************************************************************************)
EXTENDS Grammar

Binding(kind, params, async, seen) == [kind |-> kind, params |-> params, async |-> async, seen |-> seen]

Bind(env, x, b) == [env EXCEPT !.names = x :> b @@ @, !.own = @ \cup {x}]
Variable(env, x) == Bind(env, <<x>>, Binding("variable", 0, FALSE, TRUE))
Bound(env, x, kinds) == x \in DOMAIN env.names /\ env.names[x].kind \in kinds
If_(c, rule) == IF c THEN {rule} ELSE {}

-----------------------------------------------------------------------------
(* Expressions. *)

Imported(env, e) == Bound(env, <<Root(e)[2]>>, {"module"})

\* The type of a value, where its expression shows it.
RECURSIVE TypeOf(_)
TypeOf(e) ==
    CASE e = Nothing     -> "any"
      [] e[1] \in {"number", "string", "boolean", "none", "table"} -> e[1]
      [] e[1] = "interp" -> "string"
      [] e[1] = "neg"    -> "number"
      [] e[1] = "bin"    -> IF e[2] \in Arithmetic THEN "number" ELSE "boolean"
      [] e[1] = "assign" -> TypeOf(e[3])
      [] OTHER -> "any"

\* The operands that no operator takes.
OperandBreaks(e) ==
    LET ts == IF e[1] = "neg" THEN {TypeOf(e[2])} ELSE {TypeOf(e[3]), TypeOf(e[4])}
        equality == e[1] = "bin" /\ e[2] \in {"==", "!="}
        wrong == \/ e[1] = "bin" /\ e[2] = "+" /\ "string" \in ts
                 \/ "any" \notin ts /\ ~(IF equality THEN Cardinality(ts) = 1 \/ "none" \in ts
                                         ELSE ts = {"number"})
    IN  If_((e[1] = "neg" \/ e[2] \notin {"and", "or"}) /\ wrong, "operand")

RECURSIVE Breaks(_, _)

\* a[i] of two names is not told from a.i.
OfNames(e) == e[2][1] = "name" /\ e[3][1] = "name"

\* The subexpressions that are looked up: not the members of a module.
Subs(e) ==
    CASE e = Nothing -> {}
      [] e[1] \in {"neg", "await"} -> {e[2]}
      [] e[1] = "bin"    -> {e[3], e[4]}
      [] e[1] = "tern"   -> {e[2], e[3], e[4]}
      [] e[1] = "call"   -> {e[2]} \cup {e[3][i] : i \in DOMAIN e[3]}
      [] e[1] = "index"  -> IF OfModule(e) THEN {} ELSE IF OfNames(e) THEN {e[3]} ELSE {e[2], e[3]}
      [] e[1] = "table"  -> {e[2][i] : i \in DOMAIN e[2]} \cup {e[3][i][2] : i \in DOMAIN e[3]}
      [] e[1] = "interp" -> {e[2][i] : i \in DOMAIN e[2]}
      [] e[1] = "assign" -> {e[3]} \cup IF e[2][1] = "index" THEN {e[2]} ELSE {}
      [] OTHER -> {}

\* A call: of a builtin, of a function, of what another expression gives.
CallBreaks(env, e) ==
    LET name == CallName(e[2])
    IN  CASE name \in DOMAIN Builtins ->
               If_(Len(e[3]) \notin Builtins[name].min .. Builtins[name].max, "arity")
          [] Bound(env, name, {"function"}) -> If_(env.names[name].params # Len(e[3]), "arity")
          [] Bound(env, name, {"variable", "constant", "module"}) -> {"notFunction"}
          [] name # NoName /\ e[2][1] = "index" /\ OfModule(e[2]) ->
               {IF Root(e[2])[2] \in KnownModules THEN "unknownBuiltin" ELSE "noMember"}
          [] OTHER -> {}

\* The function awaited must be async. One declared further down, or known from another
\* import of its file, is refused all the same.
AwaitBreaks(env, e) ==
    LET name == IF e[2][1] = "call" THEN CallName(e[2][2]) ELSE NoName
        function == Bound(env, name, {"function"})
    IN  If_(env.fun /\ ~env.async, "await")
          \cup If_(name \notin DOMAIN Builtins /\ ~(function /\ env.names[name].async), "awaited")
          \cup If_(function /\ env.names[name].async /\ ~env.names[name].seen, "awaitAhead")

Unknown(env, e) ==
    <<e[2]>> \notin DOMAIN env.names \cup DOMAIN Builtins /\ e[2] \notin KnownModules

\* What an expression breaks itself.
OwnBreaks(env, e) ==
    CASE e = Nothing -> {"missing"}
      [] e[1] = "name" -> If_(Unknown(env, e), "undefined")
             \cup If_(Bound(env, <<e[2]>>, {"constant"}) /\ ~env.names[<<e[2]>>].seen, "early")
      [] e[1] = "neg"  -> OperandBreaks(e)
      [] e[1] = "bin"  -> If_(e[2] \in {"and", "or"} /\ ~(IsExplicit(e[3]) /\ IsExplicit(e[4])), "logical")
                            \cup OperandBreaks(e)
      [] e[1] = "tern" -> If_(~IsExplicit(e[2]), "condition")
      [] e[1] = "call" -> CallBreaks(env, e)
                            \cup If_(Len(e[3]) = 0 /\ Chain(e) >= MaxChainDepth, "chain")
      [] e[1] = "index" /\ OfModule(e) ->
           IF ~Imported(env, e) THEN {"notImported"}
           ELSE If_(CallName(e) \notin DOMAIN env.names \cup DOMAIN Builtins, "noMember")
      [] e[1] = "index" /\ ~OfModule(e) -> If_(TypeOf(e[2]) \notin {"any", "table"}, "notTable")
                                              \cup If_(OfNames(e) /\ Unknown(env, e[2]), "undefinedObject")
      [] e[1] = "assign" ->
           If_(Root(e[2])[1] = "name" /\ Bound(env, <<Root(e[2])[2]>>, {"constant"}), "constant")
             \cup If_(Bound(env, CallName(e[2]), {"constant"}) /\ e[2][1] = "index", "theirConstant")
             \cup If_(e[2][1] = "name" /\ <<e[2][2]>> \notin DOMAIN env.names, "undefinedTarget")
      [] e[1] = "await" -> AwaitBreaks(env, e)
      [] OTHER -> {}

Unlooked == {"logical", "await", "awaited", "awaitAhead"}

Breaks(env, e) ==
    LET all == OwnBreaks(env, e) \cup UNION {Breaks(env, s) : s \in Subs(e)}
    IN  IF e # Nothing /\ e[1] = "interp" /\ all \cap Unlooked # {} THEN (all \ Unlooked) \cup {"inString"} ELSE all

\* A whole expression, with its limit.
Judged(env, e) == Breaks(env, e) \cup If_(1 + Nest(e) > MaxExprDepth, "deep")
Condition(env, e) == Judged(env, e) \cup If_(~IsExplicit(e), "condition")

-----------------------------------------------------------------------------
(* Statements. Judge gives the environment after one and what it breaks.   *)

J(env, rules) == [env |-> env, f |-> rules]

RECURSIVE Judge(_, _), JudgeBlock(_, _)

Leaves(s) == s[1] \in {"break", "continue", "return"}
Inner(env) == [env EXCEPT !.own = {}]

\* The statements of a block, in the environment it is given: [env, f].
JudgeAll(env, b) ==
    FoldLeft(LAMBDA j, s : LET k == Judge(j.env, s) IN J(k.env, j.f \cup k.f), J(env, {}), b)
JudgeBlock(env, b) ==
    JudgeAll(env, b).f \cup If_(\E i \in 1 .. Len(b) - 1 : Leaves(b[i]), "unreachable")
Scoped(env, b) == JudgeBlock(Inner(env), b)

\* The functions and constants of a program are known from its beginning.
Hoist(env, tree) ==
    FoldLeft(LAMBDA e, s :
                CASE s[1] \notin {"function", "constant"} \/ <<s[2]>> \in e.own -> e
                  [] s[1] = "function" -> Bind(e, <<s[2]>>, Binding("function", Len(s[3]), s[5], FALSE))
                  [] s[1] = "constant" -> Bind(e, <<s[2]>>, Binding("constant", 0, FALSE, FALSE)),
             env, tree)

Outermost(files, known) == [names |-> <<>>, own |-> {}, fun |-> FALSE, async |-> FALSE,
                            loop |-> FALSE, around |-> FALSE, files |-> files, known |-> known]
JudgeProgram(env, tree) == JudgeAll(Hoist(env, tree), tree)

\* An import of a file binds what the file does, under the name of the module.
ImportFile(env, name, path) ==
    LET m == env.files[path]
        again == m.file \in env.known
        j == JudgeProgram(Outermost(env.files, env.known \cup {m.file}), m.tree)
        Put(e, x) == IF name \o x \in DOMAIN e.names THEN e
                     ELSE Bind(e, name \o x, [j.env.names[x] EXCEPT !.seen = ~again /\ Len(x) = 1])
        prefixes == [k \in DOMAIN name |-> SubSeq(name, 1, k)]
        module == FoldLeft(LAMBDA e, x : Bind(e, x, Binding("module", 0, FALSE, TRUE)), env, prefixes)
    IN  IF path \notin DOMAIN env.files THEN J(env, {"notFound"})
        ELSE J([FoldLeft(Put, module, SetToSeq(DOMAIN j.env.names)) EXCEPT !.known = j.env.known],
               IF again THEN {} ELSE j.f)

Function(env, s) ==
    LET x == <<s[2]>>
        old == IF x \in env.own THEN {env.names[x]} ELSE {}
        e == Bind(env, x, Binding("function", Len(s[3]), s[5], TRUE))
        inside == [Inner(e) EXCEPT !.fun = TRUE, !.async = s[5], !.loop = FALSE,
                                   !.around = env.loop \/ env.around]
        named == FoldLeft(LAMBDA g, y : Variable(g, y), inside, s[3])
    IN  J(e, JudgeBlock(named, s[4])
               \cup If_(\E b \in old : b.kind = "function" /\ b.seen, "duplicate")
               \cup If_(\E b \in old : b.kind # "function", "again"))

Loop(env, s) ==
    LET h == s[2]
        b == [Inner(env) EXCEPT !.loop = TRUE]
        Each(x, rules) == rules \cup JudgeBlock(Variable(b, x), s[3])
    IN  CASE h[1] = "while" -> Condition(env, h[2]) \cup JudgeBlock(b, s[3])
                                 \cup If_(Bare(h[2])[1][2][1] # "name", "forHead")
          [] h[1] = "each"  -> Each(h[2], Judged(env, h[3]))
          [] h[1] = "count" -> Each(h[2], Judged(env, h[3]) \cup Judged(env, h[4])
                                   \cup (IF h[5] = Nothing THEN {} ELSE Judged(env, h[5]))
                                   \cup If_(h[5] \in {<<"number", 0>>, <<"neg", <<"number", 0>>>>},
                                            "stepZero"))

IsLiteral(e) == e[1] \in {"number", "string", "boolean", "none"} \/ (e[1] = "neg" /\ e[2][1] = "number")

Judge(env, s) ==
    LET kind == IF <<s[2]>> \in DOMAIN env.names THEN env.names[<<s[2]>>].kind ELSE "none"
        seen == <<s[2]>> \in env.own /\ (kind # "constant" \/ env.names[<<s[2]>>].seen)
        All(T(_), is) == UNION {T(is[i]) : i \in DOMAIN is}
        Case(c) == Judged(env, c[1]) \cup If_(~IsLiteral(c[1]), "pattern") \cup Scoped(env, c[2])
    IN CASE s[1] = "let" -> J(IF kind = "none" THEN Variable(env, s[2]) ELSE env,
                               Judged(env, s[3]) \cup If_(kind = "constant", "constant")
                                   \cup If_(kind \in {"function", "module"}, "notVariable"))
         [] s[1] = "constant" -> J(Bind(env, <<s[2]>>, Binding("constant", 0, FALSE, TRUE)),
                                    Judged(env, s[3]) \cup If_(seen, "again"))
         [] s[1] = "expr"   -> J(env, Judged(env, s[2]) \cup If_(~HasEffect(s[2]), "noEffect"))
         [] s[1] = "return" -> J(env, Judged(env, s[2]) \cup If_(~env.fun, "return"))
         [] s[1] \in {"break", "continue"} ->
              J(env, If_(~env.loop, IF env.around THEN "loopOutside" ELSE "loop"))
         [] s[1] = "block"  -> LET j == JudgeAll(env, s[2]) IN J(j.env, j.f \cup {"loneElse"})
         [] s[1] = "function" -> Function(env, s)
         [] s[1] = "if"     -> J(env, Condition(env, s[2]) \cup Scoped(env, s[3])
                                  \cup All(LAMBDA c : Condition(env, c[1]) \cup Scoped(env, c[2]), s[4])
                                  \cup All(LAMBDA b : Scoped(env, b), s[5]))
         [] s[1] = "match"  -> J(env, Judged(env, s[2]) \cup All(Case, s[3])
                                         \cup All(LAMBDA b : Scoped(env, b), s[4]))
         [] s[1] = "for"    -> J(env, Loop(env, s))
         [] s[1] = "import" -> IF Len(s) = 3 THEN ImportFile(env, s[2], s[3])
                               ELSE J(Bind(env, s[2], Binding("module", 0, FALSE, TRUE)), {})

\* The rules a program breaks.
Broken(tree, files, main) ==
    JudgeProgram(Outermost(files, {main}), tree).f
      \cup If_(\E x \in Range(Render(tree)) : Blank(x) /\ x[2] > 4 * MaxNesting, "nesting")
=============================================================================
