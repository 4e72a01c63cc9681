-------------------------------- MODULE Parser --------------------------------
(***************************************************************************)
(* Statements, blocks, imports and whole programs (core/parser.c).         *)
(*                                                                         *)
(* Statements; a block is a sequence of them:                              *)
(*   <<"let", x, e>>  <<"constant", x, e>>  <<"expr", e>>  <<"return", e>> *)
(*   <<"break">>  <<"continue">>  <<"block", b>>  <<"import", name>>       *)
(*   <<"function", f, params, b, async>>   <<"module", name, b>>           *)
(*   <<"if", c, b, elifs, else>>    elifs: pairs of a condition and a      *)
(*   <<"match", e, cases, default>> block; else, default: at most a block  *)
(*   <<"for", head, b>>  head is <<"while", c>>, <<"each", x, e>> or       *)
(*                       <<"count", x, start, end, step>>                  *)
(*                                                                         *)
(* More fields of a parser:                                                *)
(*   loops, funs   loop_depth, function_depth                              *)
(*   pending       pending_async      expects  expecting_indented_block    *)
(*   files         path -> [file, text]: two paths may be one file         *)
(*   cache         the module cache: file -> the symbols it publishes      *)
(*   module        the file being parsed, {} for none                      *)
(***************************************************************************)
EXTENDS Expressions

ExprStart == {"name", "number", "string", "none", "true", "false", "(", "[", "-", "await"}

SkipTo(p, kinds) == [p EXCEPT !.pos = NextAt(p, LAMBDA t : t \in kinds)]

\* The DEDENT that ends the block the next token is in, or the end.
BlockEnd(p) ==
    LET Count(t, j) == Cardinality({k \in p.pos .. j : p.toks[k][1] = t})
        ends == {j \in p.pos .. Len(p.toks) : \/ Count("dedent", j) = Count("indent", j) + 1
                                              \/ p.toks[j][1] = "eof"}
    IN  [p EXCEPT !.pos = CHOOSE j \in ends : \A k \in ends : j <= k]

RECURSIVE Statement(_), Statements(_, _, _), BlockLoop(_, _), Elifs(_, _), Cases(_, _, _)

-----------------------------------------------------------------------------
(* Declarations. *)

\* parse_constant_declaration. A value that cannot begin an expression is an error only
\* when it is the word 'constant'.
Constant(p) ==
    LET p1 == Advance(p)
        x == Value(p1)
        p2 == Advance(p1)
        p3 == Advance(p2)
        Put(q, type) == DeclareAt(q, <<x>>, "constant", type, 0, p1.pos)
        Type(t) == IF ~p.checks \/ t = "error" THEN "any" ELSE t
        Known(q, e) == IF e[1] = "number" THEN SetKnown(q, FindIn(q, <<x>>, q.scope), e) ELSE q
        dropped == SkipTo(Check(p3, ~At(p3, {"constant"}), "name"), EndOfLine)
    IN  CASE ~At(p1, {"name"}) -> R(Abandon(p1, "name"), Nothing)
          [] ~At(p2, {"="})    -> R(Abandon(p2, "initializer"), Nothing)
          [] At(p3, EndOfLine) -> R(Put(Error(p3, "value"), "any"), Nothing)
          [] ~At(p3, ExprStart) -> R(Put([dropped EXCEPT !.skipped = @ \cup {"constant"}], "any"),
                                     Nothing)
          [] OTHER -> Then(Expression(p3), LAMBDA q, e :
                           IF e = Nothing THEN R(Put(q, "any"), Nothing)
                           ELSE R(Known(Put(q, Type(Infer(q, e).t)), e), <<"constant", x, e>>))

\* Of parse_var_decl_or_assign, what follows the value e of type t: a name of no visible
\* scope is declared with that type, a variable or parameter takes it.
Assigned(p, x, at, e, t) ==
    LET i == Find(p, <<x>>)
        new == DeclareAt(p, <<x>>, "variable", t, 0, at)
    IN  CASE i = 0 /\ (e = Nothing \/ t = "error") -> p
          [] i = 0 -> IF e[1] = "number" THEN SetKnown(new, Find(new, <<x>>), e) ELSE new
          [] ~IsKind(p, i, {"variable", "parameter"}) -> Error(p, "notVariable")
          [] e = Nothing -> p
          [] OTHER -> [SetKnown(p, i, e)
                           EXCEPT !.syms[i].type = IF t \in {"error", "unknown"} THEN @ ELSE t]

\* parse_var_decl_or_assign.
Let(p) ==
    LET x == Value(p)
        Names(k) == \A j \in 1 .. k : Peek(p, 2*j - 1)[1] = "," /\ Peek(p, 2*j)[1] = "name"
        more == CHOOSE k \in 0 .. Len(p.toks) : Names(k) /\ ~Names(k + 1)
        p1 == [p EXCEPT !.pos = @ + 2*more + 1]
        p2 == Match(p1, ",")
        NewVariable(q, j) ==
            LET y == <<Peek(p, 2*j)[2]>>
            IN  IF Find(q, y) # 0 THEN q ELSE DeclareAt(q, y, "variable", "any", 0, p.pos + 2*j)
        p3 == Consume(p2, "=")
        Second(q) == Then(Expression(q), LAMBDA s, e :
                          Abandon(Check(s, e # Nothing, "crash"), "multiple"))
        Assign(q, e) ==
            LET next == Advance(q)
            IN  CASE At(q, {","}) /\ At(next, {"newline"})  -> Error(NewVariable(next, 0), "comma")
                  [] At(q, {","}) /\ ~At(next, {"newline"}) -> Second(NewVariable(next, 0))
                  [] OTHER -> IF p.checks THEN Assigned(q, x, p.pos, e, Infer(q, e).t) ELSE q
    IN  CASE more > 0 -> R(Abandon(FoldLeft(NewVariable, p2, [j \in 1 .. more + 1 |-> j - 1]),
                                   "multiple"), Nothing)
          [] more = 0 /\ At(p1, {","}) -> R(Abandon(NewVariable(p2, 0), "comma"), Nothing)
          [] OTHER ->
               IF At(p3, EndOfLine) THEN R(Error(p3, "value"), <<"let", x, Nothing>>)
               ELSE Then(Expression(p3), LAMBDA q, e :
                         R(Assign(Check(q, ~IsConstant(q, <<x>>), "constant"), e), <<"let", x, e>>))

\* parse_block, after the keyword: [p, n] with a sequence of statements.
Block(p) ==
    LET p1 == SkipNewlines(p)
    IN  IF ~At(p1, {"indent"}) THEN R(Abandon(p1, "block"), <<>>)
        ELSE Then(BlockLoop([Advance(p1) EXCEPT !.expects = FALSE], <<>>), LAMBDA q, b :
                  R(Match(q, "dedent"), b))

\* The statements of a block; what follows one that leaves it is unreachable.
BlockLoop(p, acc) ==
    LET leaves == /\ acc # <<>> 
                  /\ \/ Last(acc)[1] \in {"break", "continue"}
                     \/ Last(acc)[1] = "return" /\ Last(acc)[2] # Nothing
    IN  IF At(p, {"eof", "dedent"}) THEN R(p, acc)
        ELSE IF At(p, {"indent"})
             THEN BlockLoop(IF p.expects THEN Advance(p)
                            ELSE Statement(Advance(Error(p, "indentation"))).p, acc)
        ELSE Then(Statement(Check(p, ~leaves, "unreachable")), LAMBDA q, s :
                  IF s = Nothing THEN BlockLoop(SkipNewlines(q), acc)
                  ELSE BlockLoop(SkipNewlines([q EXCEPT !.expects = FALSE]), Append(acc, s)))

\* A block in a scope of its own.
Scoped(p) == Then(Block(EnterScope(p)), LAMBDA q, b : R(ExitScope(q), b))
ScopedBlock(p) == Scoped([p EXCEPT !.expects = TRUE])

\* The parameters after the parenthesis: [p, n] with their names.
Parameters(p) ==
    LET Params(k) == \A j \in 1 .. k : /\ Peek(p, 2*j - 2)[1] = "name"
                                       /\ j > 1 => Peek(p, 2*j - 3)[1] = ","
        count == CHOOSE k \in 0 .. Len(p.toks) : Params(k) /\ ~Params(k + 1)
        names == [j \in 1 .. count |-> Peek(p, 2*j - 2)[2]]
    IN  R(IF count = 0 THEN p ELSE Match([p EXCEPT !.pos = @ + 2*count - 1], ","), names)

\* A function is declared, async if pending_async is set: by the innermost declaration
\* under way when it is read.
Declared(p, f, params, at) ==
    LET old == FindIn(p, <<f>>, p.scope)
        again == IsKind(p, old, {"function"}) /\ p.syms[old].at # at
        Marked(q) == [q EXCEPT !.syms[FindIn(q, <<f>>, q.scope)].async = q.pending]
    IN  Marked(DeclareAt(Check(p, ~again, "duplicate"), <<f>>, "function", "function",
                         Len(params), at))

\* parse_function, from the word 'function'.
Function(p) ==
    LET p1 == Advance(p)
        f == Value(p1)
        Inside(q, d) == [q EXCEPT !.funs = @ + d, !.top = @ - d, !.expects = @ \/ d = 1,
                                  !.async = IF q.pending THEN @ + d ELSE @]
        Known(q, params) == FoldLeft(LAMBDA s, x : DeclareAt(s, <<x>>, "parameter", "any", 0, p1.pos),
                                     EnterScope(q), params)
    IN  IF ~At(p1, {"name"}) THEN R(Error(p1, "expected"), Nothing)
        ELSE Then(Parameters(Consume(Advance(p1), "(")), LAMBDA s, params :
                  Then(Block(Known(Inside(Declared(Consume(s, ")"), f, params, p1.pos), 1), params)),
                       LAMBDA q, b : R(Inside(ExitScope(q), -1), <<"function", f, params, b, FALSE>>)))

\* 'async' before a function.
AsyncFunction(p) ==
    LET p1 == Advance(p)
    IN  IF ~At(p1, {"function"}) THEN R(Error(p1, "expected"), Nothing)
        ELSE Then(Function([p1 EXCEPT !.pending = TRUE]), LAMBDA q, f :
                  R([q EXCEPT !.pending = FALSE],
                    IF f = Nothing THEN Nothing ELSE [f EXCEPT ![5] = TRUE]))

-----------------------------------------------------------------------------
(* Control flow. *)

\* 'if' without a condition: the block after it is passed over.
NoCondition(p) ==
    LET q == SkipNewlines(Error(p, "condition"))
    IN  IF At(q, {"indent"}) THEN Match(BlockEnd(Advance(q)), "dedent") ELSE q

Headless(p) == At(p, EndOfLine \cup {"indent"})

\* The clauses after the first block of an if: [p, n] with n = [elifs, else].
Elifs(p, acc) ==
    LET p1 == [Advance(p) EXCEPT !.chain = @ + 1]
        p2 == Advance(p1)
        Over(q) == R(q, [elifs |-> acc, else |-> <<>>])
        Branch(q, c) == Then(ScopedBlock(Errors(q, CheckCondition(q, c))), LAMBDA s, b :
                             Elifs(SkipNewlines(s), Append(acc, <<c, b>>)))
    IN  CASE ~At(p, {"else"}) -> Over(p)
          [] At(p, {"else"}) /\ p1.chain > MaxChainDepth -> Over([Error(p1, "chain") EXCEPT !.chain = 0])
          [] OTHER ->
               IF ~At(p1, {"if"})
               THEN Then(ScopedBlock(SkipNewlines(p1)), LAMBDA q, b :
                         R(q, [elifs |-> acc, else |-> <<b>>]))
               ELSE IF Headless(p2) THEN Over(NoCondition(p2))
               ELSE Then(Expression(p2), LAMBDA q, c :
                         IF c = Nothing THEN Over(Error(q, "condition")) ELSE Branch(q, c))

\* parse_if_statement.
If(p) ==
    LET p1 == Advance(p)
        Branch(q, c) ==
            Then(ScopedBlock(Errors(q, CheckCondition(q, c))), LAMBDA s, b :
                 Then(Elifs(SkipNewlines(s), <<>>), LAMBDA t, rest :
                      R([t EXCEPT !.chain = 0], <<"if", c, b, rest.elifs, rest.else>>)))
    IN  IF Headless(p1) THEN R(NoCondition(p1), Nothing)
        ELSE Then(Expression(p1), LAMBDA q, c :
                  IF c = Nothing THEN R(Error(q, "condition"), Nothing) ELSE Branch(q, c))

\* is_valid_case_pattern.
IsPattern(e) == \/ e[1] \in {"number", "string", "boolean", "none"}
                \/ e[1] = "neg" /\ e[2][1] = "number"

\* The cases of a match on a subject of a type: [p, n] with n = [cases, default].
Cases(p, type, acc) ==
    LET p1 == SkipNewlines(p)
        p2 == Advance(p1)
        Never(t) == /\ type \notin {"unjudged", "any", "unknown"}
                    /\ t \notin {"any", "unknown", "error", type}
        Judged(q, e) ==
            R(IF e = Nothing THEN q
              ELSE Check(q, IsPattern(e) /\ (p.checks => ~Never(Infer(q, e).t)), "pattern"), e)
        pattern == Then(IF Headless(p2) THEN R(p2, Nothing) ELSE Expression(p2), Judged)
        Case(q, e, b) ==
            CASE e # Nothing -> Cases(q, type, [acc EXCEPT !.cases = Append(@, <<e, b>>)])
              [] e = Nothing /\ acc.default # <<>> -> Cases(Error(q, "defaults"), type, acc)
              [] OTHER -> IF At(q, {"case"}) THEN R(BlockEnd(Error(q, "default")), acc)
                          ELSE Cases(q, type, [acc EXCEPT !.default = <<b>>])
    IN  CASE At(p1, {"dedent", "eof"}) -> R(p1, acc)
          [] At(p1, {"case"}) ->
               Then(pattern, LAMBDA q, e :
                    Then(Scoped(q), LAMBDA s, b : Case(SkipNewlines(s), e, b)))
          [] OTHER -> Cases(SkipTo(Error(p1, "case"), EndOfLine \cup {"dedent"}), type, acc)

\* parse_match_statement.
MatchStatement(p) ==
    LET p1 == Advance(p)
        Judged(q, t) == SkipNewlines(Check(q, ~p.checks \/ t \notin {"table", "function"}, "subject"))
        Known(t) == IF t \in {"table", "function", "error"} THEN "unjudged" ELSE t
        Body(q, e, t) ==
            IF ~At(q, {"indent"}) THEN R(Error(q, "block"), Nothing)
            ELSE Then(Cases(Advance(q), Known(t), [cases |-> <<>>, default |-> <<>>]), LAMBDA s, b :
                      R(Match(s, "dedent"), <<"match", e, b.cases, b.default>>))
        Subject(q, e, t) == Body(Judged(q, t), e, t)
    IN  IF Headless(p1) THEN R(Abandon(p1, "subject"), Nothing)
        ELSE Then(Expression(p1), LAMBDA q, e :
                  IF e = Nothing THEN R(Error(q, "subject"), Nothing)
                  ELSE Subject(q, e, Infer(q, e).t))

\* The end and step of a counting loop, after the start: [p, n], n the head.
CountHead(p, x, start) ==
    LET p1 == Advance(p)
        Number == Then(Expression(p1), LAMBDA q, e : R(Errors(q, CheckNumber(q, e)), e))
        Zero(q, e) == e # Nothing /\ NumericConstant(q, e) = {0}
        Step(q) == IF Headless(q) THEN R(Error(q, "step"), Nothing)
                   ELSE Then(Expression(q), LAMBDA s, e :
                             R(Check(Errors(s, CheckNumber(s, e)), ~Zero(s, e), "stepZero"), e))
    IN  CASE ~At(p, {","}) -> R(Check(Error(p, "end"), start # Nothing, "crash"), <<"while", Nothing>>)
          [] At(p, {","}) /\ Headless(p1) -> R(Error(p1, "end"), <<"while", Nothing>>)
          [] OTHER -> Then(Number, LAMBDA q, end :
                           Then(IF At(q, {","}) THEN Step(Advance(q)) ELSE R(q, Nothing), LAMBDA s, step :
                                R(s, <<"count", x, start, end, step>>)))

\* The head of a for, after the word.
ForHead(p) ==
    LET x == Value(p)
        next == Peek(p, 1)[1]
        IsTable(q, e) == ~p.checks \/ e = Nothing \/ Infer(q, e).t \in {"table", "any", "unknown"}
    IN  Then(Expression(IF next \in {"in", "="} THEN Advance(Advance(p)) ELSE p), LAMBDA q, e :
             CASE next = "in" -> R(Check(q, IsTable(q, e), "notTable"), <<"each", x, e>>)
               [] next = "="  -> CountHead(Errors(q, CheckNumber(q, e)), x, e)
               [] OTHER       -> R(Errors(q, CheckCondition(q, e)), <<"while", e>>))

\* parse_for_statement.
For(p) ==
    LET p1 == SkipNewlines(Advance(p))
        Begun(q) == EnterScope([q EXCEPT !.loops = @ + 1, !.expects = TRUE])
        Named(q, head) ==
            IF head[1] = "while" THEN q
            ELSE DeclareAt(q, <<head[2]>>, "variable",
                           IF head[1] = "each" THEN "any" ELSE "number", 0, p1.pos)
    IN  IF ~At(p1, {"name"}) THEN R(Abandon(p1, "loop"), Nothing)
        ELSE Then(ForHead(p1), LAMBDA q, head :
                  Then(Block(Named(Begun(q), head)), LAMBDA s, b :
                       R([ExitScope(s) EXCEPT !.loops = @ - 1], <<"for", head, b>>)))

\* parse_return_statement.
Return(p) ==
    LET p1 == Check(Advance(p), ~p.checks \/ p.funs > 0, "return")
        ends == EndOfLine \cup {"dedent"}
    IN  CASE At(p1, ends) -> R(Error(p1, "value"), <<"return", Nothing>>)
          [] At(p1, ExprStart) ->
               Then(Expression(p1), LAMBDA q, e :
                    R(IF At(q, ends) THEN q ELSE Abandon(q, "afterReturn"), <<"return", e>>))
          [] OTHER -> R(Abandon(p1, "afterReturn"), <<"return", Nothing>>)

\* parse_break_statement and parse_continue_statement. loop_depth is not reset in a
\* function.
Leave(p) == R(Check(Advance(p), ~p.checks \/ p.loops > 0, "loop"), <<Kind(p)>>)

-----------------------------------------------------------------------------
(* Imports. *)

Segment == {"name", "number", "string"} \cup Keywords

\* The path of an import, after the word: its segments.
PathLength(p) ==
    CHOOSE k \in 1 .. Len(p.toks) :
        /\ \A j \in 2 .. k : Peek(p, 2*j - 3)[1] = "/" /\ Peek(p, 2*j - 2)[1] \in Segment
        /\ ~(Peek(p, 2*k - 1)[1] = "/" /\ Peek(p, 2*k)[1] \in Segment)

\* Every dotted prefix of the name is declared a module.
DeclareModules(p, name, at) ==
    LET Put(q, k) == LET m == SubSeq(name, 1, k)
                     IN  IF Find(q, m) # 0 THEN q ELSE DeclareAt(q, m, "module", "table", 0, at)
    IN  FoldLeft(Put, p, [k \in DOMAIN name |-> k])

Exported(p, name, s, at) ==
    IF Find(p, name \o s.name) # 0 THEN p
    ELSE DeclareAt(p, name \o s.name, s.kind, s.type, s.params, at)

\* The symbols of a module, under its name. The symbols of a module it imports itself are
\* declared first by that import's turn, and then are not marked async any more.
ImportSymbols(p, name, syms, at) ==
    LET global == SelectSeq(syms, LAMBDA s : s.scope = 0)
        Within(q, s) ==
            FoldLeft(LAMBDA r, t : IF IsStrictPrefix(s.name, t.name) THEN Exported(r, name, t, at)
                                   ELSE r, q, global)
        Put(q, s) ==
            LET r == Exported(q, name, s, at)
                i == Find(r, name \o s.name)
                new == Find(q, name \o s.name) = 0
                m == [r EXCEPT !.syms[i].async = IF new THEN s.async ELSE @]
            IN  IF s.kind = "module" THEN Within(m, s) ELSE m
    IN  FoldLeft(Put, p, global)

\* prescan_declarations: the functions and constants of the top level, by their tokens.
Prescan(p) ==
    LET Depth(i) == FoldLeft(LAMBDA d, t : CASE t[1] = "indent" -> d + 1
                                             [] t[1] = "dedent" -> IF d > 0 THEN d - 1 ELSE 0
                                             [] OTHER -> d, 0, SubSeq(p.toks, 1, i))
        params(i) == 
            LET ends == {j \in i .. Len(p.toks) : p.toks[j][1] \in {")", "eof"}}
                end == CHOOSE j \in ends : \A k \in ends : j <= k
                commas(j) == {k \in i + 1 .. j - 1 : p.toks[k][1] = ","}
                named == {j \in i + 1 .. end - 1 : p.toks[j][1] = "name"}
            IN  IF p.toks[i][1] # "(" THEN 0
                ELSE Cardinality({commas(j) : j \in named})
        Put(q, i) ==
            LET declares == /\ p.toks[i][1] \in {"function", "constant"}
                            /\ p.toks[i + 1][1] = "name" /\ Depth(i) = 0
                function == p.toks[i][1] = "function"
            IN  IF ~declares THEN q
                ELSE DeclareAt(q, <<p.toks[i + 1][2]>>, p.toks[i][1],
                               IF function THEN "function" ELSE "any",
                               IF function THEN params(i + 2) ELSE 0, i + 1)
    IN  FoldLeft(Put, p, [i \in 1 .. Len(p.toks) - 1 |-> i])

\* parse_program up to its loop: the symbols found so far are what a later import of the
\* file gets.
Begin(p) ==
    LET q == Prescan(p)
    IN  [q EXCEPT !.cache = [f \in q.module |-> q.syms] @@ @]

\* The loop of parse_program, and its end.
Statements(p, prev, acc) ==
    IF At(p, {"eof"}) \/ p.pos = prev THEN R(p, acc)
    ELSE Then(Statement(p), LAMBDA q, s :
              Statements(SkipNewlines(q), p.pos, IF s = Nothing THEN acc ELSE Append(acc, s)))

\* The rest of parse_import_statement, once the path is read. The errors of the
\* tokenizer are not looked at.
Load(p, path, name, at) ==
    LET q == DeclareModules(p, name, at)
        m == q.files[path]
        new == [NewParser(Tokenize(m.text).toks, {m.file}, q.files, q.cache)
                    EXCEPT !.checks = q.checks]
        Back(s) == [Errors(q, s.errs) EXCEPT !.cache = s.cache, !.skipped = @ \cup s.skipped]
    IN  CASE path \notin DOMAIN q.files -> R(Error(q, "notFound"), <<"import", name>>)
          [] path \in DOMAIN q.files /\ m.file \in DOMAIN q.cache ->
               R(ImportSymbols(q, name, q.cache[m.file], at), <<"import", name>>)
          [] OTHER -> Then(Statements(Begin(new), 0, <<>>), LAMBDA s, b :
                           R(ImportSymbols(Back(s), name, s.syms, at), <<"module", name, b>>))

\* parse_import_statement.
Import(p) ==
    LET p1 == Advance(p)
        k == PathLength(p1)
        path == [j \in 1 .. k |-> Peek(p1, 2*j - 2)[2]]
        builtin == At(p1, {"name"}) /\ Value(p1) \in KnownModules /\ Peek(p1, 1)[1] \notin {"/", "."}
        p2 == [p1 EXCEPT !.pos = @ + IF builtin THEN 1 ELSE 2*k - 1]
        suffixed == At(p2, {"."}) /\ Peek(p2, 1) = <<"name", "apex">>
        p3 == IF builtin THEN p2 ELSE Advance(Advance(p2))
        p4 == Advance(p3)
        aliased == At(p3, {"as"})
        p5 == IF aliased THEN Advance(p4) ELSE p3
        name == IF aliased THEN <<Value(p4)>> ELSE path
    IN  CASE At(p1, EndOfLine) -> R(Error(p1, "module"), Nothing)
          [] ~At(p1, Segment \cup EndOfLine) -> R(Abandon(p1, "module"), Nothing)
          [] OTHER ->
               IF ~builtin /\ ~suffixed THEN R(Abandon(p2, "path"), Nothing)
               ELSE IF aliased /\ builtin THEN R(Abandon(p4, "alias"), Nothing)
               ELSE IF aliased /\ ~At(p4, {"name"} \cup Keywords) THEN R(Error(p4, "alias"), Nothing)
               ELSE IF ~At(p5, EndOfLine) THEN R(Abandon(p5, "afterImport"), Nothing)
               ELSE IF builtin
                    THEN R(DeclareModules(p5, <<Value(p1)>>, p.pos), <<"import", <<Value(p1)>>>>)
               ELSE Load(p5, path, name, p.pos)

-----------------------------------------------------------------------------
(* Statements. *)

\* An expression as a statement, from parse_statement: it must have an effect.
ExpressionStatement(p) ==
    LET Undotted(q) == IF At(q, {"."}) THEN Abandon(q, "dot") ELSE q
    IN  Then(Expression(p), LAMBDA q, e :
             IF e = Nothing THEN R(q, Nothing)
             ELSE R(Check(Undotted(q), ~q.checks \/ HasEffect(e), "noEffect"), <<"expr", e>>))

\* parse_statement.
Statement(p) ==
    LET q == SkipNewlines(p)
        next == Advance(q)
        expression == ExpressionStatement(q)
    IN  CASE At(q, {"eof"})      -> R(q, Nothing)
          [] At(q, {"import"})   -> Import(q)
          [] At(q, {"constant"}) -> Constant(q)
          [] At(q, {"function"}) -> Function(q)
          [] At(q, {"async"})    -> AsyncFunction(q)
          [] At(q, {"if"})       -> If(q)
          [] At(q, {"else"})     -> Then(Block([next EXCEPT !.expects = TRUE]), LAMBDA s, b :
                                         R(s, <<"block", b>>))
          [] At(q, {"for"})      -> For(q)
          [] At(q, {"return"})   -> Return(q)
          [] At(q, {"break", "continue"}) -> Leave(q)
          [] At(q, {"match"})    -> MatchStatement(q)
          [] At(q, {"name"})     -> IF Peek(q, 1)[1] \in {"=", ","} THEN Let(q) ELSE expression
          [] At(q, {"indent", "dedent"}) -> R([next EXCEPT !.skipped = @ \cup {"layout"}], Nothing)
          [] OTHER -> Then(expression, LAMBDA s, e : R(IF e = Nothing THEN Advance(s) ELSE s, e))
=============================================================================
