------------------------------ MODULE Expressions ------------------------------
(***************************************************************************)
(* The Pratt parser for expressions (core/parser.c).                       *)
(*                                                                         *)
(* A parser is a record. Besides the fields of module Names it has         *)
(*   toks, pos     the tokens and the next one                             *)
(*   errs          the names of the errors reported; "crash" stands for a  *)
(*                 use of a node that is missing                           *)
(*   async, top    async_depth and top_level_depth                         *)
(*   depth, chain  expr_depth and chain_depth                              *)
(*   skipped       not in the code: what was passed over without an error  *)
(*                 and has no part in the tree                             *)
(* and those of module Parser. What parses something takes a parser and    *)
(* gives [p, n], the parser after it and the node, which may be Nothing.   *)
(***************************************************************************)
EXTENDS Tokenizer, Names

CONSTANTS MaxExprDepth,   \* MAX_EXPR_DEPTH: 256
          MaxChainDepth   \* MAX_CHAIN_DEPTH: 512

R(p, n) == [p |-> p, n |-> n]

\* What is done with the parser and the node that r is.
Then(r, Op(_, _)) == Op(r.p, r.n)

Peek(p, k) == p.toks[IF p.pos + k > Len(p.toks) THEN Len(p.toks) ELSE p.pos + k]
Kind(p) == Peek(p, 0)[1]
Value(p) == Peek(p, 0)[2]
At(p, kinds) == Kind(p) \in kinds
EndOfLine == {"newline", "eof"}

Advance(p) == IF p.pos > Len(p.toks) THEN p ELSE [p EXCEPT !.pos = @ + 1]
Match(p, kind) == IF At(p, {kind}) THEN Advance(p) ELSE p

Error(p, e) == [p EXCEPT !.errs = @ \cup {e}]
Errors(p, es) == [p EXCEPT !.errs = @ \cup es]
Check(p, ok, e) == IF ok THEN p ELSE Error(p, e)
Consume(p, kind) == IF At(p, {kind}) THEN Advance(p) ELSE Error(p, "expected")

\* The next position of a token for which Is holds.
NextAt(p, Is(_)) == CHOOSE i \in p.pos .. Len(p.toks) : /\ Is(p.toks[i][1])
                                                        /\ \A j \in p.pos .. i - 1 : ~Is(p.toks[j][1])
SkipNewlines(p) == IF At(p, {"newline"}) THEN [p EXCEPT !.pos = NextAt(p, LAMBDA t : t # "newline")]
                   ELSE p
\* Report an error and leave the line.
Abandon(p, e) == LET q == Error(p, e)
                 IN  [q EXCEPT !.pos = NextAt(q, LAMBDA t : t \in EndOfLine)]

\* enum Precedence and get_precedence. A call, an index or a dot binds tightest.
Prec == [none |-> 0, assignment |-> 1, or |-> 2, unary |-> 8]

\* Mutant of Precedence: comparisons bind as equality does.
PrecedenceFlat(t) ==
    CASE t = "=" -> 1 [] t \in {"or", "if"} -> 2 [] t = "and" -> 3
      [] t \in {"==", "!=", "<", ">", "<=", ">="} -> 4 [] t \in {"+", "-"} -> 6
      [] t \in {"*", "/", "%"} -> 7 [] t \in {"(", "[", "."} -> 9 [] OTHER -> 0

Precedence(t) ==
    CASE t = "=" -> 1
      [] t \in {"or", "if"} -> 2
      [] t = "and" -> 3
      [] t \in {"==", "!="} -> 4
      [] t \in {"<", ">", "<=", ">="} -> 5
      [] t \in {"+", "-"} -> 6
      [] t \in {"*", "/", "%"} -> 7
      [] t \in {"(", "[", "."} -> 9
      [] OTHER -> 0

RECURSIVE Expression(_), ParsePrecedence(_, _), Climb(_, _, _), Arguments(_, _), Items(_, _),
          Pieces(_, _, _, _)

-----------------------------------------------------------------------------
(* Strings. *)

\* parser_create.
NewParser(toks, module, files, cache) ==
    [toks |-> toks, pos |-> 1, errs |-> {}, skipped |-> {}, syms |-> <<>>, scope |-> 0,
     loops |-> 0, funs |-> 0, async |-> 0, top |-> 1, pending |-> FALSE, checks |-> TRUE,
     expects |-> FALSE, depth |-> 0, chain |-> 0, module |-> module, files |-> files,
     cache |-> cache]

\* Every visible symbol, declared again in scope 0: of two with one name the outer one
\* stays, and what is written to "the last symbol" after it goes to another.
CopySymbols(p, q) ==
    LET Put(t, s) ==
            LET d == DeclareAt(t, s.name, s.kind, s.type, s.params, 0)
            IN  [d EXCEPT !.syms[Len(d.syms)].known = s.known, !.syms[Len(d.syms)].const = s.const,
                          !.syms[Len(d.syms)].async = s.async]
        visible == SelectSeq(p.syms, LAMBDA s : s.scope <= p.scope)
    IN  [FoldLeft(Put, q, visible) EXCEPT !.scope = p.scope]

\* parse_string_expression, for what tokenizer_tokenize makes of its text: a parser of its
\* own, without semantic checks, parses one expression. What follows it is not looked at.
Interpolated(p, s) ==
    LET new == [NewParser(s.toks, {}, p.files, p.cache)
                    EXCEPT !.checks = FALSE, !.depth = p.depth, !.chain = p.chain]
        Read(q) == \A i \in q.pos .. Len(q.toks) : q.toks[i][1] \in EndOfLine
        Unread(q) == q.skipped \cup IF Read(q) THEN {} ELSE {"interpolation"}
    IN  CASE p.depth >= MaxExprDepth -> R(Error(p, "deep"), Nothing)
          [] p.depth < MaxExprDepth /\ ~s.ok -> R(Error(p, "token"), Nothing)
          [] OTHER -> Then(Expression(CopySymbols(p, new)), LAMBDA q, e :
                           IF q.errs # {} THEN R(Errors(p, q.errs), Nothing)
                           ELSE R([p EXCEPT !.skipped = @ \cup Unread(q)], e))

\* The text between two braces, without the backslashes of escaped ones.
Unescape(text) ==
    LET Escaping(i) == i < Len(text) /\ text[i] = Backslash /\ text[i + 1] \in Braces
        kept == SelectSeq([i \in DOMAIN text |-> i], LAMBDA i : ~Escaping(i))
    IN  [k \in DOMAIN kept |-> text[kept[k]]]

\* find_closing_brace, 0 when there is none.
ClosingBrace(v, i) ==
    LET Count(c, j) == Cardinality({k \in i .. j : v[k] = Char(c)})
        closing == {j \in i .. Len(v) : v[j] = Char("}") /\ Count("}", j) = Count("{", j) + 1}
    IN  IF closing = {} THEN 0 ELSE CHOOSE j \in closing : \A k \in closing : j <= k

Literal(v, from, to) == IF from > to THEN <<>> ELSE <<<<"string", Unescape(SubSeq(v, from, to))>>>>

\* The loop of parse_string, at character i, the text since start not yet in a part. A
\* brace that is never closed leaves start where it was.
Pieces(p, v, i, start) ==
    LET Before(parts, r) == [r EXCEPT !.n = parts \o @]
        literal == Literal(v, start, i - 1)
        close == ClosingBrace(v, i + 1)
    IN  CASE i > Len(v) -> R(p, literal)
          [] i <= Len(v) /\ v[i] = Backslash /\ i < Len(v) -> Pieces(p, v, i + 2, start)
          [] i <= Len(v) /\ v[i] = Char("{") /\ close = 0 -> Before(literal, Pieces(p, v, i + 1, start))
          [] i <= Len(v) /\ v[i] = Char("{") /\ close # 0 ->
               Then(Interpolated(p, Tokenize(SubSeq(v, i + 1, close - 1))), LAMBDA q, e :
                    Before(literal \o (IF e = Nothing THEN <<>> ELSE <<e>>),
                           Pieces(q, v, close + 1, close + 1)))
          [] OTHER -> Pieces(p, v, i + 1, start)

\* parse_string.
String(p) ==
    LET v == Value(p)
    IN  IF \A i \in DOMAIN v : v[i] # Char("{") THEN R(Advance(p), <<"string", v>>)
        ELSE Then(Pieces(Advance(p), v, 1, 1), LAMBDA q, parts : R(q, <<"interp", parts>>))

-----------------------------------------------------------------------------
(* Primaries. *)

\* parse_table_literal after its bracket: the items and the pairs.
Items(p, acc) ==
    LET p1 == SkipNewlines(p)
        key == IF Peek(p1, 1)[1] = "=" THEN {Kind(p1)} \cap {"string", "number", "name"} ELSE {}
        Entry(q, e) == CASE key = {}       -> R(q, [acc EXCEPT ![1] = Append(@, e)])
                         [] key = {"name"} -> R(Error(q, "key"), acc)
                         [] OTHER          -> R(q, [acc EXCEPT ![2] = Append(@, <<Peek(p1, 0), e>>)])
        More(q, new) == LET after == SkipNewlines(Advance(q))
                        IN  CASE ~At(q, {","})    -> R(q, new)
                              [] At(after, {"]"}) -> R(Error(after, "comma"), new)
                              [] OTHER            -> Items(after, new)
        entry == Then(Expression(IF key = {} THEN p1 ELSE Advance(Advance(p1))), Entry)
    IN  Then(entry, LAMBDA q, new : More(SkipNewlines(q), new))

Table(p) ==
    LET p1 == SkipNewlines(Advance(p))
        none == <<<<>>, <<>>>>
    IN  Then(IF At(p1, {"]"}) THEN R(p1, none) ELSE Items(p1, none), LAMBDA q, entries :
             R(Consume(SkipNewlines(q), "]"), <<"table", entries[1], entries[2]>>))

\* parse_group.
Group(p) ==
    Then(Expression(SkipNewlines(Advance(p))), LAMBDA q, e : R(Consume(SkipNewlines(q), ")"), e))

\* The arguments after the parenthesis.
Arguments(p, args) ==
    LET More(q, all) == LET after == SkipNewlines(Advance(q))
                        IN  CASE ~At(q, {","})    -> R(q, all)
                              [] At(after, {")"}) -> R(Error(after, "comma"), all)
                              [] OTHER            -> Arguments(after, all)
    IN  Then(Expression(SkipNewlines(p)), LAMBDA q, e : More(SkipNewlines(q), Append(args, e)))

\* parse_call.
Call(p, callee) ==
    LET p1 == SkipNewlines(Advance(p))
    IN  Then(IF At(p1, {")"}) THEN R(p1, <<>>) ELSE Arguments(p1, <<>>), LAMBDA q, args :
             R(Consume(SkipNewlines(q), ")"), <<"call", callee, args>>))

\* parse_index_access.
Index(p, object) ==
    Then(Expression(SkipNewlines(Advance(p))), LAMBDA q, e :
         R(Consume(SkipNewlines(q), "]"), <<"index", object, e>>))

Keywords == {"function", "if", "else", "for", "match", "case", "break", "continue", "return",
             "import", "as", "constant", "in", "async", "await", "and", "or", "none", "true",
             "false"}

IsModule(p, e) == /\ e[1] = "name"
                  /\ \/ IsKind(p, Find(p, <<e[2]>>), {"module"})
                     \/ e[2] \in KnownModules

\* parse_member_access: Nothing when what is before the dot is no module. A builtin that
\* is indexed is called first.
Member(p, object) ==
    LET q == Advance(p)
        node == <<"index", object, <<"name", IF At(q, {"number"}) THEN "number" ELSE Value(q)>>>>
        name == CallName(node)
        i == Find(p, name)
        after == Advance(q)
        builtin == name \in DOMAIN Builtins
        function == builtin \/ IsKind(p, i, {"function"})
    IN  CASE ~(object[1] \in {"name", "index"} /\ IsModule(p, Root(object))) -> R(p, Nothing)
          [] object[1] = "index" /\ object[3] = Nothing -> R(Error(q, "crash"), object)
          [] ~At(q, {"name", "number"} \cup Keywords) -> R(Error(q, "member"), object)
          [] At(after, {"("}) -> IF ~builtin /\ IsKind(p, i, {"variable", "parameter"})
                                 THEN R(Error(after, "notFunction"), node)
                                 ELSE Call(after, node)
          [] builtin /\ At(after, {"["}) -> R(after, <<"call", node, <<>>>>)
          [] OTHER -> R(Check(after, ~function, "parentheses"), node)

\* 'await', outside of an interpolation, is for async functions and the top level, and
\* for calls of builtins and of functions known to be async.
Await(p) ==
    LET placed == ~p.checks \/ p.async # 0 \/ p.top # 0
        Known(q, name) == \/ name \in DOMAIN Builtins
                          \/ Find(q, name) # 0 /\ q.syms[Find(q, name)].async
        Awaitable(q, e) == e[1] = "call" /\ CallName(e[2]) # NoName /\ Known(q, CallName(e[2]))
    IN  Then(ParsePrecedence(Check(Advance(p), placed, "await"), Prec.unary), LAMBDA q, e :
             IF e = Nothing THEN R(Error(q, "operand"), Nothing)
             ELSE R(Check(q, ~p.checks \/ Awaitable(q, e), "awaited"), <<"await", e>>))

\* parse_prefix.
Prefix(p) ==
    LET next == Advance(p)
        Negated(q, e) == IF e = Nothing THEN R(Error(q, "operand"), Nothing) ELSE R(q, <<"neg", e>>)
    IN  CASE At(p, {"number", "name"}) -> R(next, Peek(p, 0))
          [] At(p, {"string"})         -> String(p)
          [] At(p, {"none"})           -> R(next, <<"none">>)
          [] At(p, {"true", "false"})  -> R(next, <<"boolean", Kind(p)>>)
          [] At(p, {"["})              -> Table(p)
          [] At(p, {"("})              -> Group(p)
          [] At(p, {"-"})              -> Then(ParsePrecedence(next, Prec.unary), Negated)
          [] At(p, {"await"})          -> Await(p)
          [] At(p, EndOfLine)          -> R(p, Nothing)
          [] OTHER                     -> R(Error(p, "expression"), Nothing)

-----------------------------------------------------------------------------
(* Operators. *)

\* TOKEN_IF: value if condition else other.
Ternary(p, left) ==
    LET Other(q, c) == ParsePrecedence(Consume(Errors(q, CheckCondition(q, c)), "else"), Prec.or)
    IN  Then(Expression(Advance(p)), LAMBDA q, c :
             IF c = Nothing THEN R(Error(q, "condition"), left)
             ELSE Then(Other(q, c), LAMBDA s, f :
                       R(IF At(s, {"else", "if"}) THEN Abandon(s, "oneElse") ELSE s,
                         <<"tern", c, left, f>>)))

\* A binary operator; 'and' and 'or' are for explicit conditions. One with nothing after
\* it on the line is passed over.
Operator(p, left) ==
    LET op == Kind(p)
        Explicit(right) == \/ ~p.checks \/ op \notin {"and", "or"}
                           \/ IsExplicit(left) /\ IsExplicit(right)
    IN  Then(ParsePrecedence(Advance(p), Precedence(op)), LAMBDA q, e :
             IF e = Nothing THEN R([q EXCEPT !.skipped = @ \cup {"operator"}], left)
             ELSE R(Check(q, Explicit(e), "logical"), <<"bin", op, left, e>>))

\* TOKEN_EQUAL: only a name, or an element of what a name holds, can be assigned.
Assignment(p, left) ==
    LET root == Root(left)
        Fixed(q) == root[1] = "name" /\ IsConstant(q, <<root[2]>>)
    IN  Then(ParsePrecedence(Advance(p), Prec.none), LAMBDA q, e :
             IF left[1] \notin {"name", "index"} THEN R(Error(q, "target"), Nothing)
             ELSE R(Check(q, ~Fixed(q), "constant"), <<"assign", left, e>>))

\* parse_infix.
Infix(p, left) ==
    CASE At(p, {"("})  -> Call(p, left)
      [] At(p, {"["})  -> Index(p, left)
      [] At(p, {"."})  -> Then(Member(p, left), LAMBDA q, e : R(q, IF e = Nothing THEN left ELSE e))
      [] At(p, {"if"}) -> Ternary(p, left)
      [] At(p, {"="})  -> Assignment(p, left)
      [] OTHER         -> Operator(p, left)

\* The loop of parse_precedence. Whatever is parsed inside resets the chain.
Climb(p, left, prec) ==
    LET q == [p EXCEPT !.chain = @ + 1]
        End(s) == [s EXCEPT !.chain = 0]
    IN  IF q.chain > MaxChainDepth THEN R(End(Error(q, "chain")), left)
        ELSE IF Precedence(Kind(q)) <= prec THEN R(End(q), left)
        ELSE Then(Infix(q, left), LAMBDA s, e :
                  IF e = Nothing THEN R(s, left)
                  ELSE IF s.pos = p.pos THEN R(End(s), e)
                  ELSE Climb(s, e, prec))

\* parse_precedence.
ParsePrecedence(p, prec) ==
    LET Operators(q, e) == IF e = Nothing THEN R(q, e) ELSE Climb(q, e, prec)
    IN  IF p.depth >= MaxExprDepth THEN R(Error(p, "deep"), Nothing)
        ELSE Then(Then(Prefix([p EXCEPT !.depth = @ + 1]), Operators), LAMBDA q, e :
                  R([q EXCEPT !.depth = @ - 1], e))

\* parse_expression.
Expression(p) ==
    LET p1 == SkipNewlines(p)
    IN  IF At(p1, {"eof"}) THEN R(p1, Nothing)
        ELSE Then(ParsePrecedence(p1, Prec.none), LAMBDA q, e :
                  R(IF e # Nothing /\ p.checks THEN Errors(q, Infer(q, e).errs) ELSE q, e))
=============================================================================
