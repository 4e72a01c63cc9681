-------------------------------- MODULE Grammar --------------------------------
(***************************************************************************)
(* The source language, independently of how the parser goes about it: the *)
(* text of a syntax tree, with no more parentheses than the table of       *)
(* precedences in resources/EC_fDevelopers.md asks for, and the rules a    *)
(* program must keep, as the name of each rule that a tree breaks.         *)
(*                                                                         *)
(* Trees are those of modules Names and Parser, but for                    *)
(*   <<"import", name, path>>   import of the file at path                 *)
(* A string that has a brace in it is an interpolation of one piece.       *)
(***************************************************************************)
EXTENDS Names, Tokenizer

CONSTANTS MaxExprDepth, MaxChainDepth

Tok(t) == <<"token", Token(t)>>
Word(x) == <<"token", <<"name", x>>>>

-----------------------------------------------------------------------------
(* The text of an expression. *)

\* The table of precedences.
Levels == [t \in {"or"} |-> 2] @@ [t \in {"and"} |-> 3] @@ [t \in {"==", "!="} |-> 4]
            @@ [t \in {"<", ">", "<=", ">="} |-> 5] @@ [t \in {"+", "-"} |-> 6]
            @@ [t \in {"*", "/", "%"} |-> 7]

Level(e) ==
    CASE e = Nothing               -> 9
      [] e[1] = "assign"           -> 1
      [] e[1] = "tern"             -> 2
      [] e[1] = "bin"              -> Levels[e[2]]
      [] e[1] \in {"neg", "await"} -> 8
      [] OTHER                     -> 9

\* A string between its quotes.
Escaped(v) ==
    FlattenSeq([i \in DOMAIN v |->
        CASE v[i] \in Braces \cup {Backslash, Char("q")} -> <<Backslash, v[i]>>
          [] v[i] = Char("newline")                      -> <<Backslash, Char("n")>>
          [] OTHER                                       -> <<v[i]>>])

Joined(texts) ==
    FlattenSeq([i \in DOMAIN texts |-> IF i = 1 THEN texts[1] ELSE <<Tok(",")>> \o texts[i]])

RECURSIVE Bare(_)
InParens(text) == <<Tok("(")>> \o text \o <<Tok(")")>>
Text(e, level) == IF Level(e) <= level THEN InParens(Bare(e)) ELSE Bare(e)

\* m.x, where m is the name of a module, is written with a dot.
Modules == KnownModules \cup {"m", "n"}
OfModule(e) == e[3][1] = "name" /\ Root(e)[1] = "name" /\ Root(e)[2] \in Modules

Piece(e) == IF e[1] = "string" THEN Escaped(e[2]) ELSE <<Char("{")>> \o Bare(e) \o <<Char("}")>>

Bare(e) ==
    CASE e = Nothing      -> <<>>
      [] e[1] \in {"number", "name"} -> <<<<"token", e>>>>
      [] e[1] = "string"  -> <<<<"quoted", Escaped(e[2])>>>>
      [] e[1] = "interp"  -> <<<<"quoted", FlattenSeq([i \in DOMAIN e[2] |-> Piece(e[2][i])])>>>>
      [] e[1] = "none"    -> <<Tok("none")>>
      [] e[1] = "boolean" -> <<Tok(e[2])>>
      [] e[1] = "neg"     -> <<Tok("-")>> \o Text(e[2], 8)
      [] e[1] = "await"   -> <<Tok("await")>> \o Text(e[2], 8)
      [] e[1] = "bin"     -> Text(e[3], Level(e) - 1) \o <<Tok(e[2])>> \o Text(e[4], Level(e))
      [] e[1] = "tern"    -> LET Arm(a) == IF a[1] = "tern" THEN Text(a, 2) ELSE Text(a, 1)
                             IN  Arm(e[3]) \o <<Tok("if")>> \o Arm(e[2])
                                     \o <<Tok("else")>> \o Text(e[4], 2)
      [] e[1] = "assign"  -> Bare(e[2]) \o <<Tok("=")>> \o Text(e[3], 0)
      [] e[1] = "call"    -> Text(e[2], 8) \o InParens(Joined([i \in DOMAIN e[3] |-> Bare(e[3][i])]))
      [] e[1] = "index"   -> IF OfModule(e)
                             THEN Bare(e[2]) \o <<Tok("."), Word(e[3][2])>>
                             ELSE Text(e[2], 8) \o <<Tok("[")>> \o Bare(e[3]) \o <<Tok("]")>>
      [] e[1] = "table"   -> <<Tok("[")>> \o Joined([i \in DOMAIN e[2] |-> Text(e[2][i], 1)]
                                 \o [i \in DOMAIN e[3] |-> Bare(e[3][i][1]) \o <<Tok("=")>>
                                                               \o Bare(e[3][i][2])]) \o <<Tok("]")>>

-----------------------------------------------------------------------------
(* The text of a program. *)

RECURSIVE Lines(_, _), Block(_, _)
Line(n, text) == (IF n = 0 THEN <<>> ELSE <<<<"space", 4 * n>>>>) \o text \o <<<<"newline">>>>
Under(n, head, b) == Line(n, head) \o Block(b, n + 1)
Clauses(cs, Clause(_)) == FlattenSeq([i \in DOMAIN cs |-> Clause(cs[i])])

LoopHead(h) ==
    CASE h[1] = "while" -> Bare(h[2])
      [] h[1] = "each"  -> <<Word(h[2]), Tok("in")>> \o Bare(h[3])
      [] h[1] = "count" -> <<Word(h[2]), Tok("=")>> \o Joined(<<Bare(h[3]), Bare(h[4])>> \o
                               IF h[5] = Nothing THEN <<>> ELSE <<Bare(h[5])>>)

Lines(s, n) ==
    LET Define(e) == <<Word(s[2]), Tok("=")>> \o Bare(e)
    IN CASE s[1] = "let"      -> Line(n, Define(s[3]))
      [] s[1] = "constant" -> Line(n, <<Tok("constant")>> \o Define(s[3]))
      [] s[1] = "expr"     -> Line(n, Bare(s[2]))
      [] s[1] = "return"   -> Line(n, <<Tok("return")>> \o Bare(s[2]))
      [] s[1] \in {"break", "continue"} -> Line(n, <<Tok(s[1])>>)
      [] s[1] = "block"    -> Under(n, <<Tok("else")>>, s[2])
      [] s[1] = "import"   ->
           Line(n, <<Tok("import")>> \o
               (IF Len(s) = 2 THEN <<Word(s[2][1])>>
                ELSE <<Word(s[3][1])>> \o FlattenSeq([i \in 2 .. Len(s[3]) |-> <<Tok("/"), Word(s[3][i])>>])
                         \o <<Tok("."), Word("apex")>> \o
                         IF s[2] = s[3] THEN <<>> ELSE <<Tok("as"), Word(s[2][1])>>))
      [] s[1] = "function" ->
           Under(n, (IF s[5] THEN <<Tok("async")>> ELSE <<>>) \o <<Tok("function"), Word(s[2])>>
                        \o InParens(Joined([i \in DOMAIN s[3] |-> <<Word(s[3][i])>>])), s[4])
      [] s[1] = "if"       ->
           Under(n, <<Tok("if")>> \o Bare(s[2]), s[3])
             \o Clauses(s[4], LAMBDA c : Under(n, <<Tok("else"), Tok("if")>> \o Bare(c[1]), c[2]))
             \o Clauses(s[5], LAMBDA b : Under(n, <<Tok("else")>>, b))
      [] s[1] = "match"    ->
           Line(n, <<Tok("match")>> \o Bare(s[2]))
             \o Clauses(s[3], LAMBDA c : Under(n + 1, <<Tok("case")>> \o Bare(c[1]), c[2]))
             \o Clauses(s[4], LAMBDA b : Under(n + 1, <<Tok("case")>>, b))
      [] s[1] = "for"      -> Under(n, <<Tok("for")>> \o LoopHead(s[2]), s[3])

Block(b, n) == FlattenSeq([i \in DOMAIN b |-> Lines(b[i], n)])
Render(tree) == Block(tree, 0)

\* Another text of the same program: blanks, comments and blank lines after each line,
\* line breaks after an opening bracket, no newline at the end.
Airy(text) ==
    Front(FlattenSeq([i \in DOMAIN text |->
        CASE text[i] = <<"newline">> -> <<<<"comment">>, text[i], <<"space", 3>>, <<"comment">>,
                                          <<"newline">>, <<"newline">>>>
          [] text[i] = Tok("[")      -> <<text[i], <<"newline">>, <<"space", 2>>>>
          [] OTHER                   -> <<text[i]>>]))

\* The depth of the calls of parse_precedence that the text of an expression takes,
\* beyond the first.
RECURSIVE Nest(_)
Nested(e, level) == IF Level(e) <= level THEN 1 + Nest(e) ELSE Nest(e)
Nest(e) ==
    LET Deepest(S) == IF S = {} THEN 0 ELSE CHOOSE d \in S : \A c \in S : c <= d
        Inner(es) == Deepest({1 + Nest(es[i]) : i \in DOMAIN es})
    IN  CASE e = Nothing -> 0
          [] e[1] \in {"neg", "await"} -> 1 + Nested(e[2], 8)
          [] e[1] = "bin"    -> Deepest({Nested(e[3], Level(e) - 1), 1 + Nested(e[4], Level(e))})
          [] e[1] = "tern"   -> Deepest({Nested(e[3], IF e[3][1] = "tern" THEN 2 ELSE 1),
                                         1 + Nested(e[2], IF e[2][1] = "tern" THEN 2 ELSE 1),
                                         1 + Nested(e[4], 2)})
          [] e[1] = "assign" -> 1 + Nest(e[3])
          [] e[1] = "call"   -> Deepest({Nested(e[2], 8), Inner(e[3])})
          [] e[1] = "index"  -> Deepest({Nested(e[2], 8), IF OfModule(e) THEN 0 ELSE 1 + Nest(e[3])})
          [] e[1] = "table"  -> Deepest({1 + Nested(e[2][i], 1) : i \in DOMAIN e[2]} \cup {Inner([i \in DOMAIN e[3] |-> e[3][i][2]])})
          [] e[1] = "interp" -> Inner(SelectSeq(e[2], LAMBDA x : x[1] # "string"))
          [] OTHER -> 0

\* Calls without arguments, one of the other.
RECURSIVE Chain(_)
Chain(e) == IF e[1] = "call" /\ e[3] = <<>> THEN 1 + Chain(e[2]) ELSE 0
=============================================================================
