------------------------------- MODULE MCFrontEnd -------------------------------
EXTENDS FrontEnd

MCBuiltins == <<"os", "output">> :> [min |-> 1, max |-> 1, arg |-> "any"]
                @@ <<"os", "wait">> :> [min |-> 1, max |-> 1, arg |-> "number"]
                @@ <<"math", "round">> :> [min |-> 1, max |-> 2, arg |-> "number"]

Name(x) == <<"name", x>>
Num(k) == <<"number", k>>
Bin(op, l, r) == <<"bin", op, l, r>>
CallOf(f, args) == <<"call", Name(f), args>>
Own(m, name) == <<"index", Name(m), Name(name)>>
CallOwn(m, name, args) == <<"call", Own(m, name), args>>
u == Name("u")
v == Name("v")
Less == Bin("<", u, v)

-----------------------------------------------------------------------------
(* Expressions of up to two operators, and three for and, or. *)

BinaryOps == {"+", "-", "*", "<", "=="}

One(x, y) == {Bin(op, x, y) : op \in BinaryOps}
Around(x) == {<<"neg", x>>, <<"call", Name("f"), <<x, u>>>>, <<"index", u, x>>, <<"index", x, u>>,
              <<"table", <<x>>, <<>>>>, <<"tern", Less, x, v>>, <<"tern", Less, u, x>>,
              <<"assign", u, x>>, <<"interp", <<x>>>>}
Simple == One(u, v) \cup Around(u)
Numeric(e) == e[1] # "bin" \/ e[2] \notin {"<", "=="}
Nestings ==
    Simple
      \cup UNION {One(x, u) \cup One(u, x) : x \in Simple}
      \cup UNION {Around(x) : x \in {e \in Simple : Numeric(e) /\ e[1] # "interp"}}
Logical(x, y) == {Bin("and", x, y), Bin("or", x, y)}
Conditions ==
    LET one == Logical(Less, Bin("==", u, v))
    IN  one \cup UNION {Logical(x, Less) \cup Logical(Less, x) : x \in one}
          \cup Logical(u, Less) \cup {<<"tern", c, u, v>> : c \in one \cup {u}}

InFunction(e) == <<<<"function", "f", <<"u", "v">>, <<<<"return", e>>>>, FALSE>>>>
ExpressionTrees == {InFunction(e) : e \in Nestings \cup Conditions}

FromTree(tree) == Source(Language!Render(tree), <<tree>>, <<>>)

\* The limits: nested calls, and calls of what calls give.
RECURSIVE Calls(_), Applied(_)
Calls(k) == IF k = 0 THEN u ELSE CallOf("f", <<Calls(k - 1), v>>)
Applied(k) == IF k = 0 THEN u ELSE <<"call", Applied(k - 1), <<>>>>
Limits == {Calls(k) : k \in 3 .. 5} \cup {<<"table", <<Applied(k)>>, <<>>>> : k \in {9, 10}}

-----------------------------------------------------------------------------
(* Statements. *)

x == Name("x")
LetTo(n, e) == <<"let", n, e>>
Do(e) == <<"expr", e>>
Fun(f, params, b, async) == <<"function", f, params, b, async>>
IfLess(b, rest) == <<"if", Bin("<", x, Num(3)), b, <<>>, rest>>

Setting == <<<<"import", <<"math">>>>, LetTo("x", Num(1)), LetTo("t", <<"table", <<>>, <<>>>>), <<"constant", "c", Num(2)>>,
             Fun("f", <<"a">>, <<<<"return", Name("a")>>>>, FALSE)>>

Jumps == {<<"break">>, <<"continue">>, <<"return", x>>}
Awaits == {Do(<<"await", CallOf("h", <<x>>)>>), Do(<<"await", CallOf("f", <<x>>)>>)}
Uses == {LetTo("z", Name("y")), LetTo("y", Num(1)), Do(CallOf("g", <<x>>))}
Others ==
    {LetTo("x", Name("c")), LetTo("c", x), LetTo("f", x), <<"constant", "c", x>>, <<"constant", "y", x>>,
     <<"constant", "x", x>>, Do(CallOf("f", <<x>>)), Do(CallOf("f", <<>>)), Do(x), Do(CallOf("x", <<>>)),
     Do(CallOwn("math", "round", <<x, x, x>>)), Do(CallOwn("math", "round", <<x>>)),
     Do(CallOwn("math", "area", <<x>>)), Do(CallOwn("os", "output", <<x>>)), Do(<<"assign", <<"index", Name("t"), x>>, x>>),
     Do(<<"assign", <<"index", Name("c"), x>>, x>>),
     Fun("f", <<>>, <<LetTo("x", x)>>, FALSE), Fun("g", <<"p">>, <<Do(CallOf("g", <<x>>))>>, FALSE),
     Fun("h", <<"p">>, <<Do(<<"await", CallOf("h", <<x>>)>>)>>, TRUE),
     Fun("g", <<"c">>, <<LetTo("c", x)>>, FALSE), Fun("g", <<"f">>, <<Do(CallOf("f", <<x>>))>>, FALSE),
     <<"for", <<"each", "c", Name("t")>>, <<LetTo("c", x)>>>>}
Statements1 == Jumps \cup Awaits \cup Uses \cup Others

\* What can hold a block. An async function in another is for module AwaitSyntax: there
\* the parser's count of them is wrong afterwards.
InBlock(b) ==
    {IfLess(b, <<>>), IfLess(<<LetTo("w", x)>>, <<b>>),
     <<"if", Bin("<", x, x), b, <<<<Bin("and", Bin("!=", x, x), Bin("==", x, x)), b>>>>, <<>>>>,
     <<"for", <<"while", Bin("<", x, Num(3))>>, b>>, <<"for", <<"each", "y", Name("t")>>, b>>,
     <<"for", <<"count", "y", x, Num(3), Nothing>>, b>>,
     <<"match", x, <<<<<<"neg", Num(1)>>, b>>>>, <<b>>>>}
InFunctions(b) ==
    {Fun("g", <<"p">>, b, FALSE)}
      \cup IF b[1][1] = "function" /\ b[1][5] THEN {} ELSE {Fun("h", <<"y">>, b, TRUE)}
Holding(b) == InBlock(b) \cup InFunctions(b)

Wrong == {<<"for", <<"while", x>>, <<LetTo("w", x)>>>>, <<"if", x, <<LetTo("w", x)>>, <<>>, <<>>>>,
          <<"for", <<"count", "i", Num(1), Num(2), <<"neg", Num(0)>>>>, <<LetTo("w", x)>>>>,
          <<"for", <<"count", "i", Num(3), x, <<"neg", Num(1)>>>>, <<LetTo("w", Name("i"))>>>>,
          <<"for", <<"while", Bin("<", Num(1), x)>>, <<LetTo("w", x)>>>>,
          <<"match", x, <<<<Name("c"), <<LetTo("w", x)>>>>>>, <<>>>>}

StatementTrees ==
    LET Program(b) == Setting \o b
        Of(bodies) == UNION {Holding(b) : b \in bodies}
        Few == Jumps \cup Uses \cup Awaits
    IN  {Program(<<s, r>>) : s \in Statements1, r \in Uses \cup Others}
          \cup {Program(<<h>>) : h \in Of({<<s>> : s \in Statements1}) \cup Wrong}
          \cup {Program(<<h>>) : h \in Of({<<s, r>> : s \in Few, r \in Uses})}
          \cup {Program(<<h, s>>) : h \in Of({<<s>> : s \in Uses}), s \in Uses \cup Awaits}
          \cup {Program(<<s, h>>) : s \in Awaits, h \in InFunctions(<<LetTo("w", x)>>)}
          \cup {Program(<<h>>) : h \in Of({<<g>> : g \in UNION {InBlock(<<s>>) : s \in Few}})}
          \cup {Program(<<h>>) : h \in UNION {InBlock(<<g>>) : g \in UNION {InFunctions(<<s>>) : s \in Few}}}

Layouts == {Source(Language!Airy(Language!Render(t)), <<t>>, <<>>) :
              t \in {Setting \o <<h>> : h \in UNION {Holding(<<s>>) : s \in Uses}}}

-----------------------------------------------------------------------------
(* Strings: every one of up to three characters, and interpolations. *)

Chars == {Char("{"), Char("}"), Char("a")}
StringsOf(n) == UNION {[1 .. k -> Chars \cup {Backslash}] : k \in 0 .. n}
Literal1(w) == <<"string", w>>

\* A string with a brace is read as an interpolation of itself.
AsRead(w) == IF Char("{") \in Range(w) THEN <<"interp", <<Literal1(w)>>>> ELSE Literal1(w)

\* The escape of a brace needs a brace that opens in the string, and no backslash.
Garbled(w) == Range(w) \cap Braces # {} /\ (Backslash \in Range(w) \/ Char("{") \notin Range(w))
Texts == {AsRead(w) : w \in {w \in StringsOf(3) : ~Garbled(w)}}
Mixed == {<<"interp", <<Literal1(w), e, e>>>> : w \in [1 .. 1 -> Chars], e \in {Less, CallOf("f", <<u, v>>)}}
StringTrees == {InFunction(e) : e \in Texts \cup Mixed}

-----------------------------------------------------------------------------
(* Two files. *)

Library == <<<<"import", <<"os">>>>, <<"constant", "k", Num(1)>>, LetTo("w", Num(2)),
             Fun("f", <<"a">>, <<<<"return", Name("a")>>>>, FALSE),
             Fun("h", <<"a">>, <<Do(<<"await", CallOwn("os", "wait", <<Num(1)>>)>>)>>,
                 TRUE)>>
ImportM == <<"import", <<"m">>, <<"m">>>>
ImportAs(a) == <<"import", <<a>>, <<"m">>>>
ImportOuter == <<"import", <<"o">>, <<"o">>>>    \* a file that imports m
FileOf(file, tree) == [file |-> file, tree |-> tree, text |-> Language!Render(tree)]
Files == <<"m">> :> FileOf("m", Library) @@ <<"o">> :> FileOf("o", <<ImportM>>)

FileUses ==
    {Do(CallOwn("m", "f", <<Num(1)>>)), Do(CallOwn("m", "f", <<>>)), Do(CallOwn("m", "k", <<>>)),
     Do(CallOwn("m", "none1", <<>>)), Do(<<"await", CallOwn("m", "h", <<Num(1)>>)>>),
     Do(<<"await", CallOwn("n", "h", <<Num(1)>>)>>), LetTo("x", Own("m", "w")), LetTo("x", Own("m", "zz")),
     LetTo("m", Num(1)), Do(<<"assign", Own("m", "k"), Num(1)>>), Do(CallOwn("os", "wait", <<Num(1)>>)),
     <<"import", <<"os">>>>, <<"import", <<"q">>, <<"q">>>>, ImportM, ImportAs("n"), ImportOuter}
FileTrees == {<<ImportM, s, r>> : s \in FileUses, r \in FileUses} \cup {<<s, r>> : s \in FileUses, r \in FileUses}
FileSources == {Source(Language!Render(t), <<t>>, Files) : t \in FileTrees}

-----------------------------------------------------------------------------
(* Programs with a lexeme dropped, doubled, exchanged with the next, or replaced. *)

Whole ==
    {<<"if", Bin("<", x, Num(1)), <<Do(CallOwn("os", "output", <<Bin("+", x, Num(2))>>))>>,
          <<<<Bin("==", x, Num(2)), <<LetTo("x", <<"neg", x>>)>>>>>>, <<<<LetTo("y", <<"none">>)>>>>>>,
     <<"for", <<"count", "i", Num(1), x, Num(2)>>, <<<<"match", x, <<<<Num(1), <<<<"break">>>>>>>>,
                                                        <<<<<<"continue">>>>>>>>>>>>,
     Fun("g", <<"a", "b">>, <<<<"constant", "y", <<"index", Name("a"), x>>>>,
                              <<"return", <<"tern", Bin("<", x, Num(1)), Name("y"), Name("b")>>>>>>, FALSE),
     Fun("h", <<>>, <<Do(<<"await", CallOwn("os", "wait", <<x>>)>>)>>, TRUE)}
Bases == {Language!Render(<<<<"import", <<"os">>>>, LetTo("x", Num(1)), w>>) : w \in Whole}

Replacements == {<<"newline">>, <<"space", 4>>} \cup
    {<<"token", Token(k)>> : k \in {"(", ")", ",", "=", "-", "function", "constant", "else", "if", "return"}}
      \cup {<<"token", Name("x")>>, <<"token", Num(0)>>}
Without(s, i) == SubSeq(s, 1, i - 1) \o SubSeq(s, i + 1, Len(s))
Garbles(s) ==
    UNION {{Without(s, i), SubSeq(s, 1, i) \o SubSeq(s, i, Len(s))}
             \cup {[s EXCEPT ![i] = r] : r \in Replacements}
             \cup (IF i = Len(s) THEN {} ELSE {[s EXCEPT ![i] = s[i + 1], ![i + 1] = s[i]]}) : i \in DOMAIN s}
GarbledSources == {Source(g, <<>>, <<>>) : g \in UNION {Garbles(s) : s \in Bases}}

ExprSources == {FromTree(t) : t \in ExpressionTrees \cup StringTrees \cup {InFunction(e) : e \in Limits}}
MCSources == ExprSources \cup {FromTree(t) : t \in StatementTrees} \cup Layouts \cup FileSources
                 \cup GarbledSources
=============================================================================
