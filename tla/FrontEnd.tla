-------------------------------- MODULE FrontEnd --------------------------------
(***************************************************************************)
(* A program from its text to the syntax tree that is compiled, or to its  *)
(* refusal (utils/execute.c, core/tokenizer.c, core/parser.c), against the *)
(* grammar and the rules of the language (modules Grammar and Rules).      *)
(***************************************************************************)
EXTENDS Parser

CONSTANTS Sources   \* what may be compiled: see Source

\* A source has a text, the files it may import, and the tree that it is the text of,
\* or <<>> for a text that was not made from a tree.
Source(text, trees, files) == [text |-> text, trees |-> trees, files |-> files]

VARIABLES source,   \* the program compiled
          phase,    \* "text", "tokens", "parsing", "accepted", "refused"
          parser,   \* the parser, once there are tokens
          body,     \* the statements parsed
          prev      \* prev_pos of parse_program

vars == <<source, phase, parser, body, prev>>

Language == INSTANCE Rules

Idle == NewParser(<<>>, {}, <<>>, <<>>)

Init == /\ source \in Sources
        /\ phase = "text" /\ parser = Idle /\ body = <<>> /\ prev = 0

\* tokenizer_create, tokenizer_tokenize, parser_create: an error of the tokenizer ends it.
Lex ==
    LET t == Tokenize(source.text)
    IN  /\ phase = "text"
        /\ phase' = IF t.ok THEN "tokens" ELSE "refused"
        /\ parser' = NewParser(t.toks, {"main"}, source.files, <<>>)
        /\ UNCHANGED <<source, body, prev>>

\* parse_program up to its loop.
Prescanned ==
    /\ phase = "tokens"
    /\ phase' = "parsing"
    /\ parser' = Begin(parser)
    /\ UNCHANGED <<source, body, prev>>

Ended == At(parser, {"eof"}) \/ parser.pos = prev

\* One turn of the loop of parse_program.
ParseOne ==
    /\ phase = "parsing" /\ ~Ended
    /\ \E r \in {Statement(parser)} :
          /\ parser' = SkipNewlines(r.p)
          /\ body' = IF r.n = Nothing THEN body ELSE Append(body, r.n)
    /\ prev' = parser.pos
    /\ UNCHANGED <<source, phase>>

\* parser_had_errors: only a program without errors is compiled.
End ==
    /\ phase = "parsing" /\ Ended
    /\ phase' = IF parser.errs = {} THEN "accepted" ELSE "refused"
    /\ UNCHANGED <<source, parser, body, prev>>

Next == Lex \/ Prescanned \/ ParseOne \/ End

Spec == Init /\ [][Next]_vars

-----------------------------------------------------------------------------
(* Properties. *)

Over == phase \in {"accepted", "refused"}
Accepted == phase = "accepted"
HasTree == source.trees # <<>>

\* The parser leaves every statement, good or bad, with the counters it had before:
\* scope, loop, function, async and top-level depth, and the depths of expressions.
FrontEndTypeOK ==
    /\ phase \in {"text", "tokens", "parsing", "accepted", "refused"}
    /\ parser.pos \in 1 .. Len(parser.toks) + 1 /\ prev <= parser.pos
    /\ phase \in {"parsing", "accepted"} =>
          /\ parser.scope = 0 /\ parser.loops = 0 /\ parser.funs = 0 /\ parser.async = 0
          /\ parser.top = 1 /\ parser.depth = 0 /\ ~parser.pending
          /\ \A i \in DOMAIN parser.syms : parser.syms[i].scope = 0

\* Rules that the documents state and the parser does not keep.
Unkept == {"again", "early", "loneElse", "loopOutside", "undefinedTarget", "noMember", "inString",
           "theirConstant", "undefinedObject", "missing"}

\* The parser accepts a program that is written from a tree exactly if the tree keeps the
\* rules of the language, but for those of Unkept; and when it accepts a text that is not,
\* what it has read keeps them.
JudgesRight ==
    Over =>
        IF HasTree
        THEN Accepted <=> Language!Broken(source.trees[1], source.files, "main") \subseteq Unkept
        ELSE Accepted /\ parser.skipped = {} =>
                 Language!Broken(body, source.files, "main") \subseteq Unkept

Stripped(s) == IF s[1] \in {"import", "module"} THEN <<"import", s[2]>> ELSE s
Strip(b) == [i \in DOMAIN b |-> Stripped(b[i])]
Kept(toks) == SelectSeq([i \in DOMAIN toks |-> IF toks[i][1] = "string" THEN <<"string">> ELSE toks[i]],
                        LAMBDA t : t[1] \notin {"(", ")", ",", "newline"})

\* What is accepted is read as it is written: the text of a tree is read as the tree, and
\* of any other text nothing is without a part in what is read, whose text has the same
\* tokens, but for parentheses, commas and line breaks. The parser's own exceptions are
\* counted in skipped: a line indented for no reason, what follows the expression in an
\* interpolation, the value of a constant that is no expression, an operator at the end
\* of a line.
ReadsAsWritten ==
    Accepted =>
        IF HasTree THEN Strip(body) = Strip(source.trees[1])
        ELSE parser.skipped = {} =>
                 Kept(Tokenize(Language!Render(body)).toks) = Kept(parser.toks)
=============================================================================
