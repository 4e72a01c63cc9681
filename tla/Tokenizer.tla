------------------------------- MODULE Tokenizer -------------------------------
(***************************************************************************)
(* From the text of a program to its tokens (core/tokenizer.c).  The text  *)
(* is a sequence of lexemes:                                               *)
(*   <<"space", n>>    n columns of blanks          <<"newline">>          *)
(*   <<"comment">>     // to the end of the line    <<"shebang">>          *)
(*   <<"char", c>>     a character of no token                             *)
(*   <<"quoted", raw>> a string literal, raw the lexemes in the quotes     *)
(*   <<"token", t>>    any other token                                     *)
(* Where one lexeme ends and the next begins, and the digits of a number,  *)
(* are left out.  What the module is about is the layout, which becomes    *)
(* INDENT and DEDENT, and the escapes in a string.                         *)
(*                                                                         *)
(* A token is a pair of its kind and the value of a name, a number or a    *)
(* string; keywords, operators and layout are their own kind and value.    *)
(***************************************************************************)
EXTENDS Integers, Sequences, SequencesExt

CONSTANTS MaxNesting  \* MAX_NESTING_DEPTH: 16

Token(t) == <<t, t>>
Char(c) == <<"char", c>>

-----------------------------------------------------------------------------
(* The characters of a string literal. *)

Backslash == Char("bs")
Braces == {Char("{"), Char("}")}
Octal == Char("7")

\* What an escape stands for.
Escapes == Char("n") :> Char("newline") @@ Char("q") :> Char("q") @@ Backslash :> Backslash

\* read_string: the value, and whether no error was reported. An escaped brace keeps
\* its backslash, for parse_string to see. Lexemes other than characters stand for the
\* text of an interpolation.
RECURSIVE ReadString(_)
ReadString(raw) ==
    LET From(k) == ReadString(SubSeq(raw, k, Len(raw)))
        Put(cs, r) == [r EXCEPT !.v = cs \o @]
        digits == CHOOSE k \in 1 .. 3 :
                      /\ \A j \in 1 .. k : j < Len(raw) /\ raw[j + 1] = Octal
                      /\ k = 3 \/ k + 2 > Len(raw) \/ raw[k + 2] # Octal
    IN  CASE raw = <<>>          -> [v |-> <<>>, ok |-> TRUE]
          [] raw[1] # Backslash  -> Put(<<raw[1]>>, From(2))
          [] Len(raw) = 1        -> [v |-> <<>>, ok |-> FALSE]
          [] raw[2] \in Braces          -> Put(SubSeq(raw, 1, 2), From(3))
          [] raw[2] \in DOMAIN Escapes  -> Put(<<Escapes[raw[2]]>>, From(3))
          [] raw[2] = Octal             -> Put(<<Char("octal")>>, From(digits + 2))
          [] OTHER                      -> [From(3) EXCEPT !.ok = FALSE]

-----------------------------------------------------------------------------
(* The main loop. A scanner is a record: text, at (the next lexeme), toks, *)
(* stack (the indentations open), parens, ok (no error so far).            *)

Blank(x) == x[1] = "space"
Skipped(x) == x[1] \in {"space", "newline", "comment"}

\* The first lexeme from position i on that is not one of those.
After(text, i, Is(_)) ==
    CHOOSE j \in i .. Len(text) + 1 : /\ \A k \in i .. j - 1 : Is(text[k])
                                      /\ j > Len(text) \/ ~Is(text[j])

\* The columns before lexeme j on its line.
Column(text, j) ==
    LET start == CHOOSE i \in 1 .. j : /\ i = 1 \/ text[i - 1][1] = "newline"
                                       /\ \A k \in i .. j - 1 : text[k][1] # "newline"
    IN  FoldLeft(LAMBDA n, x : n + (IF Blank(x) THEN x[2] ELSE 0), 0, SubSeq(text, start, j - 1))

Emit(s, t) == [s EXCEPT !.toks = Append(@, Token(t))]
Top(s) == s.stack[Len(s.stack)]
Pop(s) == [Emit(s, "dedent") EXCEPT !.stack = Front(@)]

RECURSIVE Dedents(_, _)
Dedents(s, indent) ==
    IF Len(s.stack) > 1 /\ indent < Top(s) THEN Dedents(Pop(s), indent) ELSE s

\* What a newline makes of the indentation of the next line that has a token. One that
\* is no multiple of four is reported when it is an increase only.
Indentation(s, indent) ==
    IF s.parens > 0 THEN s
    ELSE IF indent > Top(s)
         THEN LET t == Emit(s, "indent")
              IN  [t EXCEPT !.stack = Append(@, indent),
                            !.ok = @ /\ indent = Top(s) + 4 /\ Len(s.stack) <= MaxNesting]
    ELSE Dedents(s, indent)

\* A newline, the blank lines and comment lines after it, and the next indentation.
NewLine(s) ==
    LET next == After(s.text, s.at, Skipped)
        newlines == SelectSeq(SubSeq(s.text, s.at, next - 1), LAMBDA x : x[1] = "newline")
        r == [s EXCEPT !.toks = @ \o [i \in DOMAIN newlines |-> Token("newline")], !.at = next]
    IN  Indentation(r, IF next > Len(s.text) THEN 0 ELSE Column(s.text, next))

\* One token, or nothing.
Lexeme(s) ==
    LET x == s.text[s.at]
        next == [s EXCEPT !.at = @ + 1]
    IN  CASE Blank(x) \/ x[1] = "comment" -> next
          [] x[1] = "newline" -> NewLine(s)
          [] x[1] = "shebang" -> [next EXCEPT !.ok = @ /\ s.at = 1]
          [] x[1] = "char"    -> [next EXCEPT !.ok = FALSE]
          [] x[1] = "quoted"  -> LET r == ReadString(x[2])
                                 IN  [next EXCEPT !.ok = @ /\ r.ok,
                                                  !.toks = Append(@, <<"string", r.v>>)]
          [] x[1] = "token"   ->
               [next EXCEPT !.toks = Append(@, x[2]),
                            !.parens = CASE x[2][1] \in {"(", "["} -> @ + 1
                                         [] x[2][1] \in {")", "]"} /\ @ > 0 -> @ - 1
                                         [] OTHER -> @]

\* The end of the source: close every block, end the last line.
Finish(s) ==
    LET t == Dedents(s, -1)
        n == IF t.toks = <<>> \/ Last(t.toks)[1] # "newline" THEN Emit(t, "newline") ELSE t
    IN  Emit(n, "eof")

RECURSIVE Scan(_)
Scan(s) == IF s.at > Len(s.text) THEN Finish(s) ELSE Scan(Lexeme(s))

\* tokenizer_create and tokenizer_tokenize: [toks, ok].
Tokenize(text) ==
    LET s == Scan([text |-> text, at |-> 1, toks |-> <<>>, stack |-> <<0>>, parens |-> 0,
                   ok |-> TRUE])
    IN  [toks |-> s.toks, ok |-> s.ok]
=============================================================================
