-------------------------------- MODULE Meaning --------------------------------
(***************************************************************************)
(* What a function of the language means, apart from any code for it: an   *)
(* evaluator over the syntax of module Codegen.  It is what the code the   *)
(* compiler emits is measured against.                                     *)
(*                                                                         *)
(* A run is a record                                                       *)
(*   env    name -> value                                                  *)
(*   out    what the world has seen: the arguments of calls, in order      *)
(*   sig    "" while running, else "break", "continue" or "return"         *)
(*   value  the value returned                                             *)
(*   odd    an operator met a value it is not made for: arithmetic or an   *)
(*          order on something that is no number, != false on something    *)
(*          that is no boolean.  There the interpreter's own instructions  *)
(*          do not agree with each other (README, section 6)               *)
(*   fuel   loop iterations left; at 0 the run is given up                 *)
(***************************************************************************)
EXTENDS Bytecode, SequencesExt

Begin(env, fuel) == [env |-> env, out |-> <<>>, sig |-> "", value |-> None,
                     odd |-> FALSE, fuel |-> fuel]

Operate(op, v, w) ==
    CASE op = "+" -> Arith("ADD", v, w)
      [] op = "-" -> Arith("SUB", v, w)
      [] op = "*" -> Arith("MUL", v, w)
      [] op = "==" -> Bool(v = w)
      [] op = "!=" -> Bool(v # w)
      [] op = "<"  -> Bool(Holds("LT", v, w))  [] op = ">"  -> Bool(Holds("GT", v, w))
      [] op = "<=" -> Bool(Holds("LTE", v, w)) [] op = ">=" -> Bool(Holds("GTE", v, w))

Odd(op, v, w) == CASE op = "==" -> FALSE
                   [] op = "!=" -> v # w /\ Bool(FALSE) \in {v, w} /\ Bool(TRUE) \notin {v, w}
                   [] OTHER -> ~(IsNum(v) /\ IsNum(w))

Strange(m, bad) == [m EXCEPT !.odd = @ \/ bad]

RECURSIVE Value(_, _)                                  \* [v, m]: the value, and the run after it
Values(args, m) ==
    FoldLeft(LAMBDA acc, e : LET r == Value(e, acc.m)
                             IN  [vs |-> Append(acc.vs, r.v), m |-> r.m],
             [vs |-> <<>>, m |-> m], args)

Value(e, m) ==
    CASE e[1] = "num"  -> [v |-> Num(e[2]), m |-> m]
      [] e[1] = "bool" -> [v |-> Bool(e[2]), m |-> m]
      [] e[1] = "none" -> [v |-> None, m |-> m]
      [] e[1] = "var"  -> [v |-> m.env[e[2]], m |-> m]
      [] e[1] = "neg"  -> LET r == Value(e[2], m)
                          IN  [v |-> Arith("SUB", Num(0), r.v), m |-> Strange(r.m, ~IsNum(r.v))]
      [] e[1] = "tern" -> LET c == Value(e[2], m)
                          IN  Value(IF Truthy(c.v) THEN e[3] ELSE e[4], c.m)
      [] e[1] = "call" -> LET a == Values(e[3], m)
                          IN  [v |-> IF e[2] = "out" THEN None ELSE CallResult(a.vs),
                               m |-> [a.m EXCEPT !.out = Append(@,
                                        <<IF e[2] = "out" THEN "out" ELSE "call", a.vs>>)]]
      [] e[1] = "bin" /\ e[2] = "and" -> LET l == Value(e[3], m)
                                         IN  IF Truthy(l.v) THEN Value(e[4], l.m) ELSE l
      [] e[1] = "bin" /\ e[2] = "or"  -> LET l == Value(e[3], m)
                                         IN  IF l.v = Bool(FALSE) THEN Value(e[4], l.m) ELSE l
      [] OTHER -> LET l == Value(e[3], m)
                      r == Value(e[4], l.m)
                  IN  [v |-> Operate(e[2], l.v, r.v), m |-> Strange(r.m, Odd(e[2], l.v, r.v))]

RECURSIVE Do(_, _)
DoAll(body, m) == FoldLeft(LAMBDA n, s : IF n.sig = "" THEN Do(s, n) ELSE n, m, body)

\* after one pass through the body of a loop: does it go on?
Passed(m) == [m EXCEPT !.sig = IF @ \in {"break", "continue"} THEN "" ELSE @]

RECURSIVE Again(_, _, _)
Again(c, body, m) ==
    LET test == Value(c, m)
        once == DoAll(body, [test.m EXCEPT !.fuel = @ - 1])
    IN  IF m.fuel = 0 \/ ~Truthy(test.v) THEN test.m
        ELSE IF once.sig \in {"break", "return"} THEN Passed(once)
        ELSE Again(c, body, Passed(once))

RECURSIVE CountTo(_, _, _, _, _)
CountTo(x, n, last, body, m) ==
    LET once == DoAll(body, [m EXCEPT !.env[x] = Num(n), !.fuel = @ - 1])
    IN  IF m.fuel = 0 \/ n > last THEN m
        ELSE IF once.sig \in {"break", "return"} THEN Passed(once)
        ELSE CountTo(x, n + 1, last, body, Passed(once))

Do(s, m) ==
    CASE s[1] \in {"decl", "set"} -> LET r == Value(s[3], m) IN [r.m EXCEPT !.env[s[2]] = r.v]
      [] s[1] = "eval"  -> Value(s[2], m).m
      [] s[1] = "if"    -> LET c == Value(s[2], m)
                           IN  DoAll(IF Truthy(c.v) THEN s[3] ELSE s[4], c.m)
      [] s[1] = "while" -> Again(s[2], s[3], m)
      [] s[1] = "range" -> LET from == Value(s[3], m)
                               to == Value(s[4], from.m)
                               start == [to.m EXCEPT !.env[s[2]] = from.v]
                           IN  IF IsNum(from.v) /\ IsNum(to.v)
                               THEN CountTo(s[2], from.v[2], to.v[2], s[5], start)
                               ELSE Strange(start, TRUE)
      [] s[1] \in {"break", "continue"} -> [m EXCEPT !.sig = s[1]]
      [] s[1] = "return" -> LET r == IF Len(s) = 2 THEN Value(s[2], m) ELSE [v |-> None, m |-> m]
                            IN  [r.m EXCEPT !.sig = "return", !.value = r.v]

\* The whole function.  A run given up, or an odd one, says nothing.
Shown(m) == [defined |-> m.fuel > 0 /\ ~m.odd,
             seen |-> [out |-> m.out, end |-> "returned", value |-> m.value]]
Result(body, env, fuel) == Shown(DoAll(body, Begin(env, fuel)))
===============================================================================
