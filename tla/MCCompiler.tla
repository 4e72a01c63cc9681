------------------------------- MODULE MCCompiler -------------------------------
(***************************************************************************)
(* Programs for module Compiler: all that put two statements of the pools  *)
(* below between a first assignment of x and an end, a few that fill the   *)
(* caches, and one program for each flaw.                                  *)
(***************************************************************************)
EXTENDS Compiler

MCGenerator(params, b) == LET done == Function(params, b) IN done

N(k) == <<"num", k>>
V(x) == <<"var", x>>
Op(op, l, r) == <<"bin", op, l, r>>
Decl(x, e) == <<"decl", x, e>>
Set1(x, e) == <<"set", x, e>>
Out(e) == <<"eval", <<"call", "out", <<e>>>>>>
User(args) == <<"call", "user", args>>
When(c, then, else) == <<"if", c, then, else>>
While1(c, s) == <<"while", c, s>>
Return1(e) == <<"return", e>>
p == V("p")  q == V("q")  x == V("x")  y == V("y")  z == V("z")
NoneLit == <<"none">>
True == <<"bool", TRUE>>
False == <<"bool", FALSE>>

MCParams == <<"p", "q">>
MCInputs == {[p |-> Num(1), q |-> Num(2)], [p |-> Num(6), q |-> Num(0)],
             [p |-> None, q |-> Num(3)]}
MCFrames == {Frame(in) : in \in MCInputs}

Starts == {Decl("x", p), Decl("x", Op("+", p, N(1))), Decl("x", N(5))}
Steps == {Decl("y", x), Decl("y", Op("*", p, N(2))),
          Set1("x", Op("+", x, N(1))), Set1("x", p), Set1("x", <<"neg", x>>),
          Set1("x", Op("+", Op("*", p, N(2)), Op("*", p, N(2)))),
          Out(x),
          When(Op("==", p, NoneLit), <<Set1("x", N(7))>>, <<>>),
          When(Op("<", p, q), <<Set1("x", Op("-", x, N(1)))>>, <<Set1("x", N(5))>>),
          When(Op("<", x, N(5)), <<Return1(x)>>, <<>>),
          While1(Op("<", x, q), <<Set1("x", Op("+", x, N(1))), Out(N(5))>>),
          While1(Op("<", p, Op("-", q, x)), <<Out(x), Set1("x", N(9)), <<"break">>>>),
          <<"range", "i", N(1), q, <<Out(V("i")), Set1("x", Op("+", x, V("i")))>>>>,
          <<"range", "i", p, q, <<When(Op("==", x, V("i")), <<<<"continue">>>>, <<>>),
                                  Set1("x", V("i")), Out(N(70000))>>>>,
          Set1("x", User(<<Op("-", x, p)>>)),
          Set1("x", <<"tern", Op("!=", p, NoneLit), Op("+", x, q), N(7)>>),
          When(Op("or", Op(">", x, q), Op("==", p, N(1))), <<Out(x), Set1("x", q)>>, <<Return1(NoneLit)>>),
          While1(Op("<", x, N(5)), <<When(Op("==", x, q), <<<<"break">>>>, <<Out(q)>>),
                                     Set1("x", Op("+", x, N(1)))>>),
          While1(Op("<", x, N(70000)), <<<<"range", "i", N(0), p, <<Out(x), <<"break">>>>>>,
                                         Set1("x", Op("+", Op("*", x, N(20)), N(20000)))>>)}
WithY == {Set1("x", Op("*", y, x)), Out(Op("*", p, N(2))),
          Set1("x", <<"tern", Op("<", x, y), y, N(5)>>),
          When(Op("and", Op("<", x, y), Op("!=", q, N(2))), <<Out(y)>>, <<>>)}
Ends == {Return1(x), Return1(Op("-", x, p)), Return1(User(<<N(5), x>>)), Return1(Op("==", x, N(7))),
         Out(x)}

DeclaresY(s) == s[1] = "decl" /\ s[2] = "y"
\* more numbers than the cache holds, and a product of a variable that changes
Fillers == {<<Decl("x", p), Out(N(1)), Out(N(2)), Out(N(3)), Out(N(2)), Out(N(3)), Return1(x)>>,
            <<Decl("x", p), Decl("y", Op("*", x, N(3))), Set1("x", q),
              Return1(Op("-", y, Op("*", x, N(3))))>>,
            <<Decl("x", p), Decl("y", Op("*", x, N(3))), Set1("y", User(<<y>>)),
              Decl("z", Op("*", x, N(3))), Return1(Op("-", y, z))>>}

MCPrograms ==
    Fillers \cup {prog \in {<<d, a, b, e>> : d \in Starts, a \in Steps, b \in Steps \cup WithY, e \in Ends} :
        DeclaresY(prog[2]) # (prog[3] \in Steps)}

Count1(v) == Set1(v, Op("+", V(v), N(1)))
MCWitnesses ==
    [moveThenWrite |-> <<Decl("x", p), Count1("x"), Return1(Op("+", x, p))>>,
     loopHead |-> <<Decl("x", p),
                    While1(Op("<", Op("+", x, N(1)), N(5)), <<Set1("x", Op("+", x, N(2)))>>),
                    Return1(Op("+", x, p))>>,
     staleNumber |-> <<Return1(User(<<N(1), N(1)>>))>>,
     undoneResult |-> <<Decl("t", p), Set1("p", N(3)), Set1("t", q), Set1("q", Op("+", V("t"), N(5))),
                        Set1("q", Op("-", q, N(5))), Decl("y", Op("+", V("t"), N(5))), Out(V("t")),
                        Return1(Op("+", Op("+", y, q), V("t")))>>,
     jumpIntoNop |-> <<Decl("x", Op("+", p, N(1))),
                       When(Op("<", p, q), <<Set1("x", <<"neg", x>>), Set1("x", <<"neg", x>>)>>,
                            <<Set1("x", Op("+", p, N(2)))>>),
                       Return1(x)>>,
     deadOverJump |-> <<Decl("x", N(5)), When(Op("==", p, NoneLit), <<Set1("x", N(7))>>, <<>>),
                        Return1(x)>>,
     sharedHome |-> <<Decl("x", Op("+", p, N(1))), Decl("y", x), Decl("z", Op("+", p, N(2))),
                      Return1(Op("*", y, z))>>,
     destReadByRight |-> <<Decl("x", Op("==", p, N(1))),
                           Set1("x", Op("or", Op("==", q, N(5)), Op("==", x, True))), Return1(x)>>,
     loopConst |-> <<Decl("x", N(5)), Decl("y", Op("+", p, N(1))),
                     While1(Op("<", y, q), <<Set1("x", N(7)), Count1("y")>>), Return1(x)>>,
     loopNumber |-> <<Decl("x", Op("+", p, N(1))), Decl("z", Op("+", p, N(2))), Decl("y", Op("+", p, N(0))),
                      While1(Op("<=", y, q), <<When(Op("==", x, z), <<Out(N(3))>>, <<>>),
                                               Set1("x", NoneLit), Set1("z", NoneLit), Count1("y")>>),
                      Return1(p)>>,
     deadLoop |-> <<Decl("z", N(1)),
                    <<"range", "i", N(1), q,
                      <<<<"range", "j", N(1), p,
                          <<While1(Op(">", z, N(2)), <<Out(p)>>), Out(p), <<"break">>>>>>,
                        Out(V("i"))>>>>, Return1(p)>>,
     breakLost |-> <<Decl("x", p),
                     While1(Op("<", x, N(5)), <<When(Op("==", x, N(100)), <<<<"break">>>>, <<>>),
                                                When(Op("==", x, N(101)), <<<<"break">>>>, <<>>),
                                                When(Op("==", x, q), <<<<"break">>>>, <<>>),
                                                Count1("x")>>),
                     Return1(Op("+", x, p))>>,
     lostValue |-> <<Decl("y", p), While1(Op(">", q, N(3)), <<Set1("q", Op("-", q, N(1)))>>),
                     Return1(Op("+", Op("+", y, p), q))>>,
     cachedLabel |-> <<Decl("x", p),
                       While1(Op("<", x, N(5)), <<When(Op("==", x, q), <<<<"break">>>>, <<Out(q)>>),
                                                  Count1("x")>>),
                       Out(x), Return1(x)>>,
     noneLabel |-> <<Decl("x", p), When(Op("==", x, NoneLit), <<Set1("x", q)>>, <<>>), Return1(x)>>,
     noneAsZero |-> <<When(Op("<", p, q), <<Return1(User(<<p>>))>>, <<>>), Out(q)>>,
     misjudged |-> <<Decl("x", NoneLit),
                     While1(Op("<=", p, q), <<When(Op("==", q, N(1)), <<Return1(x)>>, <<>>), Set1("x", N(5)),
                                             Set1("q", Op("-", q, N(1)))>>)>>,
     guess |-> <<Decl("x", NoneLit), While1(Op("<", p, q), <<Set1("q", Op("-", q, N(1)))>>),
                 When(Op("==", x, N(5)), <<Return1(N(1))>>, <<>>), Return1(N(2))>>,
     fallsOffEnd |-> <<Decl("x", Op("+", p, N(1))), When(Op("<", p, q), <<Return1(x)>>, <<>>)>>]
===============================================================================
