------------------------------ MODULE AwaitSyntax ------------------------------
(***************************************************************************)
(* How the parser decides where `await` may stand and what it may be       *)
(* applied to (core/parser.c). The parser meets function declarations,     *)
(* nested in one another, and await expressions; it keeps two counters and *)
(* a flag. The stack of open declarations, which the parser does not keep, *)
(* says what the program means.                                            *)
(***************************************************************************)
EXTENDS Integers, Sequences

CONSTANTS MaxNest,   \* bound on nested declarations
          MaxAsync   \* bound on async_depth

ASSUME NestAssumption == MaxNest \in Nat /\ MaxAsync \in Nat

VARIABLES
  async_depth, top_level_depth, pending_async,
  open,   \* the declarations being parsed, innermost last
  flat,   \* no declaration has been nested in another so far
  last    \* verdict on the last await

vars == <<async_depth, top_level_depth, pending_async, open, flat, last>>

\* A function: declared async or not, and marked async in the symbol table or not.
Function == [async : BOOLEAN, marked : BOOLEAN]

\* A declaration being parsed; counted: the flag was set when its body began;
\* inner: functions declared in it so far.
Declaration == [async : BOOLEAN, counted : BOOLEAN, inner : SUBSET Function]

\* Whether an await stands where the language allows it, and whether the parser
\* accepts that; the same for what it is applied to; ahead: that is declared later.
Verdict == [placeLegal : BOOLEAN, placeOk : BOOLEAN, callLegal : BOOLEAN, callOk : BOOLEAN,
            ahead : BOOLEAN]

TypeOK ==
  /\ async_depth \in 0 .. MaxAsync
  /\ top_level_depth \in Int
  /\ pending_async \in BOOLEAN
  /\ open \in Seq(Declaration)
  /\ flat \in BOOLEAN
  /\ last \in Verdict

Init ==
  /\ async_depth = 0 /\ top_level_depth = 1 /\ pending_async = FALSE
  /\ open = <<>> /\ flat = TRUE
  /\ last = [placeLegal |-> TRUE, placeOk |-> TRUE, callLegal |-> TRUE, callOk |-> TRUE,
             ahead |-> FALSE]

Innermost == open[Len(open)]

\* The function joins the scope it is declared in; its own body opens.
Nested(async, pending) ==
  LET f == [async |-> async, marked |-> pending]
      d == [async |-> async, counted |-> pending, inner |-> {}]
  IN  IF open = <<>> THEN <<d>>
      ELSE Append([open EXCEPT ![Len(open)].inner = @ \cup {f}], d)

\* parse_function up to the body.
Enter(async, pending) ==
  /\ Len(open) < MaxNest /\ async_depth < MaxAsync
  /\ open' = Nested(async, pending) /\ flat' = (flat /\ open = <<>>)
  /\ top_level_depth' = top_level_depth - 1
  /\ async_depth' = IF pending THEN async_depth + 1 ELSE async_depth
  /\ UNCHANGED last

\* `async function`: TOKEN_ASYNC sets the flag first.
EnterAsync ==
  /\ pending_async' = TRUE
  /\ Enter(TRUE, TRUE)

\* `function`: the flag keeps whatever value it has.
EnterPlain ==
  /\ Enter(FALSE, pending_async)
  /\ UNCHANGED pending_async

\* Mutant of Leave: every function leaves an async context.
LeaveAlways ==
  /\ open # <<>>
  /\ open' = SubSeq(open, 1, Len(open) - 1)
  /\ top_level_depth' = top_level_depth + 1
  /\ async_depth' = async_depth - 1
  /\ pending_async' = IF Innermost.async THEN FALSE ELSE pending_async
  /\ UNCHANGED <<flat, last>>

\* Mutant of Leave: TOKEN_ASYNC does not clear the flag.
LeaveKeepsPending ==
  /\ open # <<>>
  /\ open' = SubSeq(open, 1, Len(open) - 1)
  /\ top_level_depth' = top_level_depth + 1
  /\ async_depth' = IF pending_async THEN async_depth - 1 ELSE async_depth
  /\ UNCHANGED <<pending_async, flat, last>>

\* Mutant of Leave: the whole async context is left with one function.
LeaveAll ==
  /\ open # <<>>
  /\ open' = SubSeq(open, 1, Len(open) - 1)
  /\ top_level_depth' = top_level_depth + 1
  /\ async_depth' = 0
  /\ pending_async' = IF Innermost.async THEN FALSE ELSE pending_async
  /\ UNCHANGED <<flat, last>>

\* The end of parse_function, and of TOKEN_ASYNC for an async function.
Leave ==
  /\ open # <<>>
  /\ open' = SubSeq(open, 1, Len(open) - 1)
  /\ top_level_depth' = top_level_depth + 1
  /\ async_depth' = IF pending_async THEN async_depth - 1 ELSE async_depth
  /\ pending_async' = IF Innermost.async THEN FALSE ELSE pending_async
  /\ UNCHANGED <<flat, last>>

\* The functions an await may name: those declared so far at the top level and the
\* builtins, which are marked rightly, and those declared in the open scopes.
Callable ==
  {f \in Function : f.async = f.marked} \cup UNION {open[i].inner : i \in DOMAIN open}

\* And those the top level declares later: prescan_declarations registers the name,
\* not that it is async.
Ahead == {f \in Function : ~f.marked}

\* TOKEN_AWAIT on a call of f.
Await(f, ahead) ==
  /\ last' = [placeLegal |-> open = <<>> \/ Innermost.async,
              placeOk    |-> ~(async_depth = 0 /\ top_level_depth = 0),
              callLegal  |-> f.async,
              callOk     |-> f.marked,
              ahead      |-> ahead]
  /\ UNCHANGED <<async_depth, top_level_depth, pending_async, open, flat>>

Next == \/ EnterAsync \/ EnterPlain \/ Leave
        \/ \E f \in Callable : Await(f, FALSE)
        \/ \E f \in Ahead : Await(f, TRUE)

Spec == Init /\ [][Next]_vars

-----------------------------------------------------------------------------
(* Properties.                                                              *)

\* An await at the top level or in an async function is never rejected for where it
\* stands, however declarations nest (async_depth and top_level_depth together).
LegalPlaceAccepted == last.placeLegal => last.placeOk

\* While no declaration has been nested in another, places are judged right, and calls
\* too, but that an async function declared later is taken for a plain one.
FlatProgramsJudgedRight ==
  flat => /\ last.placeOk <=> last.placeLegal
          /\ last.callOk => last.callLegal
          /\ last.callLegal => last.callOk \/ last.ahead
=============================================================================
