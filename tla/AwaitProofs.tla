------------------------------ MODULE AwaitProofs ------------------------------
(***************************************************************************)
(* The parser alone, for any nesting: it never rejects an await that       *)
(* stands where the language allows it, and in programs without nested     *)
(* declarations it judges every await rightly, but for functions declared  *)
(* later.                                                                  *)
(*                                                                         *)
(* Parser and code generator, for expressions of any depth: their states   *)
(* stay well typed side by side, and the builtin that an await is applied  *)
(* to is emitted as asynchronous.                                          *)
(***************************************************************************)
EXTENDS Await, FiniteSetTheorems, TLAPS

Counted == {i \in DOMAIN open : open[i].counted}

\* The flag stays set only under a declaration that was counted, and only an async
\* one can be the lowest of a run of counted ones.
NestInv ==
  /\ top_level_depth = 1 - Len(open)
  /\ pending_async => open # <<>> /\ open[Len(open)].counted
  /\ \A i \in DOMAIN open :
       /\ open[i].async => open[i].counted
       /\ open[i].counted /\ ~open[i].async => i > 1 /\ open[i - 1].counted

\* Every counted declaration still holds one unit of async_depth.
DepthInv == async_depth >= Cardinality(Counted)

FlatInv ==
  flat => /\ Len(open) <= 1
          /\ \A i \in DOMAIN open : open[i].inner = {}
          /\ async_depth = IF open # <<>> /\ open[1].async THEN 1 ELSE 0
          /\ pending_async <=> open # <<>> /\ open[1].async

IInv == TypeOK /\ NestInv /\ DepthInv /\ FlatInv /\ LegalPlaceAccepted /\ FlatProgramsJudgedRight

LEMMA OpenFacts ==
  ASSUME open \in Seq(Declaration)
  PROVE  /\ Len(open) \in Nat /\ DOMAIN open = 1 .. Len(open)
         /\ open = <<>> <=> Len(open) = 0
         /\ \A i \in 1 .. Len(open) : open[i] \in Declaration
         /\ IsFiniteSet(Counted) /\ Cardinality(Counted) \in Nat
<1>1. Len(open) \in Nat /\ DOMAIN open = 1 .. Len(open)
      /\ (open = <<>> <=> Len(open) = 0)
      /\ \A i \in 1 .. Len(open) : open[i] \in Declaration
  OBVIOUS
<1>2. IsFiniteSet(1 .. Len(open)) /\ Counted \subseteq 1 .. Len(open)
  BY <1>1, FS_Interval DEF Counted
<1>3. IsFiniteSet(Counted) /\ Cardinality(Counted) \in Nat
  BY <1>2, FS_Subset, FS_CardinalityType
<1> QED
  BY <1>1, <1>3

\* What the stack of declarations looks like after parse_function opened one.
LEMMA EnterShape ==
  ASSUME TypeOK, NEW async \in BOOLEAN, NEW pending \in BOOLEAN, Enter(async, pending)
  PROVE  /\ open' \in Seq(Declaration)
         /\ Len(open') = Len(open) + 1 /\ DOMAIN open' = 1 .. Len(open) + 1
         /\ \A i \in 1 .. Len(open) :
              open'[i].async = open[i].async /\ open'[i].counted = open[i].counted
         /\ open'[Len(open) + 1] = [async |-> async, counted |-> pending, inner |-> {}]
<1> DEFINE f == [async |-> async, marked |-> pending]
           d == [async |-> async, counted |-> pending, inner |-> {}]
           n == Len(open)
           p == [open EXCEPT ![n].inner = @ \cup {f}]
<1>0. open \in Seq(Declaration) /\ n \in Nat /\ DOMAIN open = 1 .. n
      /\ (open = <<>> <=> n = 0) /\ \A i \in 1 .. n : open[i] \in Declaration
  BY OpenFacts DEF TypeOK
<1>1. f \in Function /\ d \in Declaration
  BY DEF Function, Declaration
<1>2. CASE open = <<>>
  <2>1. open' = <<d>> /\ n = 0 /\ n = Len(open)
    BY <1>0, <1>2 DEF Enter, Nested
  <2>2. d = [async |-> async, counted |-> pending, inner |-> {}]
    OBVIOUS
  <2> HIDE DEF d, n
  <2>3. open' \in Seq(Declaration) /\ Len(open') = 1 /\ DOMAIN open' = 1 .. 1 /\ open'[1] = d
    BY <1>1, <2>1
  <2>4. Len(open') = n + 1 /\ DOMAIN open' = 1 .. n + 1 /\ open'[n + 1] = d
    <3>1. n + 1 = 1
      BY <2>1
    <3> QED
      BY <2>3, <3>1
  <2>5. \A i \in 1 .. n : FALSE
    BY <2>1
  <2> QED
    BY <2>1, <2>2, <2>3, <2>4, <2>5
<1>3. CASE open # <<>>
  <2>1. open' = Append(p, d)
    BY <1>3 DEF Enter, Nested
  <2>2. n \in 1 .. n
    BY <1>0, <1>3
  <2>3. [open[n] EXCEPT !.inner = @ \cup {f}] \in Declaration
    BY <1>0, <1>1, <2>2 DEF Declaration
  <2>4. p \in Seq(Declaration) /\ Len(p) = n
    BY <1>0, <2>2, <2>3
  <2>5. \A i \in 1 .. n : p[i].async = open[i].async /\ p[i].counted = open[i].counted
    BY <1>0 DEF Declaration
  <2>6. d = [async |-> async, counted |-> pending, inner |-> {}] /\ n = Len(open)
    OBVIOUS
  <2> HIDE DEF p, d, n
  <2>7. /\ open' \in Seq(Declaration)
        /\ Len(open') = n + 1 /\ DOMAIN open' = 1 .. n + 1
        /\ \A i \in 1 .. n : open'[i] = p[i]
        /\ open'[n + 1] = d
    BY <1>0, <1>1, <2>1, <2>4
  <2> QED
    BY <2>5, <2>6, <2>7
<1> QED
  BY <1>2, <1>3

LEMMA EnterStep ==
  ASSUME IInv, NEW async \in BOOLEAN, NEW pending \in BOOLEAN, Enter(async, pending),
         pending_async' = pending, async => pending,
         pending /\ ~async => pending_async
  PROVE  IInv'
<1> DEFINE n == Len(open)
<1>0. n \in Nat /\ DOMAIN open = 1 .. n /\ (open = <<>> <=> n = 0)
      /\ IsFiniteSet(Counted) /\ Cardinality(Counted) \in Nat
  BY OpenFacts DEF IInv, TypeOK
<1>1. /\ open' \in Seq(Declaration)
      /\ Len(open') = n + 1 /\ DOMAIN open' = 1 .. n + 1
      /\ \A i \in 1 .. n : open'[i].async = open[i].async /\ open'[i].counted = open[i].counted
      /\ open'[n + 1].async = async /\ open'[n + 1].counted = pending /\ open'[n + 1].inner = {}
  <2>1. TypeOK /\ n = Len(open)
    BY DEF IInv
  <2> DEFINE d == [async |-> async, counted |-> pending, inner |-> {}]
  <2>2. d.async = async /\ d.counted = pending /\ d.inner = {}
    OBVIOUS
  <2>3. /\ open' \in Seq(Declaration)
        /\ Len(open') = Len(open) + 1 /\ DOMAIN open' = 1 .. Len(open) + 1
        /\ \A i \in 1 .. Len(open) :
             open'[i].async = open[i].async /\ open'[i].counted = open[i].counted
        /\ open'[Len(open) + 1] = d
    BY <2>1, EnterShape
  <2> HIDE DEF d
  <2> QED
    BY <2>1, <2>2, <2>3
<1>2. /\ top_level_depth' = top_level_depth - 1
      /\ async_depth' = IF pending THEN async_depth + 1 ELSE async_depth
      /\ async_depth < MaxAsync /\ last' = last /\ flat' = (flat /\ open = <<>>)
  BY DEF Enter
<1>3. TypeOK'
  <2>1. async_depth' \in 0 .. MaxAsync
    BY <1>2, NestAssumption DEF IInv, TypeOK
  <2>2. top_level_depth' \in Int /\ pending_async' \in BOOLEAN
    BY <1>2 DEF IInv, TypeOK
  <2>3. flat' \in BOOLEAN /\ last' \in Verdict
    BY <1>2 DEF IInv, TypeOK
  <2> QED
    BY <1>1, <2>1, <2>2, <2>3 DEF TypeOK
<1>4. NestInv'
  <2>1. top_level_depth' = 1 - Len(open')
    BY <1>0, <1>1, <1>2 DEF IInv, NestInv, TypeOK
  <2>2. pending_async' => open' # <<>> /\ open'[Len(open')].counted
    BY <1>0, <1>1
  <2>3. pending /\ ~async => n > 0 /\ open[n].counted
    BY <1>0 DEF IInv, NestInv
  <2>4. \A i \in 1 .. n + 1 :
          /\ open'[i].async => open'[i].counted
          /\ open'[i].counted /\ ~open'[i].async => i > 1 /\ open'[i - 1].counted
    <3> SUFFICES ASSUME NEW i \in 1 .. n + 1
                 PROVE  /\ open'[i].async => open'[i].counted
                        /\ open'[i].counted /\ ~open'[i].async => i > 1 /\ open'[i - 1].counted
      OBVIOUS
    <3>1. CASE i \in 1 .. n
      <4>1. i > 1 => i - 1 \in 1 .. n
        BY <1>0, <3>1
      <4> QED
        BY <1>0, <1>1, <3>1, <4>1 DEF IInv, NestInv
    <3>2. CASE i = n + 1
      BY <1>0, <1>1, <2>3, <3>2
    <3> QED
      BY <1>0, <3>1, <3>2
  <2> QED
    BY <1>1, <2>1, <2>2, <2>4 DEF NestInv
<1>5. DepthInv'
  <2>1. CASE pending
    <3>1. Counted' = Counted \cup {n + 1} /\ n + 1 \notin Counted
      <4> HIDE DEF n
      <4>1. \A i \in 1 .. n + 1 : i \in 1 .. n \/ i = n + 1
        BY <1>0
      <4>2. n + 1 \notin 1 .. n /\ n + 1 \in 1 .. n + 1 /\ 1 .. n \subseteq 1 .. n + 1
        BY <1>0
      <4> QED
        BY <1>0, <1>1, <2>1, <4>1, <4>2 DEF Counted
    <3>2. Cardinality(Counted') = Cardinality(Counted) + 1
      BY <1>0, <3>1, FS_AddElement
    <3> QED
      BY <1>0, <1>2, <2>1, <3>2 DEF IInv, DepthInv, TypeOK
  <2>2. CASE ~pending
    <3>1. Counted' = Counted
      BY <1>0, <1>1, <2>2 DEF Counted
    <3> QED
      BY <1>2, <2>2, <3>1 DEF IInv, DepthInv
  <2> QED
    BY <2>1, <2>2
<1>6. FlatInv'
  <2> SUFFICES ASSUME flat' PROVE FlatInv'
    BY DEF FlatInv
  <2>1. flat /\ open = <<>> /\ n = 0 /\ async_depth = 0 /\ ~pending_async
    BY <1>0, <1>2 DEF IInv, FlatInv
  <2>2. async = pending
    BY <2>1
  <2> QED
    BY <1>0, <1>1, <1>2, <2>1, <2>2 DEF FlatInv
<1>7. LegalPlaceAccepted' /\ FlatProgramsJudgedRight'
  BY <1>2 DEF IInv, LegalPlaceAccepted, FlatProgramsJudgedRight
<1> QED
  BY <1>3, <1>4, <1>5, <1>6, <1>7 DEF IInv

LEMMA LeaveStep ==
  ASSUME IInv, Leave
  PROVE  IInv'
<1> DEFINE n == Len(open)
<1>0. n \in Nat /\ n > 0 /\ DOMAIN open = 1 .. n /\ (open = <<>> <=> n = 0)
      /\ IsFiniteSet(Counted) /\ Cardinality(Counted) \in Nat
  BY OpenFacts DEF IInv, TypeOK, Leave
<1>1. /\ open' \in Seq(Declaration) /\ Len(open') = n - 1 /\ DOMAIN open' = 1 .. n - 1
      /\ \A i \in 1 .. n - 1 : open'[i] = open[i]
  <2>1. open' = SubSeq(open, 1, n - 1) /\ open \in Seq(Declaration)
    BY DEF Leave, IInv, TypeOK
  <2> HIDE DEF n
  <2> QED
    BY <1>0, <2>1 DEF n
<1>2. /\ top_level_depth' = top_level_depth + 1
      /\ async_depth' = IF pending_async THEN async_depth - 1 ELSE async_depth
      /\ pending_async' = IF open[n].async THEN FALSE ELSE pending_async
      /\ flat' = flat /\ last' = last
  BY DEF Leave, Innermost
<1>3. Counted' = Counted \ {n}
  BY <1>0, <1>1 DEF Counted
<1>4. pending_async => n \in Counted
  BY <1>0 DEF IInv, NestInv, Counted
<1>5. DepthInv' /\ async_depth' \in 0 .. MaxAsync
  <2>1. Cardinality(Counted') = IF n \in Counted THEN Cardinality(Counted) - 1
                                ELSE Cardinality(Counted)
    BY <1>0, <1>3, FS_RemoveElement
  <2>2. n \in Counted => Cardinality(Counted) >= 1
    BY <1>0, FS_EmptySet
  <2> QED
    BY <1>0, <1>2, <1>4, <2>1, <2>2, NestAssumption DEF IInv, DepthInv, TypeOK
<1>6. TypeOK'
  <2>1. top_level_depth' \in Int
    BY <1>2 DEF IInv, TypeOK
  <2>2. pending_async' \in BOOLEAN
    BY <1>2, Zenon DEF IInv, TypeOK
  <2>3. flat' \in BOOLEAN /\ last' \in Verdict
    BY <1>2 DEF IInv, TypeOK
  <2> QED
    BY <1>1, <1>5, <2>1, <2>2, <2>3 DEF TypeOK
<1>7. NestInv'
  <2>1. top_level_depth' = 1 - Len(open')
    BY <1>0, <1>1, <1>2 DEF IInv, NestInv, TypeOK
  <2>2. ASSUME pending_async' PROVE n > 1 /\ open[n - 1].counted
    <3>1. ~open[n].async /\ pending_async
      BY <1>2, <2>2
    <3> QED
      BY <1>0, <3>1 DEF IInv, NestInv
  <2>3. pending_async' => open' # <<>> /\ open'[Len(open')].counted
    BY <1>0, <1>1, <2>2
  <2>4. \A i \in 1 .. n - 1 :
          /\ open'[i].async => open'[i].counted
          /\ open'[i].counted /\ ~open'[i].async => i > 1 /\ open'[i - 1].counted
    <3> SUFFICES ASSUME NEW i \in 1 .. n - 1
                 PROVE  /\ open'[i].async => open'[i].counted
                        /\ open'[i].counted /\ ~open'[i].async => i > 1 /\ open'[i - 1].counted
      OBVIOUS
    <3>1. i > 1 => i - 1 \in 1 .. n - 1
      BY <1>0
    <3> QED
      BY <1>0, <1>1, <3>1 DEF IInv, NestInv
  <2> QED
    BY <1>1, <2>1, <2>3, <2>4 DEF NestInv
<1>8. FlatInv'
  <2> SUFFICES ASSUME flat PROVE FlatInv'
    BY <1>2 DEF FlatInv
  <2>1. n = 1 /\ open' = <<>>
    BY <1>0, <1>1 DEF IInv, FlatInv
  <2>2. async_depth' = 0 /\ pending_async' = FALSE
    BY <1>0, <1>2, <2>1 DEF IInv, FlatInv
  <2> QED
    BY <2>1, <2>2 DEF FlatInv
<1>9. LegalPlaceAccepted' /\ FlatProgramsJudgedRight'
  BY <1>2 DEF IInv, LegalPlaceAccepted, FlatProgramsJudgedRight
<1> QED
  BY <1>5, <1>6, <1>7, <1>8, <1>9 DEF IInv

LEMMA AwaitStep ==
  ASSUME IInv, NEW ahead \in BOOLEAN,
         NEW f \in (IF ahead THEN Ahead ELSE Callable), Await(f, ahead)
  PROVE  IInv'
<1> DEFINE n == Len(open)
<1>0. n \in Nat /\ DOMAIN open = 1 .. n /\ (open = <<>> <=> n = 0)
      /\ IsFiniteSet(Counted) /\ Cardinality(Counted) \in Nat
      /\ \A i \in 1 .. n : open[i] \in Declaration
  BY OpenFacts DEF IInv, TypeOK
<1>1. UNCHANGED <<async_depth, top_level_depth, pending_async, open, flat>>
  BY DEF Await
<1>2. f \in Function
  <2>1. Callable \subseteq Function
    BY <1>0 DEF Callable, Function, Declaration
  <2> QED
    BY <2>1 DEF Ahead
<1>3. last' \in Verdict
  <2>1. (open = <<>> \/ open[n].async) \in BOOLEAN
    BY Zenon
  <2> QED
    BY <1>2 DEF Await, Verdict, Function
<1>4. open # <<>> /\ open[n].async => async_depth > 0
  <2> SUFFICES ASSUME open # <<>>, open[n].async PROVE async_depth > 0
    OBVIOUS
  <2>1. n \in Counted
    BY <1>0 DEF IInv, NestInv, Counted
  <2>2. Cardinality(Counted) # 0
    BY <1>0, <2>1, FS_EmptySet
  <2> QED
    BY <1>0, <2>2 DEF IInv, DepthInv, TypeOK
<1>5. last'.placeLegal <=> open = <<>> \/ open[n].async
  BY DEF Await, Innermost
<1>6. last'.placeOk <=> ~(async_depth = 0 /\ top_level_depth = 0)
  BY DEF Await
<1>7. LegalPlaceAccepted'
  <2>1. open = <<>> => top_level_depth = 1
    BY <1>0 DEF IInv, NestInv
  <2> QED
    BY <1>4, <1>5, <1>6, <2>1 DEF LegalPlaceAccepted
<1>8. FlatProgramsJudgedRight'
  <2> SUFFICES ASSUME flat
               PROVE  /\ last'.placeOk <=> last'.placeLegal
                      /\ last'.callOk => last'.callLegal
                      /\ last'.callLegal => last'.callOk \/ last'.ahead
    BY <1>1 DEF FlatProgramsJudgedRight
  <2>1. (ahead /\ ~f.marked) \/ (~ahead /\ f.async = f.marked)
    <3>1. CASE ahead
      BY <3>1 DEF Ahead
    <3>2. CASE ~ahead
      BY <1>0, <3>2 DEF Callable, IInv, FlatInv
    <3> QED
      BY <3>1, <3>2
  <2>2. /\ last'.callOk => last'.callLegal
        /\ last'.callLegal => last'.callOk \/ last'.ahead
    BY <1>2, <2>1 DEF Await, Function
  <2>3. last'.placeOk <=> last'.placeLegal
    BY <1>0, <1>5, <1>6 DEF IInv, FlatInv, NestInv
  <2> QED
    BY <2>2, <2>3
<1>9. NestInv' /\ DepthInv' /\ FlatInv'
  BY <1>1 DEF IInv, NestInv, DepthInv, FlatInv, Counted
<1> QED
  BY <1>1, <1>3, <1>7, <1>8, <1>9 DEF IInv, TypeOK

LEMMA Initially == Init => IInv
<1> SUFFICES ASSUME Init PROVE IInv
  OBVIOUS
<1>1. Counted = {} /\ Cardinality({}) = 0
  BY FS_EmptySet DEF Init, Counted
<1>2. TypeOK
  <2>1. async_depth \in 0 .. MaxAsync /\ top_level_depth \in Int /\ open \in Seq(Declaration)
    BY NestAssumption DEF Init
  <2>2. pending_async \in BOOLEAN /\ flat \in BOOLEAN
    BY Zenon DEF Init
  <2>3. last \in Verdict
    BY DEF Init, Verdict
  <2> QED
    BY <2>1, <2>2, <2>3 DEF TypeOK
<1>3. NestInv /\ DepthInv /\ FlatInv
  BY <1>1 DEF Init, NestInv, DepthInv, FlatInv
<1> QED
  BY <1>2, <1>3 DEF Init, IInv, LegalPlaceAccepted, FlatProgramsJudgedRight

LEMMA Invariant == Spec => []IInv
<1>1. IInv /\ [Next]_vars => IInv'
  <2> SUFFICES ASSUME IInv, [Next]_vars PROVE IInv'
    OBVIOUS
  <2>1. CASE EnterAsync
    BY <2>1, EnterStep DEF EnterAsync
  <2>2. CASE EnterPlain
    BY <2>2, EnterStep DEF EnterPlain, IInv, TypeOK
  <2>3. CASE Leave
    BY <2>3, LeaveStep
  <2>4. CASE \E f \in Callable : Await(f, FALSE)
    BY <2>4, AwaitStep
  <2>6. CASE \E f \in Ahead : Await(f, TRUE)
    BY <2>6, AwaitStep
  <2>5. CASE UNCHANGED vars
    BY <2>5 DEF vars, IInv, TypeOK, NestInv, DepthInv, FlatInv, Counted, LegalPlaceAccepted,
                FlatProgramsJudgedRight
  <2> QED
    BY <2>1, <2>2, <2>3, <2>4, <2>5, <2>6 DEF Next
<1> QED
  BY Initially, <1>1, PTL DEF Spec

\* The parser never rejects an await at the top level or in an async function for where
\* it stands, however deep the nesting.
THEOREM LegalPlaceCorrect == Spec => []LegalPlaceAccepted
  BY Invariant, PTL DEF IInv

\* Without nested declarations every await is judged rightly, but for a function that is
\* declared later.
THEOREM FlatProgramsCorrect == Spec => []FlatProgramsJudgedRight
  BY Invariant, PTL DEF IInv

-------------------------------------------------------------------------------
(* The code generator beside the parser.                                    *)
\* Some await is open below position n.
AwaitBelow(n) == \E j \in DOMAIN nodes : j < n /\ nodes[j].kind = "await"

\* The flag is up under every open await, and each await will leave it up for the
\* awaits around it.
FlagInv ==
  /\ AwaitBelow(Len(nodes) + 1) => current_call_is_awaited
  /\ \A i \in DOMAIN nodes :
       nodes[i].kind = "await" /\ AwaitBelow(i) => nodes[i].saved

GInv == GenTypeOK /\ FlagInv /\ AwaitedIsAsync

LEMMA NodeFacts ==
  ASSUME nodes \in Seq(Node)
  PROVE  /\ Len(nodes) \in Nat /\ DOMAIN nodes = 1 .. Len(nodes)
         /\ nodes = <<>> <=> Len(nodes) = 0
         /\ \A i \in 1 .. Len(nodes) : nodes[i] \in Node
OBVIOUS

\* A node is opened on top of the others.
LEMMA PushShape ==
  ASSUME GenTypeOK, NEW node \in Node, Push(node),
         Inside("await") => ~nodes[Len(nodes)].done,
         node.kind = "await" => ~node.done
  PROVE  /\ nodes' \in Seq(Node) /\ Len(nodes') = Len(nodes) + 1 /\ Len(nodes') <= MaxNodes
         /\ DOMAIN nodes' = 1 .. Len(nodes) + 1
         /\ \A i \in 1 .. Len(nodes) : nodes'[i] = nodes[i]
         /\ nodes'[Len(nodes) + 1] = node
         /\ \A i \in DOMAIN nodes' : nodes'[i].kind = "await" => ~nodes'[i].done
<1>1. nodes \in Seq(Node) /\ Len(nodes) \in Nat /\ DOMAIN nodes = 1 .. Len(nodes)
      /\ (nodes = <<>> <=> Len(nodes) = 0)
  BY NodeFacts DEF GenTypeOK
<1>2. nodes' = Append(nodes, node) /\ Len(nodes) < MaxNodes
  BY DEF Push
<1>3. nodes' \in Seq(Node) /\ Len(nodes') = Len(nodes) + 1
      /\ DOMAIN nodes' = 1 .. Len(nodes) + 1
      /\ (\A i \in 1 .. Len(nodes) : nodes'[i] = nodes[i])
      /\ nodes'[Len(nodes) + 1] = node
  BY <1>1, <1>2
<1>4. Len(nodes') <= MaxNodes
  BY <1>1, <1>2, <1>3, NodesAssumption
<1>5. ASSUME NEW i \in DOMAIN nodes', nodes'[i].kind = "await" PROVE ~nodes'[i].done
  <2>1. CASE i = Len(nodes) + 1
    BY <1>3, <1>5, <2>1
  <2>2. CASE i \in 1 .. Len(nodes)
    <3>1. nodes'[i] = nodes[i] /\ i \in DOMAIN nodes
      BY <1>1, <1>3, <2>2
    <3>2. nodes[i].done => i = Len(nodes)
      BY <1>5, <3>1 DEF GenTypeOK
    <3>3. nodes[i].done => FALSE
      BY <1>1, <1>5, <2>2, <3>1, <3>2 DEF Inside, Kind
    <3> QED
      BY <3>1, <3>3
  <2> QED
    BY <1>1, <1>3, <2>1, <2>2
<1> QED
  BY <1>3, <1>4, <1>5

\* The innermost node is closed.
LEMMA PopShape ==
  ASSUME GenTypeOK, nodes # <<>>
  PROVE  LET rest == SubSeq(nodes, 1, Len(nodes) - 1)
         IN  /\ rest \in Seq(Node) /\ Len(rest) = Len(nodes) - 1
             /\ DOMAIN rest = 1 .. Len(nodes) - 1
             /\ Len(rest) \in Nat /\ Len(rest) <= MaxNodes
             /\ \A i \in DOMAIN rest : rest[i] = nodes[i] /\ i \in DOMAIN nodes
             /\ \A i \in DOMAIN rest : rest[i].kind = "await" => ~rest[i].done
<1> DEFINE rest == SubSeq(nodes, 1, Len(nodes) - 1)
<1>1. nodes \in Seq(Node) /\ Len(nodes) \in Nat /\ DOMAIN nodes = 1 .. Len(nodes)
      /\ Len(nodes) > 0
  BY NodeFacts DEF GenTypeOK
<1>2. rest \in Seq(Node) /\ Len(rest) = Len(nodes) - 1 /\ DOMAIN rest = 1 .. Len(nodes) - 1
      /\ \A i \in 1 .. Len(nodes) - 1 : rest[i] = nodes[i]
  BY <1>1
<1>3. Len(rest) \in Nat /\ Len(rest) <= MaxNodes
  BY <1>1, <1>2, NodesAssumption DEF GenTypeOK
<1>4. \A i \in DOMAIN rest : rest[i] = nodes[i] /\ i \in DOMAIN nodes /\ i # Len(nodes)
  BY <1>1, <1>2
<1>5. \A i \in DOMAIN rest : rest[i].kind = "await" => ~rest[i].done
  BY <1>4 DEF GenTypeOK
<1> HIDE DEF rest
<1> QED
  BY <1>2, <1>3, <1>4, <1>5 DEF rest

LEMMA GenInitInv == GenInit => GInv
<1> SUFFICES ASSUME GenInit PROVE GInv
  OBVIOUS
<1>1. nodes = <<>> /\ nodes \in Seq(Node) /\ Len(nodes) = 0 /\ DOMAIN nodes = {}
  BY DEF GenInit
<1>2. GenTypeOK
  <2>1. current_call_is_awaited \in BOOLEAN
    BY Zenon DEF GenInit
  <2>2. code \in Emitted
    BY DEF GenInit, Emitted
  <2> QED
    BY <1>1, <2>1, <2>2, NodesAssumption DEF GenTypeOK
<1>3. FlagInv /\ AwaitedIsAsync
  BY <1>1 DEF GenInit, FlagInv, AwaitBelow, AwaitedIsAsync
<1> QED
  BY <1>2, <1>3 DEF GInv

LEMMA GenStep == GInv /\ [GenNext]_gen_vars => GInv'
<1> SUFFICES ASSUME GInv, [GenNext]_gen_vars PROVE GInv'
  OBVIOUS
<1>0. GenTypeOK /\ FlagInv /\ AwaitedIsAsync
  BY DEF GInv
<1>n. Len(nodes) \in Nat /\ DOMAIN nodes = 1 .. Len(nodes)
      /\ (nodes = <<>> <=> Len(nodes) = 0)
  BY <1>0, NodeFacts DEF GenTypeOK
<1>1. CASE OpenAwait
  <2> DEFINE node == [kind |-> "await", saved |-> current_call_is_awaited, done |-> FALSE]
  <2>1. node \in Node /\ node.kind = "await" /\ ~node.done
        /\ node.saved = current_call_is_awaited
    BY <1>0 DEF Node, GenTypeOK
  <2>2. Push(node) /\ ~Inside("await") /\ current_call_is_awaited' = TRUE /\ UNCHANGED code
    BY <1>1 DEF OpenAwait, MayStart
  <2> HIDE DEF node
  <2>3. /\ nodes' \in Seq(Node) /\ Len(nodes') = Len(nodes) + 1 /\ Len(nodes') <= MaxNodes
        /\ DOMAIN nodes' = 1 .. Len(nodes) + 1
        /\ \A i \in 1 .. Len(nodes) : nodes'[i] = nodes[i]
        /\ nodes'[Len(nodes) + 1] = node
        /\ \A i \in DOMAIN nodes' : nodes'[i].kind = "await" => ~nodes'[i].done
    BY <1>0, <2>1, <2>2, PushShape
  <2>4. GenTypeOK'
    BY <1>0, <2>2, <2>3 DEF GenTypeOK
  <2>5. ASSUME NEW i \in DOMAIN nodes', nodes'[i].kind = "await", AwaitBelow(i)'
        PROVE  nodes'[i].saved
    <3>1. PICK j \in DOMAIN nodes' : j < i /\ nodes'[j].kind = "await"
      BY <2>5 DEF AwaitBelow
    <3>2. j \in DOMAIN nodes /\ nodes[j].kind = "await" /\ j < Len(nodes) + 1
      BY <1>n, <2>3, <3>1
    <3>3. CASE i = Len(nodes) + 1
      BY <1>0, <2>1, <2>3, <3>2, <3>3 DEF FlagInv, AwaitBelow
    <3>4. CASE i # Len(nodes) + 1
      BY <1>0, <1>n, <2>3, <2>5, <3>1, <3>2, <3>4 DEF FlagInv, AwaitBelow
    <3> QED
      BY <3>3, <3>4
  <2>6. FlagInv'
    BY <2>2, <2>5 DEF FlagInv
  <2> QED
    BY <1>0, <2>2, <2>4, <2>6 DEF GInv, AwaitedIsAsync
<1>2. ASSUME NEW kind \in {"builtin", "function", "operator"}, Push([kind |-> kind]),
             MayStart \/ OperandDue, UNCHANGED <<current_call_is_awaited, code>>
      PROVE  GInv'
  <2> DEFINE node == [kind |-> kind]
  <2>1. node \in Node /\ node.kind # "await"
    BY DEF Node
  <2>2. Push(node) /\ (Inside("await") => ~nodes[Len(nodes)].done)
    BY <1>2 DEF MayStart, OperandDue
  <2> HIDE DEF node
  <2>3. /\ nodes' \in Seq(Node) /\ Len(nodes') = Len(nodes) + 1 /\ Len(nodes') <= MaxNodes
        /\ DOMAIN nodes' = 1 .. Len(nodes) + 1
        /\ \A i \in 1 .. Len(nodes) : nodes'[i] = nodes[i]
        /\ nodes'[Len(nodes) + 1] = node
        /\ \A i \in DOMAIN nodes' : nodes'[i].kind = "await" => ~nodes'[i].done
    BY <1>0, <2>1, <2>2, PushShape
  <2>4. GenTypeOK'
    BY <1>0, <1>2, <2>3 DEF GenTypeOK
  <2>5. ASSUME NEW i \in Nat, AwaitBelow(i)' PROVE AwaitBelow(Len(nodes) + 1) /\ (i <= Len(nodes) + 1 => AwaitBelow(i))
    BY <1>n, <2>1, <2>3, <2>5 DEF AwaitBelow
  <2>6. FlagInv'
    BY <1>0, <1>n, <1>2, <2>1, <2>3, <2>5 DEF FlagInv
  <2> QED
    BY <1>0, <1>2, <2>4, <2>6 DEF GInv, AwaitedIsAsync
<1>3. CASE CloseOther \/ CloseAwait
  <2> DEFINE rest == SubSeq(nodes, 1, Len(nodes) - 1)
             n == Len(nodes)
  <2>1. nodes # <<>> /\ nodes' = rest /\ UNCHANGED code
        /\ (CloseOther => (current_call_is_awaited' <=> current_call_is_awaited))
        /\ (~CloseOther => nodes[n].kind = "await" /\ (current_call_is_awaited' <=> nodes[n].saved))
        /\ current_call_is_awaited' \in BOOLEAN
    <3>1. CASE CloseOther
      BY <1>0, <3>1 DEF CloseOther, Inside, GenTypeOK
    <3>2. CASE CloseAwait /\ ~CloseOther
      <4>1. nodes # <<>> /\ nodes[n].kind = "await"
        BY <3>2 DEF CloseAwait, Inside, Kind
      <4>2. nodes[n] \in Node
        BY <1>0, <1>n, <4>1 DEF GenTypeOK
      <4>3. nodes[n].saved \in BOOLEAN
        BY <4>1, <4>2 DEF Node
      <4> QED
        BY <3>2, <4>1, <4>3 DEF CloseAwait
    <3> QED
      BY <1>3, <3>1, <3>2
  <2>2. /\ rest \in Seq(Node) /\ Len(rest) = Len(nodes) - 1
        /\ DOMAIN rest = 1 .. Len(nodes) - 1
        /\ Len(rest) \in Nat /\ Len(rest) <= MaxNodes
        /\ \A i \in DOMAIN rest : rest[i] = nodes[i] /\ i \in DOMAIN nodes
        /\ \A i \in DOMAIN rest : rest[i].kind = "await" => ~rest[i].done
    BY <1>0, <2>1, PopShape
  <2> HIDE DEF rest
  <2>4. GenTypeOK'
    BY <1>0, <2>1, <2>2 DEF GenTypeOK
  <2>5. ASSUME NEW i \in Nat, AwaitBelow(i)' PROVE AwaitBelow(i) /\ AwaitBelow(n) /\ AwaitBelow(n + 1)
    BY <1>n, <2>1, <2>2, <2>5 DEF AwaitBelow
  <2>6. FlagInv'
    <3>1. Len(nodes') + 1 \in Nat /\ DOMAIN nodes' \subseteq Nat /\ n \in DOMAIN nodes
      BY <1>n, <2>1, <2>2
    <3>2. AwaitBelow(Len(nodes) + 1)' => current_call_is_awaited'
      <4>1. AwaitBelow(Len(nodes) + 1)' => \E i \in Nat : AwaitBelow(i)'
        BY <3>1 DEF AwaitBelow
      <4>2. AwaitBelow(Len(nodes) + 1)' => AwaitBelow(n) /\ AwaitBelow(n + 1)
        BY <2>5, <4>1
      <4>3. AwaitBelow(n + 1) => current_call_is_awaited
        BY <1>0 DEF FlagInv
      <4>4. AwaitBelow(n) /\ nodes[n].kind = "await" => nodes[n].saved
        BY <1>0, <3>1 DEF FlagInv
      <4>5. AwaitBelow(n) /\ AwaitBelow(n + 1) => current_call_is_awaited'
        <5>1. CASE CloseOther
          BY <2>1, <4>3, <5>1
        <5>2. CASE ~CloseOther
          BY <2>1, <4>4, <5>2
        <5> QED
          BY <5>1, <5>2
      <4> QED
        BY <4>2, <4>5
    <3>3. ASSUME NEW i \in DOMAIN nodes', nodes'[i].kind = "await", AwaitBelow(i)'
          PROVE  nodes'[i].saved
      BY <1>0, <2>1, <2>2, <2>5, <3>1, <3>3 DEF FlagInv
    <3> QED
      BY <3>2, <3>3 DEF FlagInv
  <2> QED
    BY <1>0, <2>1, <2>4, <2>6 DEF GInv, AwaitedIsAsync
<1>4. ASSUME NEW kind \in {"builtin", "function"}, Emit(kind) PROVE GInv'
  <2> DEFINE rest == SubSeq(nodes, 1, Len(nodes) - 1)
             n == Len(nodes)
             m == Len(rest)
             direct == rest # <<>> /\ rest[m].kind = "await"
  <2>1. nodes # <<>> /\ nodes[n].kind = kind
        /\ nodes' = (IF direct THEN [rest EXCEPT ![m].done = TRUE] ELSE rest)
        /\ code' = [builtin |-> kind = "builtin", direct |-> direct,
                    async |-> kind = "builtin" /\ current_call_is_awaited]
        /\ current_call_is_awaited' = current_call_is_awaited
    BY <1>4 DEF Emit, Inside, Kind
  <2>2. /\ rest \in Seq(Node) /\ m = n - 1
        /\ DOMAIN rest = 1 .. n - 1
        /\ m \in Nat /\ m <= MaxNodes
        /\ \A i \in DOMAIN rest : rest[i] = nodes[i] /\ i \in DOMAIN nodes
        /\ \A i \in DOMAIN rest : rest[i].kind = "await" => ~rest[i].done
    BY <1>0, <2>1, PopShape
  <2>d. direct \in BOOLEAN /\ (direct => m \in DOMAIN rest /\ rest[m].kind = "await")
    BY <2>2
  <2> HIDE DEF rest, m
  <2>3. /\ nodes' \in Seq(Node) /\ Len(nodes') = m /\ DOMAIN nodes' = DOMAIN rest
        /\ \A i \in DOMAIN rest : nodes'[i].kind = nodes[i].kind
        /\ \A i \in DOMAIN rest : nodes'[i].kind = "await" => nodes'[i].saved = nodes[i].saved
        /\ \A i \in DOMAIN rest : i # m => nodes'[i] = rest[i]
    <3>1. CASE ~direct
      BY <2>1, <2>2, <3>1
    <3>2. CASE direct
      <4> DEFINE top == [rest[m] EXCEPT !.done = TRUE]
      <4>0. m \in DOMAIN rest /\ rest[m].kind = "await" /\ rest[m] \in Node
        BY <2>2, <2>d, <3>2
      <4>1. top \in Node /\ top.kind = "await" /\ top.saved = rest[m].saved
        BY <4>0 DEF Node
      <4>2. nodes' = [rest EXCEPT ![m] = top]
        BY <2>1, <3>2
      <4> HIDE DEF top
      <4>3. nodes' \in Seq(Node) /\ Len(nodes') = m /\ DOMAIN nodes' = DOMAIN rest
            /\ nodes'[m] = top /\ \A i \in DOMAIN rest : i # m => nodes'[i] = rest[i]
        BY <2>2, <4>0, <4>1, <4>2 DEF m
      <4> QED
        BY <2>2, <4>0, <4>1, <4>3
    <3> QED
      BY <3>1, <3>2
  <2>4. GenTypeOK'
    <3>1. code' \in Emitted
      BY <1>0, <2>1, <2>d DEF Emitted, GenTypeOK
    <3>2. \A i \in DOMAIN nodes' : nodes'[i].kind = "await" /\ nodes'[i].done => i = Len(nodes')
      BY <2>2, <2>3
    <3> QED
      BY <1>0, <2>1, <2>2, <2>3, <3>1, <3>2 DEF GenTypeOK
  <2>5. ASSUME NEW i \in Nat, AwaitBelow(i)' PROVE AwaitBelow(i) /\ AwaitBelow(n + 1)
    BY <1>n, <2>2, <2>3, <2>5 DEF AwaitBelow
  <2>6. FlagInv'
    <3>1. Len(nodes') + 1 \in Nat /\ DOMAIN nodes' \subseteq Nat
      BY <2>2, <2>3
    <3>2. AwaitBelow(Len(nodes) + 1)' => current_call_is_awaited'
      <4>1. AwaitBelow(Len(nodes) + 1)' => \E i \in Nat : AwaitBelow(i)'
        BY <3>1 DEF AwaitBelow
      <4> QED
        BY <1>0, <2>1, <2>5, <3>1, <4>1 DEF FlagInv
    <3>3. ASSUME NEW i \in DOMAIN nodes', nodes'[i].kind = "await", AwaitBelow(i)'
          PROVE  nodes'[i].saved
      <4>1. AwaitBelow(i) /\ i \in DOMAIN nodes /\ nodes[i].kind = "await"
            /\ nodes'[i].saved = nodes[i].saved
        BY <2>2, <2>3, <2>5, <3>1, <3>3
      <4> QED
        BY <1>0, <4>1 DEF FlagInv
    <3> QED
      BY <3>2, <3>3 DEF FlagInv
  <2>7. AwaitedIsAsync'
    <3>1. code'.builtin = (kind = "builtin") /\ code'.direct = direct
          /\ code'.async = (kind = "builtin" /\ current_call_is_awaited)
      BY <2>1
    <3>2. direct => AwaitBelow(n + 1)
      BY <1>n, <2>2, <2>d DEF AwaitBelow
    <3>3. direct => current_call_is_awaited
      BY <1>0, <3>2 DEF FlagInv
    <3> QED
      BY <3>1, <3>3 DEF AwaitedIsAsync
  <2> QED
    BY <2>4, <2>6, <2>7 DEF GInv
<1>5. CASE UNCHANGED gen_vars
  BY <1>0, <1>5 DEF gen_vars, GInv, GenTypeOK, FlagInv, AwaitBelow, AwaitedIsAsync
<1> QED
  BY <1>1, <1>2, <1>3, <1>4, <1>5 DEF GenNext, OpenOther, OpenCall

-----------------------------------------------------------------------------
(* Theorems.                                                                *)

\* The code generator never disturbs the parser: what holds of AwaitSyntax alone holds of
\* the whole.
LEMMA ParserIsAwaitSyntax == AwaitSpec => Spec
<1>1. AwaitInit => Init
  BY DEF AwaitInit
<1>2. [Parse \/ Generate]_await_vars => [Next]_vars
  BY DEF Parse, Generate, await_vars
<1> QED
  BY <1>1, <1>2, PTL DEF AwaitSpec, Spec

LEMMA GenInvariant == AwaitSpec => []GInv
<1>1. AwaitInit => GInv
  BY GenInitInv DEF AwaitInit
<1>2. [Parse \/ Generate]_await_vars => [GenNext]_gen_vars
  BY DEF Parse, Generate, await_vars
<1> QED
  BY <1>1, <1>2, GenStep, PTL DEF AwaitSpec

\* Parser and code generator keep their counters and stacks well formed (parser.c 2608-2670,
\* codegen_expr.c 1328-1338).
THEOREM AwaitTypes == AwaitSpec => []AwaitTypeOK
  BY ParserIsAwaitSyntax, Invariant, GenInvariant, PTL DEF IInv, GInv, AwaitTypeOK

\* However deep the operand of an await nests further awaits, the builtin it is applied to is
\* emitted as asynchronous (codegen_expr.c 229-360).
THEOREM AwaitedCorrect == AwaitSpec => []AwaitedIsAsync
  BY GenInvariant, PTL DEF GInv
=============================================================================
