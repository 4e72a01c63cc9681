-------------------------- MODULE CallContextsProofs --------------------------
(***************************************************************************)
(* If contexts give up the VM thread only outside functions, and one       *)
(* script runs on the VM, every return goes back to its own caller, for    *)
(* any number of coroutines, call sites, frames and nested loops.          *)
(***************************************************************************)
EXTENDS CallContexts, SequenceTheorems, TLAPS

\* Before the first run nothing executes and the stack is empty.
FreshBeforeRuns == run = 0 => ctl = "idle" /\ call_depth = 0

\* Removing the last element of a sequence.
LEMMA Popped ==
  ASSUME NEW S, NEW s \in Seq(S), Len(s) > 0
  PROVE  /\ SubSeq(s, 1, Len(s) - 1) \in Seq(S)
         /\ Len(SubSeq(s, 1, Len(s) - 1)) = Len(s) - 1
         /\ \A i \in 1 .. Len(s) - 1 : SubSeq(s, 1, Len(s) - 1)[i] = s[i]
         /\ s[Len(s)] \in S
<1>1. Len(s) \in Nat
  OBVIOUS
<1>2. \A i \in 1 .. Len(s) : s[i] \in S
  BY ElementOfSeq
<1>3. \A i \in 1 .. Len(s) - 1 : s[i] \in S
  BY <1>1, <1>2
<1> DEFINE n == Len(s) - 1
           p == SubSeq(s, 1, n)
<1>4. n \in Int /\ 1 \in Int
  BY <1>1
<1> HIDE DEF n
<1>5. /\ p \in Seq(S)
      /\ Len(p) = IF 1 <= n THEN n - 1 + 1 ELSE 0
      /\ \A i \in 1 .. n - 1 + 1 : p[i] = s[1 + i - 1]
  BY <1>3, <1>4, SubSeqProperties DEF n
<1>6. Len(p) = n /\ \A i \in 1 .. n : p[i] = s[i]
  <2>1. n \in Nat
    BY <1>1 DEF n
  <2>2. n - 1 + 1 = n /\ \A i \in 1 .. n : 1 + i - 1 = i
    BY <2>1
  <2> HIDE DEF p
  <2>3. Len(p) = n
    BY <1>5, <2>1
  <2>4. \A i \in 1 .. n : p[i] = s[1 + i - 1]
    BY <1>5, <2>2
  <2> QED
    BY <2>2, <2>3, <2>4
<1>7. s[Len(s)] \in S
  BY <1>1, <1>2
<1> QED
  BY <1>5, <1>6, <1>7 DEF n

\* A pushed element is in its place and the others stay.
LEMMA Pushed ==
  ASSUME NEW S, NEW s \in Seq(S), NEW e \in S
  PROVE  /\ Append(s, e) \in Seq(S)
         /\ Len(Append(s, e)) = Len(s) + 1
         /\ \A i \in 1 .. Len(s) : Append(s, e)[i] = s[i]
         /\ Append(s, e)[Len(s) + 1] = e
  OBVIOUS

\* In a scheduler loop the innermost saved context is a context and a depth.
LEMMA TopTyped ==
  ASSUME TypeOK, loops # <<>>
  PROVE  /\ Len(loops) \in Nat /\ Len(loops) > 0
         /\ Top.of \in Context /\ Top.depth \in 0 .. MaxDepth
<1> DEFINE E == [of : Context, depth : 0 .. MaxDepth]
<1>1. loops \in Seq(E)
  BY DEF TypeOK
<1>2. Len(loops) \in Nat /\ Len(loops) > 0
  BY <1>1
<1>3. loops[Len(loops)] \in E
  <2> HIDE DEF E
  <2> QED
    BY <1>1, <1>2, ElementOfSeq
<1> QED
  BY <1>2, <1>3 DEF Top

\* A slice that ends leaves the VM thread to a context with a depth.
LEMMA SliceEndTyped ==
  ASSUME TypeOK, loops # <<>>, current \in Coroutine, NEW d \in 0 .. MaxDepth, SliceEnd(d)
  PROVE  /\ saved_depth' \in [Coroutine -> 0 .. MaxDepth]
         /\ ctl' \in {"code", "loop", "idle"}
         /\ call_depth' \in 0 .. MaxDepth /\ current' \in Context
<1>1. saved_depth' \in [Coroutine -> 0 .. MaxDepth]
  BY DEF SliceEnd, TypeOK
<1> QED
  BY <1>1, TopTyped DEF SliceEnd

\* Every saved context is a context and a depth.
LEMMA LoopsTyped ==
  ASSUME TypeOK
  PROVE  \A i \in DOMAIN loops : loops[i].of \in Context
<1> DEFINE E == [of : Context, depth : 0 .. MaxDepth]
<1>1. loops \in Seq(E) /\ DOMAIN loops = 1 .. Len(loops)
  BY DEF TypeOK
<1>2. \A e \in E : e.of \in Context
  OBVIOUS
<1> HIDE DEF E
<1> QED
  BY <1>1, <1>2, ElementOfSeq

\* Type correctness needs to know that code of a coroutine runs in a loop.
LEMMA TypeStep ==
  ASSUME TypeOK, LoopsNest, DepthIsCallsPending, [Next]_vars
  PROVE  TypeOK'
<1> USE DepthAssumption, NullAssumption
<1>1. ASSUME NEW s \in Site, Call(s) PROVE TypeOK'
  <2>1. [site |-> s, of |-> current] \in Frame
    BY DEF TypeOK, Frame, Context
  <2>2. chain[current] \in Seq(Frame)
    BY DEF TypeOK
  <2>3. chain' \in [Context -> Seq(Frame)]
    BY <1>1, <2>1, <2>2, Pushed DEF Call, TypeOK
  <2>4. call_stack' \in [0 .. MaxDepth - 1 -> Frame \cup {NoFrame}]
    BY <1>1, <2>1 DEF Call, TypeOK
  <2> QED
    BY <1>1, <2>3, <2>4 DEF Call, TypeOK
<1>2. CASE Return
  <2>1. chain[current] \in Seq(Frame) /\ Len(chain[current]) > 0
    BY <1>2 DEF TypeOK, Return, DepthIsCallsPending
  <2>2. chain' \in [Context -> Seq(Frame)]
    BY <1>2, <2>1, Popped DEF Return, TypeOK
  <2> QED
    BY <1>2, <2>2 DEF Return, TypeOK
<1>3. CASE Finish
  <2>1. current \in Coroutine /\ loops # <<>> /\ SliceEnd(0) /\ 0 \in 0 .. MaxDepth
    BY <1>3 DEF TypeOK, Finish, Context, LoopsNest
  <2> QED
    BY <1>3, <2>1, SliceEndTyped DEF TypeOK, Finish
<1>4. CASE Suspend
  <2>1. current \in Coroutine /\ loops # <<>> /\ SliceEnd(call_depth) /\ call_depth \in 0 .. MaxDepth
    BY <1>4 DEF TypeOK, Suspend, Context, LoopsNest
  <2> QED
    BY <1>4, <2>1, SliceEndTyped DEF TypeOK, Suspend
<1>5. CASE Stop
  <2>1. CASE current = Null
    BY <1>5, <2>1 DEF TypeOK, Stop
  <2>2. CASE current # Null
    <3>1. /\ current \in Coroutine /\ loops # <<>> /\ SliceEnd(call_depth)
          /\ call_depth \in 0 .. MaxDepth
      BY <1>5, <2>2 DEF TypeOK, Stop, Context, LoopsNest
    <3> QED
      BY <1>5, <2>2, <3>1, SliceEndTyped DEF TypeOK, Stop
  <2> QED
    BY <2>1, <2>2
<1>6. ASSUME NEW c \in Coroutine, Start(c) \/ Wake(c) \/ Resume(c) PROVE TypeOK'
  <2>1. CASE Start(c)
    BY <2>1 DEF TypeOK, Start
  <2>2. CASE Wake(c)
    BY <2>2 DEF TypeOK, Wake
  <2>3. CASE Resume(c)
    BY <2>3 DEF TypeOK, Resume, Context
  <2> QED
    BY <1>6, <2>1, <2>2, <2>3
<1>7. CASE OpenLoop
  <2>1. [of |-> current, depth |-> call_depth] \in [of : Context, depth : 0 .. MaxDepth]
    BY DEF TypeOK
  <2> QED
    BY <1>7, <2>1, Pushed DEF TypeOK, OpenLoop
<1>8. CASE CloseLoop
  <2>1. loops \in Seq([of : Context, depth : 0 .. MaxDepth]) /\ Len(loops) > 0
    BY <1>8 DEF TypeOK, CloseLoop, LoopsNest
  <2>2. loops' \in Seq([of : Context, depth : 0 .. MaxDepth])
    BY <1>8, <2>1, Popped DEF CloseLoop
  <2> QED
    BY <1>8, <2>2, TopTyped DEF TypeOK, CloseLoop, LoopsNest
<1>9. CASE NewRun
  BY <1>9 DEF TypeOK, NewRun, Context
<1>10. CASE Over \/ UNCHANGED vars
  BY <1>10 DEF TypeOK, Over, vars
<1> QED
  BY <1>1, <1>2, <1>3, <1>4, <1>5, <1>6, <1>7, <1>8, <1>9, <1>10 DEF Next

\* The scheduler loops stay nested.
LEMMA NestStep ==
  ASSUME TypeOK, LoopsNest, [Next]_vars
  PROVE  LoopsNest'
<1> USE NullAssumption
<1>0. Len(loops) \in Nat /\ (loops # <<>> <=> Len(loops) > 0) /\ DOMAIN loops = 1 .. Len(loops)
  BY DEF TypeOK
<1>1. ASSUME NEW s \in Site, Call(s) PROVE LoopsNest'
  BY <1>1 DEF Call, LoopsNest, Top
<1>2. CASE Return
  BY <1>2 DEF Return, LoopsNest, Top
<1>3. ASSUME Finish \/ Suspend \/ (Stop /\ current # Null) PROVE LoopsNest'
  <2>1. ctl = "code" /\ current # Null /\ ctl' = "loop" /\ current' = Top.of /\ loops' = loops
    BY <1>3 DEF Finish, Suspend, Stop, SliceEnd
  <2>2. \A c \in Coroutine : status'[c] = status[c] \/ c = current
    BY <1>3 DEF Finish, Suspend, Stop, TypeOK
  <2>3. loops # <<>>
    BY <2>1 DEF LoopsNest
  <2> QED
    BY <2>1, <2>2, <2>3 DEF LoopsNest, Top
<1>4. CASE Stop /\ current = Null
  BY <1>0, <1>4 DEF Stop, LoopsNest, Top
<1>5. ASSUME NEW c \in Coroutine, Start(c) \/ Wake(c) PROVE LoopsNest'
  <2>1. UNCHANGED <<ctl, current, loops>> /\ status[c] \in {"new", "waits"}
    BY <1>5 DEF Start, Wake
  <2>2. \A d \in Coroutine : status[d] = "runs" => status'[d] = "runs"
    BY <1>5 DEF Start, Wake, TypeOK
  <2> QED
    BY <2>1, <2>2 DEF LoopsNest, Top, TypeOK, Context
<1>6. ASSUME NEW c \in Coroutine, Resume(c) PROVE LoopsNest'
  <2>1. ctl = "loop" /\ ctl' = "code" /\ current' = c /\ loops' = loops /\ status[c] = "ready"
    BY <1>6 DEF Resume
  <2>2. \A d \in Coroutine : status'[d] = IF d = c THEN "runs" ELSE status[d]
    BY <1>6 DEF Resume, TypeOK
  <2> QED
    BY <2>1, <2>2 DEF LoopsNest, Top
<1>7. CASE OpenLoop
  <2> DEFINE e == [of |-> current, depth |-> call_depth]
  <2>1. e \in [of : Context, depth : 0 .. MaxDepth] /\ e.of = current
    BY DEF TypeOK
  <2> HIDE DEF e
  <2>2. ctl = "code" /\ ctl' = "loop" /\ loops' = Append(loops, e) /\ UNCHANGED <<current, status>>
    BY <1>7 DEF OpenLoop, e
  <2>3. /\ Len(loops') = Len(loops) + 1 /\ DOMAIN loops' = 1 .. Len(loops) + 1
        /\ \A i \in 1 .. Len(loops) : loops'[i] = loops[i]
        /\ loops'[Len(loops) + 1] = e
    BY <2>1, <2>2, Pushed DEF TypeOK
  <2>4. loops' # <<>>
    BY <1>0, <2>3
  <2>5. loops'[1].of = Null
    BY <1>0, <2>1, <2>2, <2>3 DEF LoopsNest
  <2>6. \A i \in 1 .. Len(loops) + 1 :
          /\ loops'[i].of \in Coroutine => status'[loops'[i].of] = "runs"
          /\ \A j \in 1 .. Len(loops) + 1 : loops'[i].of = loops'[j].of => i = j
    BY <1>0, <2>1, <2>2, <2>3 DEF LoopsNest
  <2>7. current' = Top'.of
    BY <2>1, <2>2, <2>3 DEF Top
  <2> QED
    BY <2>2, <2>3, <2>4, <2>5, <2>6, <2>7 DEF LoopsNest
<1>8. CASE CloseLoop
  <2>1. ctl = "loop" /\ ctl' = "code" /\ current' = Top.of /\ UNCHANGED status
        /\ loops' = SubSeq(loops, 1, Len(loops) - 1)
    BY <1>8 DEF CloseLoop
  <2>2. loops # <<>> /\ Len(loops) > 0
    BY <1>0, <2>1 DEF LoopsNest
  <2>3. /\ Len(loops') = Len(loops) - 1 /\ DOMAIN loops' = 1 .. Len(loops) - 1
        /\ \A i \in 1 .. Len(loops) - 1 : loops'[i] = loops[i]
    BY <2>1, <2>2, Popped DEF TypeOK
  <2>4. \A i \in 1 .. Len(loops) - 1 :
          /\ loops[i].of \in Coroutine => status[loops[i].of] = "runs"
          /\ loops[i].of # current'
          /\ \A j \in 1 .. Len(loops) - 1 : loops[i].of = loops[j].of => i = j
    BY <1>0, <2>1, <2>2, SMTT(30) DEF LoopsNest, Top
  <2>5. loops' # <<>> => loops'[1].of = Null
    BY <1>0, <2>2, <2>3 DEF LoopsNest
  <2>6. current' # Null => status'[current'] = "runs" /\ loops' # <<>>
    <3>1. current' \in Context
      BY <2>1, <2>2, TopTyped
    <3>2. current' # Null => status'[current'] = "runs"
      BY <1>0, <2>1, <2>2, <3>1 DEF LoopsNest, Top, Context
    <3>3. current' # Null => Len(loops) # 1
      BY <2>1, <2>2 DEF LoopsNest, Top
    <3> QED
      BY <1>0, <2>2, <2>3, <3>2, <3>3
  <2> QED
    BY <2>1, <2>3, <2>4, <2>5, <2>6 DEF LoopsNest
<1>9. CASE NewRun
  BY <1>9 DEF NewRun, LoopsNest, Top
<1>10. CASE Over \/ UNCHANGED vars
  BY <1>10 DEF Over, vars, LoopsNest, Top
<1> QED
  BY <1>1, <1>2, <1>3, <1>4, <1>5, <1>6, <1>7, <1>8, <1>9, <1>10 DEF Next, Stop, Suspend, Finish

\* Where code runs, and which frames are live, when no context switches inside a
\* function and the VM runs one script.
DepthInv == TypeOK /\ LoopsNest /\ SwitchedAtZero /\ DepthIsCallsPending /\ FreshBeforeRuns

LEMMA SwitchStep ==
  ASSUME DeepSwitch = FALSE, DepthInv, [Next]_vars
  PROVE  SwitchedAtZero'
<1> USE NullAssumption DEF DepthInv
<1>0. Len(loops) \in Nat /\ (loops # <<>> <=> Len(loops) > 0) /\ DOMAIN loops = 1 .. Len(loops)
  BY DEF TypeOK
<1>1. ASSUME (\E s \in Site : Call(s)) \/ Return PROVE SwitchedAtZero'
  <2>1. ctl = "code" /\ UNCHANGED <<loops, status, saved_depth>>
    BY <1>1 DEF Call, Return
  <2>2. \A c \in Context : c # current => chain'[c] = chain[c]
    BY <1>1 DEF Call, Return, TypeOK
  <2>3. \A i \in DOMAIN loops : loops[i].of # current /\ loops[i].of \in Context
    BY <2>1, LoopsTyped DEF LoopsNest
  <2>4. \A c \in Coroutine : status[c] \in {"new", "ready", "waits"} => c # current
    BY <2>1 DEF LoopsNest
  <2> QED
    BY <2>1, <2>2, <2>3, <2>4 DEF SwitchedAtZero, Context
<1>2. ASSUME Finish \/ Suspend PROVE SwitchedAtZero'
  <2>1. ctl = "code" /\ current \in Coroutine /\ call_depth = 0 /\ UNCHANGED <<loops, chain>>
    BY <1>2 DEF Finish, Suspend, MaySwitch, TypeOK, Context
  <2>2. \A c \in Coroutine : c # current => status'[c] = status[c] /\ saved_depth'[c] = saved_depth[c]
    BY <1>2 DEF Finish, Suspend, SliceEnd, TypeOK
  <2>3. saved_depth'[current] = 0
    BY <1>2, <2>1 DEF Finish, Suspend, SliceEnd, TypeOK
  <2>4. chain[current] = <<>>
    BY <2>1 DEF DepthIsCallsPending, TypeOK
  <2> QED
    BY <2>1, <2>2, <2>3, <2>4 DEF SwitchedAtZero
<1>3. CASE Stop
  <2>1. CASE current = Null
    BY <1>3, <2>1 DEF Stop, SwitchedAtZero
  <2>2. CASE current # Null
    <3>1. \A c \in Coroutine : c # current => status'[c] = status[c] /\ saved_depth'[c] = saved_depth[c]
      BY <1>3, <2>2 DEF Stop, SliceEnd, TypeOK
    <3>2. current \in Coroutine => status'[current] = "over"
      BY <1>3, <2>2 DEF Stop, TypeOK
    <3> QED
      BY <1>3, <2>2, <3>1, <3>2 DEF Stop, SwitchedAtZero
  <2> QED
    BY <2>1, <2>2
<1>4. ASSUME NEW c \in Coroutine, Start(c) \/ Wake(c) \/ Resume(c) PROVE SwitchedAtZero'
  <2>1. UNCHANGED <<loops, saved_depth, chain>> /\ status[c] \in {"new", "ready", "waits"}
    BY <1>4 DEF Start, Wake, Resume
  <2>2. \A d \in Coroutine : d # c => status'[d] = status[d]
    BY <1>4 DEF Start, Wake, Resume, TypeOK
  <2> QED
    BY <2>1, <2>2 DEF SwitchedAtZero
<1>5. CASE OpenLoop
  <2> DEFINE e == [of |-> current, depth |-> call_depth]
  <2>1. ctl = "code" /\ call_depth = 0 /\ loops' = Append(loops, e)
        /\ UNCHANGED <<status, saved_depth, chain>>
    BY <1>5 DEF OpenLoop, MaySwitch
  <2>2. chain[current] = <<>>
    BY <2>1 DEF DepthIsCallsPending, TypeOK
  <2>3. e \in [of : Context, depth : 0 .. MaxDepth] /\ e.of = current /\ e.depth = 0
    BY <2>1 DEF TypeOK
  <2> HIDE DEF e
  <2>4. /\ DOMAIN loops' = 1 .. Len(loops) + 1
        /\ \A i \in 1 .. Len(loops) : loops'[i] = loops[i]
        /\ loops'[Len(loops) + 1] = e
    BY <2>1, <2>3, Pushed DEF TypeOK
  <2> QED
    BY <1>0, <2>1, <2>2, <2>3, <2>4 DEF SwitchedAtZero
<1>6. CASE CloseLoop
  <2>1. /\ Len(loops) > 0
        /\ loops' = SubSeq(loops, 1, Len(loops) - 1)
        /\ UNCHANGED <<status, saved_depth, chain>>
    BY <1>0, <1>6 DEF CloseLoop, LoopsNest
  <2>2. loops \in Seq([of : Context, depth : 0 .. MaxDepth])
    BY DEF TypeOK
  <2>3. /\ loops' \in Seq([of : Context, depth : 0 .. MaxDepth])
        /\ Len(loops') = Len(loops) - 1
        /\ \A i \in 1 .. Len(loops) - 1 : loops'[i] = loops[i]
    BY <2>1, <2>2, Popped
  <2>4. \A i \in DOMAIN loops' : i \in DOMAIN loops /\ loops'[i] = loops[i]
    <3>1. Len(loops) \in Nat /\ DOMAIN loops = 1 .. Len(loops)
      BY <2>2
    <3>2. DOMAIN loops' = 1 .. Len(loops) - 1
      BY <2>3
    <3> QED
      BY <2>3, <3>1, <3>2
  <2> QED
    BY <1>0, <2>1, <2>4 DEF SwitchedAtZero
<1>7. CASE NewRun
  <2>1. loops = <<>> /\ UNCHANGED <<loops, status, saved_depth>>
    BY <1>7 DEF NewRun, LoopsNest
  <2>2. \A c \in Coroutine : chain'[c] = chain[c]
    BY <1>7 DEF NewRun, TypeOK, Context
  <2> QED
    BY <1>0, <2>1, <2>2 DEF SwitchedAtZero
<1>8. CASE Over \/ UNCHANGED vars
  BY <1>8 DEF Over, vars, SwitchedAtZero
<1> QED
  BY <1>1, <1>2, <1>3, <1>4, <1>5, <1>6, <1>7, <1>8 DEF Next

LEMMA DepthStep ==
  ASSUME DeepSwitch = FALSE, MaxRuns <= 1, DepthInv, [Next]_vars
  PROVE  DepthIsCallsPending' /\ FreshBeforeRuns'
<1> USE NullAssumption, DepthAssumption DEF DepthInv
<1>1. ASSUME NEW s \in Site, Call(s) PROVE DepthIsCallsPending' /\ FreshBeforeRuns'
  <2>1. [site |-> s, of |-> current] \in Frame /\ chain[current] \in Seq(Frame)
    BY DEF TypeOK, Frame, Context
  <2>2. Len(chain'[current]) = Len(chain[current]) + 1
    BY <1>1, <2>1, Pushed DEF Call, TypeOK
  <2> QED
    BY <1>1, <2>2 DEF Call, DepthIsCallsPending, FreshBeforeRuns
<1>2. ASSUME Return PROVE DepthIsCallsPending' /\ FreshBeforeRuns'
  <2>1. chain[current] \in Seq(Frame) /\ Len(chain[current]) > 0
    BY <1>2 DEF Return, DepthIsCallsPending, TypeOK
  <2>2. Len(chain'[current]) = Len(chain[current]) - 1
    BY <1>2, <2>1, Popped DEF Return, TypeOK
  <2> QED
    BY <1>2, <2>2 DEF Return, DepthIsCallsPending, FreshBeforeRuns
<1>3. ASSUME Finish \/ Suspend \/ Stop PROVE DepthIsCallsPending' /\ FreshBeforeRuns'
  BY <1>3 DEF Finish, Suspend, Stop, SliceEnd, DepthIsCallsPending, FreshBeforeRuns
<1>4. ASSUME NEW c \in Coroutine, Start(c) \/ Wake(c) \/ Resume(c)
      PROVE  DepthIsCallsPending' /\ FreshBeforeRuns'
  <2>1. CASE Start(c) \/ Wake(c)
    BY <2>1 DEF Start, Wake, DepthIsCallsPending, FreshBeforeRuns
  <2>2. CASE Resume(c)
    <3>1. call_depth' = 0 /\ chain'[current'] = <<>>
      BY <2>2 DEF Resume, SwitchedAtZero
    <3> QED
      BY <2>2, <3>1 DEF Resume, DepthIsCallsPending, FreshBeforeRuns
  <2> QED
    BY <1>4, <2>1, <2>2
<1>5. ASSUME OpenLoop PROVE DepthIsCallsPending' /\ FreshBeforeRuns'
  BY <1>5 DEF OpenLoop, DepthIsCallsPending, FreshBeforeRuns
<1>6. ASSUME CloseLoop PROVE DepthIsCallsPending' /\ FreshBeforeRuns'
  <2>1. Len(loops) \in DOMAIN loops
    BY <1>6 DEF CloseLoop, LoopsNest, TypeOK
  <2>2. call_depth' = 0 /\ chain'[current'] = <<>>
    BY <1>6, <2>1 DEF CloseLoop, SwitchedAtZero, Top
  <2> QED
    BY <1>6, <2>2 DEF CloseLoop, DepthIsCallsPending, FreshBeforeRuns
<1>7. ASSUME NewRun PROVE DepthIsCallsPending' /\ FreshBeforeRuns'
  <2>1. run = 0 /\ run' = 1
    BY <1>7 DEF NewRun, TypeOK
  <2>2. call_depth' = 0 /\ current' = Null /\ chain'[Null] = <<>>
    BY <1>7, <2>1 DEF NewRun, FreshBeforeRuns, LoopsNest, TypeOK, Context
  <2> QED
    BY <2>1, <2>2 DEF DepthIsCallsPending, FreshBeforeRuns
<1>8. ASSUME Over \/ UNCHANGED vars PROVE DepthIsCallsPending' /\ FreshBeforeRuns'
  BY <1>8 DEF Over, vars, DepthIsCallsPending, FreshBeforeRuns
<1> QED
  BY <1>1, <1>2, <1>3, <1>4, <1>5, <1>6, <1>7, <1>8 DEF Next

\* Frames below the depth are written only by the context that pushed them.
LEMMA ReturnStep ==
  ASSUME DepthInv, DepthInv', ReturnsToCaller, [Next]_vars
  PROVE  ReturnsToCaller'
<1> USE NullAssumption, DepthAssumption DEF DepthInv
<1>1. ASSUME NEW s \in Site, Call(s) PROVE ReturnsToCaller'
  <2> DEFINE frame == [site |-> s, of |-> current]
             n == Len(chain[current])
  <2>1. frame \in Frame /\ chain[current] \in Seq(Frame) /\ n \in Nat
    <3>1. frame \in Frame
      BY DEF TypeOK, Frame
    <3>2. chain[current] \in Seq(Frame)
      BY DEF TypeOK
    <3> QED
      BY <3>1, <3>2
  <2>2. n = call_depth /\ n < MaxDepth /\ n \in DOMAIN call_stack
    BY <1>1 DEF Call, DepthIsCallsPending, TypeOK
  <2>3. call_stack' = [call_stack EXCEPT ![n] = frame] /\ current' = current
        /\ chain'[current] = Append(chain[current], frame) /\ ctl = "code"
    BY <1>1, <2>2 DEF Call, TypeOK
  <2>4. \A i \in 1 .. n : call_stack[i - 1] = chain[current][i]
    BY <2>3 DEF ReturnsToCaller
  <2> HIDE DEF frame, n
  <2>5. /\ Len(chain'[current]) = n + 1
        /\ \A i \in 1 .. n : chain'[current][i] = chain[current][i]
        /\ chain'[current][n + 1] = frame
    BY <2>1, <2>3, Pushed DEF n
  <2>6. call_stack'[n] = frame /\ \A i \in 1 .. n : call_stack'[i - 1] = call_stack[i - 1]
    BY <2>1, <2>2, <2>3 DEF TypeOK
  <2>7. \A i \in 1 .. n + 1 : call_stack'[i - 1] = chain'[current][i]
    <3>1. \A i \in 1 .. n : call_stack'[i - 1] = chain'[current][i]
      BY <2>4, <2>5, <2>6
    <3>2. call_stack'[(n + 1) - 1] = chain'[current][n + 1]
      <4>1. (n + 1) - 1 = n
        BY <2>1
      <4> QED
        BY <2>5, <2>6, <4>1
    <3>3. \A i \in 1 .. n + 1 : i \in 1 .. n \/ i = n + 1
      BY <2>1
    <3> QED
      BY <3>1, <3>2, <3>3
  <2> QED
    BY <2>3, <2>5, <2>7 DEF ReturnsToCaller
<1>2. CASE Return
  <2> DEFINE n == Len(chain[current])
  <2>1. chain[current] \in Seq(Frame) /\ n > 0 /\ n \in Nat
    BY <1>2 DEF Return, DepthIsCallsPending, TypeOK
  <2>2. chain'[current] = SubSeq(chain[current], 1, n - 1) /\ UNCHANGED <<current, call_stack>>
    BY <1>2 DEF Return, TypeOK
  <2>3. \A i \in 1 .. n : call_stack[i - 1] = chain[current][i]
    BY <1>2 DEF Return, ReturnsToCaller
  <2>4. Len(chain'[current]) = n - 1 /\ \A i \in 1 .. n - 1 : chain'[current][i] = chain[current][i]
    BY <2>1, <2>2, Popped
  <2>5. Len(chain'[current']) = n - 1 /\ current' = current /\ call_stack' = call_stack
    BY <2>2, <2>4
  <2> HIDE DEF n
  <2>6. \A i \in 1 .. n - 1 : i \in 1 .. n
    BY <2>1
  <2>7. \A i \in 1 .. Len(chain'[current']) : call_stack'[i - 1] = chain'[current'][i]
    BY <2>3, <2>4, <2>5, <2>6
  <2> QED
    BY <2>7 DEF ReturnsToCaller
<1>3. CASE Finish \/ Suspend \/ Stop \/ OpenLoop
  BY <1>3 DEF Finish, Suspend, Stop, SliceEnd, OpenLoop, ReturnsToCaller
<1>4. ASSUME NEW c \in Coroutine, Start(c) \/ Wake(c) PROVE ReturnsToCaller'
  BY <1>4 DEF Start, Wake, ReturnsToCaller
<1>5. ASSUME NEW c \in Coroutine, Resume(c) PROVE ReturnsToCaller'
  <2>1. chain'[current'] = <<>>
    BY <1>5 DEF Resume, SwitchedAtZero
  <2> QED
    BY <2>1 DEF ReturnsToCaller
<1>6. CASE CloseLoop
  <2>1. Len(loops) \in DOMAIN loops
    BY <1>6 DEF CloseLoop, LoopsNest, TypeOK
  <2>2. chain'[current'] = <<>>
    BY <1>6, <2>1 DEF CloseLoop, SwitchedAtZero, Top
  <2> QED
    BY <2>2 DEF ReturnsToCaller
<1>7. CASE NewRun
  <2>1. chain'[current'] = <<>>
    BY <1>7 DEF NewRun, LoopsNest, TypeOK, Context
  <2> QED
    BY <2>1 DEF ReturnsToCaller
<1>8. CASE Over \/ UNCHANGED vars
  BY <1>8 DEF Over, vars, ReturnsToCaller
<1> QED
  BY <1>1, <1>2, <1>3, <1>4, <1>5, <1>6, <1>7, <1>8 DEF Next

LEMMA Initially == Init => DepthInv /\ ReturnsToCaller
<1> SUFFICES ASSUME Init PROVE DepthInv /\ ReturnsToCaller
  OBVIOUS
<1> USE DepthAssumption DEF Init
<1>1. TypeOK
  BY DEF TypeOK, Context, Frame
<1> QED
  BY <1>1 DEF DepthInv, LoopsNest, SwitchedAtZero, DepthIsCallsPending, FreshBeforeRuns,
              ReturnsToCaller, Context

LEMMA Invariant ==
  ASSUME DeepSwitch = FALSE, MaxRuns <= 1
  PROVE  Spec => [](DepthInv /\ ReturnsToCaller)
<1>1. DepthInv /\ ReturnsToCaller /\ [Next]_vars => (DepthInv /\ ReturnsToCaller)'
  <2> SUFFICES ASSUME DepthInv, ReturnsToCaller, [Next]_vars
               PROVE  DepthInv' /\ ReturnsToCaller'
    OBVIOUS
  <2>1. DepthInv'
    BY TypeStep, NestStep, SwitchStep, DepthStep DEF DepthInv
  <2> QED
    BY <2>1, ReturnStep
<1> QED
  BY Initially, <1>1, PTL DEF Spec

\* call_depth, the current frame and the loops keep their types through every
\* call, return, switch and nested loop.
THEOREM ContextTypes ==
  ASSUME DeepSwitch = FALSE, MaxRuns <= 1
  PROVE  Spec => []TypeOK
  BY Invariant, PTL DEF DepthInv

\* One script per VM that gives up the VM thread only at depth 0: call_depth is
\* the number of calls the executing context has pending.
THEOREM DepthCorrect ==
  ASSUME DeepSwitch = FALSE, MaxRuns <= 1
  PROVE  Spec => []DepthIsCallsPending
  BY Invariant, PTL DEF DepthInv

\* Under the same assumptions every OP_RETURN goes back to the caller's site and
\* frame, whatever other coroutines did in between.
THEOREM ReturnsCorrect ==
  ASSUME DeepSwitch = FALSE, MaxRuns <= 1
  PROVE  Spec => []ReturnsToCaller
  BY Invariant, PTL

\* Scheduler loops nest and no context stands in two of them.
THEOREM LoopsCorrect ==
  ASSUME DeepSwitch = FALSE, MaxRuns <= 1
  PROVE  Spec => []LoopsNest
  BY Invariant, PTL DEF DepthInv
=============================================================================
