---------------------------- MODULE AwaitContract ----------------------------
(***************************************************************************)
(* What await promises a script, without a scheduler: a future is settled  *)
(* at most once; a coroutine blocked on it stays blocked until then and    *)
(* continues with exactly that value. Only the top level may give up, and  *)
(* then it gets none.                                                      *)
(***************************************************************************)
CONSTANTS Future, Null, Value, None,
          Unset      \* a value no script can return

VARIABLES
  outcome,  \* outcome[f]: Unset, or the value f settled with
  blocked,  \* blocked[c]: the future context c waits for, or Null
  got       \* got[c]: the value context c's last await produced

Context == Future \cup {Null}
Result  == Value \cup {None}

Init ==
  /\ outcome = [f \in Future |-> Unset]
  /\ blocked = [c \in Context |-> Null]
  /\ got = [c \in Context |-> None]

\* A settled future releases every coroutine blocked on it, with its value. A
\* coroutine that is itself blocked cannot settle its own future.
Settle(f, v) ==
  LET released == {c \in Future : blocked[c] = f}
  IN  /\ outcome[f] = Unset /\ blocked[f] = Null
      /\ outcome' = [outcome EXCEPT ![f] = v]
      /\ blocked' = [c \in Context |->
                       IF c \in released THEN Null ELSE blocked[c]]
      /\ got' = [c \in Context |-> IF c \in released THEN v ELSE got[c]]

\* Await on a settled future does not block.
Read(c, f) ==
  /\ blocked[c] = Null /\ outcome[f] # Unset
  /\ got' = [got EXCEPT ![c] = outcome[f]]
  /\ UNCHANGED <<outcome, blocked>>

Block(c, f) ==
  /\ blocked[c] = Null /\ outcome[f] = Unset
  /\ blocked' = [blocked EXCEPT ![c] = f]
  /\ UNCHANGED <<outcome, got>>

\* The top level resumes, with the value or, on error or deadlock, with none.
Resume(f) ==
  /\ f # Null /\ blocked[Null] = f
  /\ blocked' = [blocked EXCEPT ![Null] = Null]
  /\ got' = [got EXCEPT ![Null] =
               IF outcome[f] = Unset THEN None ELSE outcome[f]]
  /\ UNCHANGED outcome

Next ==
  \E f \in Future :
    \/ \E v \in Result : Settle(f, v)
    \/ \E c \in Context : Read(c, f) \/ Block(c, f)
    \/ Resume(f)

vars == <<outcome, blocked, got>>

Spec == Init /\ [][Next]_vars
=============================================================================
