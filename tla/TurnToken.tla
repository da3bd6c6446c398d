----------------------------- MODULE TurnToken -----------------------------
(***************************************************************************)
(* What a Serializer promises to the operations of the runtime: one turn,  *)
(* which a thread takes once it has been posted to it, keeps while it runs *)
(* its operation, and posts to the next thread.  The turn disappears only  *)
(* when a thread ends and no thread is left to take it.                    *)
(***************************************************************************)
CONSTANT Thread

VARIABLES
  posted,    \* the threads that may take the turn
  holding    \* the threads between getTurn() and the end of putTurn()

vars == <<posted, holding>>

Init ==
  /\ \E t \in Thread : posted = {t}
  /\ holding = {}

getTurn(t) ==
  /\ posted = {t}
  /\ holding = {}
  /\ holding' = {t}
  /\ posted' = {}

putTurn(t, u) ==
  /\ holding = {t}
  /\ posted = {}
  /\ holding' = {}
  /\ posted' = {u}

dropTurn(t) ==
  /\ holding = {t}
  /\ posted = {}
  /\ holding' = {}
  /\ UNCHANGED posted

Next ==
  \E t \in Thread :
    \/ getTurn(t)
    \/ \E u \in Thread : putTurn(t, u)
    \/ dropTurn(t)

Spec == Init /\ [][Next]_vars
=============================================================================
