------------------------------ MODULE TurnOps ------------------------------
(***************************************************************************)
(* The scheduler as the synchronisation operations of the runtime see it:  *)
(* one operation runs from getTurn() to the next wait() or putTurn()       *)
(* without another thread running, because it holds the turn (what         *)
(* RRScheduler shows).  A state s of the scheduler is a record: the run    *)
(* queue, whose head has the turn, the wait queue, and for each thread the *)
(* channel it waits on, the turns left until its operation times out and   *)
(* why its last wait ended.  Each operator returns the state after a call. *)
(***************************************************************************)
EXTENDS Integers, Sequences, FiniteSets, SequencesExt

CONSTANTS
  Threads,   \* the application's threads
  Idle,      \* the idle thread
  NULL       \* no object, no channel

FOREVER == 999   \* beyond every timeout

\* wait_t::Wake_Reasons, what wait() returns.
SIGNAL == 0
TIMEDOUT == 1

Scheduler(order) ==
  [runq |-> order, waitq |-> <<>>,
   chan |-> [t \in Threads |-> NULL],
   due |-> [t \in Threads |-> FOREVER],
   wake_reason |-> [t \in Threads |-> SIGNAL]]

HasTurn(s, t) == s.runq[1] = t

WaitsOn(s, t, c) == t \in Range(s.waitq) /\ s.chan[t] = c
Waiters(s, c) == SelectSeq(s.waitq, LAMBDA t : s.chan[t] = c)

\* The threads of the sequence w leave the wait queue for the run queue.
Wake(s, w, reason) ==
  [s EXCEPT !.runq = @ \o w,
            !.waitq = SelectSeq(@, LAMBDA t : t \notin Range(w)),
            !.chan = [t \in Threads |-> IF t \in Range(w) THEN NULL ELSE @[t]],
            !.wake_reason = [t \in Threads |-> IF t \in Range(w) THEN reason ELSE @[t]]]

signal(s, c, all) ==
  LET w == Waiters(s, c)
  IN  Wake(s, IF all \/ w = <<>> THEN w ELSE <<Head(w)>>, SIGNAL)

\* incTurnCount(): every timeout is one turn nearer, then fireTimeouts().
incTurnCount(s) ==
  LET n == [s EXCEPT !.due = [t \in Threads |->
              IF @[t] \in {FOREVER, -1} THEN @[t] ELSE @[t] - 1]]
  IN  Wake(n, SelectSeq(n.waitq, LAMBDA t : n.due[t] = -1), TIMEDOUT)

\* nextRunnable(): with nobody to run the idle thread is woken.
nextRunnable(s) == IF s.runq = <<>> THEN [s EXCEPT !.runq = <<Idle>>] ELSE s

\* An operation computes its timeout: getTurnCount() + n, where getTurnCount() is
\* turnCount - 1.  Disarmed, it has none.
Arm(s, t, n) == [s EXCEPT !.due[t] = n - 1]
Disarm(s, t) == [s EXCEPT !.due[t] = FOREVER]

wait(s, t, c) ==
  LET n == incTurnCount(s)
  IN  nextRunnable([n EXCEPT !.chan[t] = c, !.waitq = Append(@, t), !.runq = Tail(@)])

putTurn(s, t, keep) ==
  IF keep THEN s ELSE [s EXCEPT !.runq = Append(Tail(@), t)]

\* The end of an operation: SCHED_TIMER_END.
End(s, t, keep) == putTurn(incTurnCount(Disarm(s, t)), t, keep)

\* The idle thread's turn: it sleeps if another thread is queued.
IdleTurn(s) ==
  LET n == incTurnCount(s)
  IN  IF Len(n.runq) > 1 THEN [n EXCEPT !.runq = Tail(@)] ELSE n

SchedOK(s) ==
  /\ s.runq # <<>>
  /\ IsInjective(s.runq) /\ IsInjective(s.waitq)
  /\ Range(s.runq) \subseteq Threads \cup {Idle}
  /\ Range(s.waitq) \subseteq Threads \ Range(s.runq)
=============================================================================
