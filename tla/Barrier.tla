------------------------------ MODULE Barrier ------------------------------
(***************************************************************************)
(* pthread barriers.  The runtime counts the arrivals itself and never     *)
(* calls pthread_barrier_wait: the last thread to arrive wakes the others, *)
(* puts the turn and gets it again before it leaves.                       *)
(***************************************************************************)
EXTENDS TurnOps

CONSTANTS
  Count,        \* the count of the barrier
  MaxArrivals,  \* bound on the arrivals of a behaviour
  DestroyInUse  \* whether the application may destroy it under its waiters

CountAssumption == Count \in 1 .. Cardinality(Threads) /\ MaxArrivals \in Nat

VARIABLES
  sched,
  pc,          \* app, last: between putTurn and getTurn in the last thread, wait
  initialized, \* whether the barrier is in the map barriers
  narrived,
  round,       \* arrivals so far and, for each thread, the round it arrived in
  left,        \* how many threads have left in each round
  serial       \* and how many of them with PTHREAD_BARRIER_SERIAL_THREAD

vars == <<sched, pc, initialized, narrived, round, left, serial>>

Rounds == 0 .. MaxArrivals \div Count
Barrier == "barrier"

Init ==
  /\ sched \in {Scheduler(<<Idle>> \o p) : p \in SetToSeqs(Threads)}
  /\ pc = [t \in Threads |-> "app"]
  /\ initialized = TRUE
  /\ narrived = 0
  /\ round = [all |-> 0, of |-> [t \in Threads |-> 0]]
  /\ left = [r \in Rounds |-> 0]
  /\ serial = [r \in Rounds |-> 0]

Goto(t, l) == pc' = [pc EXCEPT ![t] = l]

\* Arrival: SCHED_TIMER_FAKE_END has counted a turn.
Arrives(t) ==
  /\ HasTurn(sched, t) /\ pc[t] = "app" /\ initialized
  /\ round.all < MaxArrivals
  /\ round' = [all |-> round.all + 1, of |-> [round.of EXCEPT ![t] = round.all \div Count]]

\* Faulty variant: the count is reset by the threads that leave.
pthreadBarrierWaitLate(t) ==
  /\ Arrives(t)
  /\ \/ /\ narrived + 1 >= Count
        /\ narrived' = narrived + 1
        /\ sched' = putTurn(signal(incTurnCount(sched), Barrier, TRUE), t, FALSE)
        /\ Goto(t, "last")
     \/ /\ narrived + 1 < Count
        /\ narrived' = narrived + 1
        /\ sched' = wait(incTurnCount(sched), t, Barrier)
        /\ Goto(t, "wait")
  /\ UNCHANGED <<initialized, left, serial>>

\* Faulty variant: one waiter is woken.
pthreadBarrierWaitOne(t) ==
  /\ Arrives(t)
  /\ \/ /\ narrived + 1 = Count
        /\ narrived' = 0
        /\ sched' = putTurn(signal(incTurnCount(sched), Barrier, FALSE), t, FALSE)
        /\ Goto(t, "last")
     \/ /\ narrived + 1 # Count
        /\ narrived' = narrived + 1
        /\ sched' = wait(incTurnCount(sched), t, Barrier)
        /\ Goto(t, "wait")
  /\ UNCHANGED <<initialized, left, serial>>

pthreadBarrierWait(t) ==
  /\ Arrives(t)
  /\ \/ /\ narrived + 1 = Count
        /\ narrived' = 0
        /\ sched' = putTurn(signal(incTurnCount(sched), Barrier, TRUE), t, FALSE)
        /\ Goto(t, "last")
     \/ /\ narrived + 1 # Count
        /\ narrived' = narrived + 1
        /\ sched' = wait(incTurnCount(sched), t, Barrier)
        /\ Goto(t, "wait")
  /\ UNCHANGED <<initialized, left, serial>>

\* A waiter woken, or the last thread with the turn again, returns.
Leave(t) ==
  /\ HasTurn(sched, t) /\ pc[t] \in {"wait", "last"}
  /\ sched' = End(sched, t, FALSE)
  /\ Goto(t, "app")
  /\ left' = [left EXCEPT ![round.of[t]] = @ + 1]
  /\ serial' = [serial EXCEPT ![round.of[t]] = IF pc[t] = "last" THEN @ + 1 ELSE @]
  /\ UNCHANGED <<initialized, narrived, round>>

\* The library's barrier has seen no thread and is never busy.
pthreadBarrierDestroy(t) ==
  /\ HasTurn(sched, t) /\ pc[t] = "app" /\ initialized
  /\ DestroyInUse \/ narrived = 0
  /\ initialized' = FALSE
  /\ sched' = End(sched, t, FALSE)
  /\ UNCHANGED <<pc, narrived, round, left, serial>>

pthreadBarrierInit(t) ==
  /\ HasTurn(sched, t) /\ pc[t] = "app" /\ ~initialized
  /\ initialized' = TRUE
  /\ narrived' = 0
  /\ sched' = End(sched, t, FALSE)
  /\ UNCHANGED <<pc, round, left, serial>>

idle == /\ HasTurn(sched, Idle)
        /\ sched' = IdleTurn(sched)
        /\ UNCHANGED <<pc, initialized, narrived, round, left, serial>>

\* Any other operation of a thread.
other(t) ==
  /\ HasTurn(sched, t) /\ pc[t] = "app"
  /\ sched' = End(sched, t, FALSE)
  /\ UNCHANGED <<pc, initialized, narrived, round, left, serial>>

Wait(t) == pthreadBarrierWait(t) \/ Leave(t)

Next ==
  \/ idle
  \/ \E t \in Threads :
       Wait(t) \/ pthreadBarrierDestroy(t) \/ pthreadBarrierInit(t) \/ other(t)

Spec == Init /\ [][Next]_vars

-----------------------------------------------------------------------------
\* Nobody leaves a round of the barrier before all the threads of that round have
\* arrived, over reuse of the barrier by threads that overtake the last thread of
\* the round before, which is still inside ("barrier may be reused").
RoundsComplete ==
  \A r \in Rounds : left[r] > 0 => round.all >= (r + 1) * Count

\* "one of the waiters should return PTHREAD_BARRIER_SERIAL_THREAD": in a round that
\* all its threads have left, exactly one of them has.
OneSerialThread ==
  \A r \in Rounds : left[r] = Count => serial[r] = 1

\* "pthread_barrier_destroy returns EBUSY if the barrier is still in use": a barrier
\* that threads wait in is not destroyed.
BusyNotDestroyed == Waiters(sched, Barrier) # <<>> => initialized
=============================================================================
