---------------------------- MODULE Serializer ----------------------------
(***************************************************************************)
(* The recorder over RecordSerializer, the first-come-first-served         *)
(* alternative to the round-robin scheduler (record-scheduler.h and the    *)
(* specialisations at the end of record-runtime.cpp).  The turn is a plain *)
(* lock that any thread may take when it is free: an operation is one step *)
(* for every time it holds the turn.  Condition variables and barriers are *)
(* the real ones; a condition variable is waited on with the turn lock as  *)
(* its mutex.  The log lists the operations in the order of their turns.   *)
(* The client is any program with one mutex, one condition variable with   *)
(* its predicate and one barrier; it waits while the predicate is false    *)
(* and broadcasts after it made it true.                                   *)
(***************************************************************************)
EXTENDS Integers, Sequences, SequencesExt, FiniteSets

CONSTANTS Threads,
          Nobody,   \* no thread
          Count,    \* threads the barrier waits for
          MaxTurn   \* bound on turnCount

VARIABLES pc,         \* what each thread is in the middle of
          mu,         \* the holder of the mutex
          waiting,    \* the threads on the condition variable
          arrived,    \* the threads in the barrier
          turnCount,
          log,        \* the lines of all threads
          predicate,  \* the condition the client waits for
          owing       \* threads that made it true and have yet to broadcast

vars == <<pc, mu, waiting, arrived, turnCount, log, predicate, owing>>

\* The turns an operation counts, and its line.
Logged(t, op, turns) ==
  /\ turnCount + turns <= MaxTurn
  /\ turnCount' = turnCount + turns
  /\ log' = Append(log, [tid |-> t, op |-> op])

At(t, place) == pc[t] = place

Goto(t, place) == pc' = [pc EXCEPT ![t] = place]

client == <<predicate, owing>>

-----------------------------------------------------------------------------
Init ==
  /\ pc = [t \in Threads |-> "out"]
  /\ mu = Nobody /\ waiting = {} /\ arrived = {}
  /\ turnCount = 0 /\ log = <<>>
  /\ predicate = FALSE /\ owing = {}

\* wait(): the turn is counted and given up, and taken again later.
wait(t) ==
  /\ turnCount < MaxTurn
  /\ turnCount' = turnCount + 1
  /\ UNCHANGED <<log, mu>>

\* The mutex is tried with the turn held; when it is taken the turn is given
\* up and the thread tries again.
Lock(t) ==
  /\ At(t, "out") /\ mu # t
  /\ IF mu = Nobody THEN mu' = t /\ Logged(t, "lock", 1) ELSE wait(t)
  /\ UNCHANGED <<pc, waiting, arrived, client>>

Unlock(t) ==
  /\ At(t, "out") /\ mu = t
  /\ mu' = Nobody
  /\ Logged(t, "unlock", 1)
  /\ UNCHANGED <<pc, waiting, arrived, client>>

\* pthread_cond_wait and _timedwait: the mutex is given up and the thread is
\* on the condition variable before the turn lock is free.
CondWait(t, kind) ==
  /\ At(t, "out") /\ mu = t /\ ~predicate
  /\ mu' = Nobody
  /\ Logged(t, "wait_first", 1)
  /\ waiting' = waiting \cup {t} /\ Goto(t, kind)
  /\ UNCHANGED <<arrived, client>>

\* pthread_cond_wait counts a turn of its own before SCHED_TIMER_END does.
TurnsAfter(kind) == IF kind = "wait" THEN 2 ELSE 1

\* Faulty variant: the thread returns without the mutex.
RelockFree(t) ==
  /\ pc[t] \in {"wait", "timedwait"} /\ t \notin waiting
  /\ mu' = mu /\ Logged(t, "wait_second", TurnsAfter(pc[t]))
  /\ Goto(t, "out")
  /\ UNCHANGED <<waiting, arrived, client>>

\* A thread that was woken has the turn and tries the mutex.
Relock(t) ==
  /\ pc[t] \in {"wait", "timedwait"} /\ t \notin waiting
  /\ \/ /\ mu = Nobody /\ mu' = t
        /\ Logged(t, "wait_second", TurnsAfter(pc[t])) /\ Goto(t, "out")
     \/ mu # Nobody /\ wait(t) /\ UNCHANGED pc
  /\ UNCHANGED <<waiting, arrived, client>>

\* A wait ends by itself: the time is up, or, timed or not, for no reason.
WakeUp(t) ==
  /\ t \in waiting
  /\ waiting' = waiting \ {t}
  /\ UNCHANGED <<pc, mu, arrived, turnCount, log, client>>

CondSignal(t) ==
  /\ At(t, "out")
  /\ Logged(t, "signal", 1)
  /\ IF waiting = {} THEN waiting' = {}
     ELSE \E w \in waiting : waiting' = waiting \ {w}
  /\ UNCHANGED <<pc, mu, arrived, client>>

CondBroadcast(t) ==
  /\ At(t, "out")
  /\ Logged(t, "broadcast", 1)
  /\ waiting' = {}
  /\ owing' = owing \ {t}
  /\ UNCHANGED <<pc, mu, arrived, predicate>>

\* The client makes its predicate true, under the mutex.
SetPredicate(t) ==
  /\ At(t, "out") /\ mu = t /\ ~predicate
  /\ predicate' = TRUE /\ owing' = owing \cup {t}
  /\ UNCHANGED <<pc, mu, waiting, arrived, turnCount, log>>

-----------------------------------------------------------------------------
\* pthread_barrier_wait logs its first line.
BarrierFirst(t) ==
  /\ At(t, "out") /\ mu # t
  /\ Logged(t, "barrier_first", 1)
  /\ Goto(t, "barrier")
  /\ UNCHANGED <<mu, waiting, arrived, client>>

\* A second turn is taken and given up, and the thread enters the barrier
\* without it.
BarrierEnter(t) ==
  /\ At(t, "barrier")
  /\ turnCount < MaxTurn
  /\ turnCount' = turnCount + 1
  /\ arrived' = arrived \cup {t}
  /\ Goto(t, "entered")
  /\ UNCHANGED <<mu, waiting, log, client>>

\* The barrier lets a full round go, whoever comes to be in it.
BarrierOpen ==
  \E round \in SUBSET arrived :
    /\ Cardinality(round) = Count
    /\ arrived' = arrived \ round
    /\ pc' = [t \in Threads |-> IF t \in round THEN "left" ELSE pc[t]]
    /\ UNCHANGED <<mu, waiting, turnCount, log, client>>

\* Out of the barrier the thread takes the turn and logs its second line.
BarrierSecond(t) ==
  /\ At(t, "left")
  /\ Logged(t, "barrier_second", 1)
  /\ Goto(t, "out")
  /\ UNCHANGED <<mu, waiting, arrived, client>>

Next ==
  \/ BarrierOpen
  \/ \E t \in Threads :
       \/ Lock(t) \/ Unlock(t) \/ Relock(t) \/ WakeUp(t)
       \/ \E kind \in {"wait", "timedwait"} : CondWait(t, kind)
       \/ CondSignal(t) \/ CondBroadcast(t) \/ SetPredicate(t)
       \/ BarrierFirst(t) \/ BarrierEnter(t) \/ BarrierSecond(t)

Spec == Init /\ [][Next]_vars

-----------------------------------------------------------------------------
\* The holder of the mutex after the lines of a log, or an error when a
\* line takes a mutex that is held or gives up one that is not its own.
Holder(lines) ==
  FoldLeft(LAMBDA h, l :
             CASE l.op \in {"lock", "wait_second"} ->
                    IF h = Nobody THEN l.tid ELSE "error"
               [] l.op \in {"unlock", "wait_first"} ->
                    IF h = l.tid THEN Nobody ELSE "error"
               [] OTHER -> h,
           Nobody, lines)

\* The log records the order that occurred: read from the start it hands the
\* mutex from thread to thread as the program did, and ends with the thread
\* that holds it.
LogTellsOrder == Holder(log) = mu

\* No wakeup is lost: while a thread waits although its predicate is true,
\* somebody still has to broadcast.
NoLostWakeup == predicate /\ waiting # {} => owing # {}

Lines(op) == Len(SelectSeq(log, LAMBDA l : l.op = op))

\* The log shows a thread leaving the barrier only after a full round of
\* threads was shown to come.
RoundsInLog ==
  Lines("barrier_second") <= Count * (Lines("barrier_first") \div Count)

=============================================================================
