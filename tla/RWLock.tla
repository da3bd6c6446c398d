------------------------------- MODULE RWLock -------------------------------
(***************************************************************************)
(* Reader-writer locks of the runtime.  The locks are taken with the       *)
(* library's try operations in a loop around wait(), and an unlock signals *)
(* one waiter, reader or writer.                                           *)
(***************************************************************************)
EXTENDS TurnOps

CONSTANT RWLocks

VARIABLES
  sched,
  pc,        \* app, or rdlock, wrlock: in the helper of that name
  on,        \* the lock a thread in a helper is taking
  readers,   \* the threads that hold each lock for reading
  writer     \* the thread that holds it for writing

vars == <<sched, pc, on, readers, writer>>

Init ==
  /\ sched \in {Scheduler(<<Idle>> \o p) : p \in SetToSeqs(Threads)}
  /\ pc = [t \in Threads |-> "app"]
  /\ on = [t \in Threads |-> NULL]
  /\ readers = [l \in RWLocks |-> {}]
  /\ writer = [l \in RWLocks |-> NULL]

\* A thread does not lock what it holds.
Starts(t, l) ==
  HasTurn(sched, t) /\ pc[t] = "app" /\ t \notin readers[l] /\ writer[l] # t
Resumes(t, l, op) == HasTurn(sched, t) /\ pc[t] = op /\ on[t] = l

Finish(t, s) ==
  /\ sched' = End(s, t, FALSE)
  /\ pc' = [pc EXCEPT ![t] = "app"]
  /\ on' = [on EXCEPT ![t] = NULL]

Retry(t, l, op) ==
  /\ sched' = wait(sched, t, l)
  /\ pc' = [pc EXCEPT ![t] = op]
  /\ on' = [on EXCEPT ![t] = l]
  /\ UNCHANGED <<readers, writer>>

CanRead(l) == writer[l] = NULL
CanWrite(l) == writer[l] = NULL /\ readers[l] = {}

rdlock(t, l) ==
  /\ Starts(t, l) \/ Resumes(t, l, "rdlock")
  /\ \/ /\ CanRead(l)
        /\ readers' = [readers EXCEPT ![l] = @ \cup {t}]
        /\ UNCHANGED writer
        /\ Finish(t, sched)
     \/ ~CanRead(l) /\ Retry(t, l, "rdlock")

wrlock(t, l) ==
  /\ Starts(t, l) \/ Resumes(t, l, "wrlock")
  /\ \/ /\ CanWrite(l)
        /\ writer' = [writer EXCEPT ![l] = t]
        /\ UNCHANGED readers
        /\ Finish(t, sched)
     \/ ~CanWrite(l) /\ Retry(t, l, "wrlock")

\* tryrdlock and trywrlock: both try to take the lock for writing.
trylock(t, l) ==
  /\ Starts(t, l)
  /\ writer' = [writer EXCEPT ![l] = IF CanWrite(l) THEN t ELSE @]
  /\ UNCHANGED readers
  /\ Finish(t, sched)

unlock(t, l) ==
  /\ HasTurn(sched, t) /\ pc[t] = "app" /\ t \in readers[l] \cup {writer[l]}
  /\ readers' = [readers EXCEPT ![l] = @ \ {t}]
  /\ writer' = [writer EXCEPT ![l] = NULL]
  /\ Finish(t, signal(sched, l, FALSE))

\* init and destroy, of a lock nobody uses.
init(t, l) ==
  /\ HasTurn(sched, t) /\ pc[t] = "app"
  /\ CanWrite(l) /\ \A u \in Threads : on[u] # l
  /\ UNCHANGED <<readers, writer>>
  /\ Finish(t, sched)

idle == /\ HasTurn(sched, Idle)
        /\ sched' = IdleTurn(sched)
        /\ UNCHANGED <<pc, on, readers, writer>>

Next ==
  \/ idle
  \/ \E t \in Threads, l \in RWLocks :
       \/ rdlock(t, l) \/ wrlock(t, l) \/ trylock(t, l)
       \/ unlock(t, l) \/ init(t, l)

Spec == Init /\ [][Next]_vars

-----------------------------------------------------------------------------
\* An unlock wakes one thread, a reader or a writer, and a woken writer that finds
\* readers goes back to the end of the queue: still, a free lock that has waiters
\* always has a woken thread on its way to it.
NoLostUnlock ==
  \A l \in RWLocks :
    CanWrite(l) /\ Waiters(sched, l) # <<>>
      => \E t \in Range(sched.runq) \ {Idle} : on[t] = l
=============================================================================
