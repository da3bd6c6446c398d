---------------------------- MODULE SyncObjects ----------------------------
(***************************************************************************)
(* Mutexes, condition variables and semaphores of the runtime, and the     *)
(* policies that let a thread keep the turn (critical section first, cv    *)
(* wait first, semaphores).  Each handler of RecorderRT is an action up to *)
(* the point where it waits, and an action per wake-up after it.           *)
(***************************************************************************)
EXTENDS TurnOps

CONSTANTS
  Mutexes, Conds, Sems,
  Ops,           \* the operations the application uses
  Timeouts,      \* what relTimeToTurn may return
  MaxSem,        \* bound on the value of a semaphore
  MaxCount,      \* bound on sem_map, which a timed wait may drive up
  CSFirst,       \* options::scheduling_policy & 0x01
  CVFirst        \* options::scheduling_policy & 0x02

VARIABLES
  sched,
  pc,            \* app, check: in check_cv_wait_cnt after the turn was put,
                 \* lock, tlock, relock: in pthreadMutexLockHelper, for the
                 \* plain lock, the timed lock and a condition wait;
                 \* cwait, ctwait: on a condition; swait, stwait: on a semaphore
  arg,           \* the object a thread in a handler is waiting for, and the
                 \* mutex of a condition wait: [obj, mu]
  ret,           \* what the last timed operation returned
  owner,         \* holder of each mutex
  value,         \* value of each semaphore
  cond_map, sem_map,
  inCSLevel, satisfyingCV, satisfyingSem

objects == <<owner, value, cond_map, sem_map>>
policy == <<inCSLevel, satisfyingCV, satisfyingSem>>
vars == <<sched, pc, arg, ret, objects, policy>>

Init ==
  /\ sched \in {Scheduler(o) : o \in {<<Idle>> \o p : p \in SetToSeqs(Threads)}}
  /\ pc = [t \in Threads |-> "app"]
  /\ arg = [t \in Threads |-> [obj |-> NULL, mu |-> NULL]]
  /\ ret = [t \in Threads |-> NULL]
  /\ owner = [m \in Mutexes |-> NULL]
  /\ value = [s \in Sems |-> 0]
  /\ cond_map = [c \in Conds |-> 0]
  /\ sem_map = [s \in Sems |-> 0]
  /\ inCSLevel = [t \in Threads |-> 0]
  /\ satisfyingCV = [t \in Threads |-> NULL]
  /\ satisfyingSem = [t \in Threads |-> NULL]

Free == [obj |-> NULL, mu |-> NULL]

\* A thread with the turn that starts operation op.
Starts(t, op) == HasTurn(sched, t) /\ pc[t] = "app" /\ op \in Ops
Resumes(t, l) == HasTurn(sched, t) /\ pc[t] = l

Goto(t, l) == pc' = [pc EXCEPT ![t] = l]

\* getPutTurnStrategy(): whether the thread keeps the turn.
KeepTurn(t) ==
  inCSLevel'[t] > 0 \/ satisfyingCV'[t] # NULL \/ satisfyingSem'[t] # NULL

\* SCHED_TIMER_END from the scheduler state s; check_cv_wait_cnt follows.
Finish(t, s) ==
  /\ sched' = End(s, t, KeepTurn(t))
  /\ Goto(t, IF satisfyingCV'[t] = NULL /\ satisfyingSem'[t] = NULL THEN "app" ELSE "check")
  /\ arg' = [arg EXCEPT ![t] = Free]


\* After putTurn() has returned: without the turn, unless the thread kept it.
check_cv_wait_cnt(t) ==
  /\ pc[t] = "check"
  /\ satisfyingCV' = [satisfyingCV EXCEPT ![t] =
       IF @ # NULL /\ cond_map[@] < 1 THEN NULL ELSE @]
  /\ satisfyingSem' = [satisfyingSem EXCEPT ![t] =
       IF @ # NULL /\ sem_map[@] < 1 THEN NULL ELSE @]
  /\ Goto(t, "app")
  /\ UNCHANGED <<sched, arg, ret, objects, inCSLevel>>

idle == /\ HasTurn(sched, Idle)
        /\ sched' = IdleTurn(sched)
        /\ UNCHANGED <<pc, arg, ret, objects, policy>>

-----------------------------------------------------------------------------
(* Mutexes. *)

\* An iteration of pthreadMutexLockHelper from the scheduler state s, in a thread
\* that holds the turn.  Its test of the result of wait() against ETIMEDOUT never
\* succeeds: wait() returns SIGNAL or TIMEDOUT.
pthreadMutexLockHelper(t, m, s, l) ==
  \/ /\ owner[m] = NULL
     /\ owner' = [owner EXCEPT ![m] = t]
     /\ Finish(t, s)
  \/ /\ owner[m] # NULL
     /\ sched' = wait(s, t, m)
     /\ Goto(t, l)
     /\ arg' = [arg EXCEPT ![t].mu = m]
     /\ UNCHANGED owner

pthreadMutexLock(t, m) ==
  /\ \/ Starts(t, "lock") /\ owner[m] # t
     \/ Resumes(t, "lock") /\ arg[t].mu = m
  /\ inCSLevel' = [inCSLevel EXCEPT ![t] = IF CSFirst /\ owner[m] = NULL THEN @ + 1 ELSE @]
  /\ UNCHANGED <<satisfyingCV, satisfyingSem, ret, value, cond_map, sem_map>>
  /\ pthreadMutexLockHelper(t, m, sched, "lock")

\* It enters the critical section without counting it.
pthreadMutexTryLock(t, m) ==
  /\ Starts(t, "trylock")
  /\ owner' = [owner EXCEPT ![m] = IF @ = NULL THEN t ELSE @]
  /\ UNCHANGED <<policy, ret, value, cond_map, sem_map>>
  /\ Finish(t, sched)

pthreadMutexTimedLock(t, m) ==
  /\ UNCHANGED <<policy, value, cond_map, sem_map>>
  /\ ret' = [ret EXCEPT ![t] = IF owner[m] = NULL THEN 0 ELSE NULL]
  /\ \/ /\ Starts(t, "tlock") /\ owner[m] # t
        /\ \E n \in Timeouts : pthreadMutexLockHelper(t, m, Arm(sched, t, n), "tlock")
     \/ /\ Resumes(t, "tlock") /\ arg[t].mu = m
        /\ pthreadMutexLockHelper(t, m, sched, "tlock")

\* pthread_mutex_init() and pthread_mutex_destroy(), of a mutex nobody uses.
pthreadMutexInit(t, m) ==
  /\ Starts(t, "init") /\ owner[m] = NULL /\ \A u \in Threads : arg[u].mu # m
  /\ UNCHANGED <<policy, ret, objects>>
  /\ Finish(t, sched)

pthreadMutexUnlock(t, m) ==
  /\ Starts(t, "unlock") /\ owner[m] = t
  /\ owner' = [owner EXCEPT ![m] = NULL]
  /\ inCSLevel' = [inCSLevel EXCEPT ![t] = IF CSFirst /\ @ > 0 THEN @ - 1 ELSE @]
  /\ UNCHANGED <<satisfyingCV, satisfyingSem, ret, value, cond_map, sem_map>>
  /\ Finish(t, signal(sched, m, FALSE))

-----------------------------------------------------------------------------
(* Condition variables. *)

\* A count that may drift is kept within MaxCount of zero.
Count(n) == IF n > MaxCount THEN MaxCount ELSE IF n < -MaxCount THEN -MaxCount ELSE n

pthreadCondWait(t, c, m) ==
  /\ Starts(t, "cwait") /\ owner[m] = t
  /\ cond_map' = [cond_map EXCEPT ![c] = @ + 1]
  /\ owner' = [owner EXCEPT ![m] = NULL]
  /\ sched' = wait(incTurnCount(signal(sched, m, FALSE)), t, c)
  /\ Goto(t, "cwait")
  /\ arg' = [arg EXCEPT ![t] = [obj |-> c, mu |-> m]]
  /\ UNCHANGED <<ret, value, sem_map, policy>>

\* Woken on the condition, or again while it takes the mutex back.
CondWaitResume(t) ==
  /\ Resumes(t, "cwait") \/ Resumes(t, "relock")
  /\ UNCHANGED <<policy, ret, value, cond_map, sem_map>>
  /\ pthreadMutexLockHelper(t, arg[t].mu, sched, "relock")

pthreadCondTimedWait(t, c, m) ==
  /\ Starts(t, "ctwait") /\ owner[m] = t
  /\ cond_map' = [cond_map EXCEPT ![c] = Count(@ + 1)]
  /\ owner' = [owner EXCEPT ![m] = NULL]
  /\ \E n \in Timeouts :
       sched' = wait(Arm(signal(incTurnCount(sched), m, FALSE), t, n), t, c)
  /\ Goto(t, "ctwait")
  /\ arg' = [arg EXCEPT ![t] = [obj |-> c, mu |-> m]]
  /\ ret' = [ret EXCEPT ![t] = NULL]
  /\ UNCHANGED <<value, sem_map, policy>>

\* The result is that of wait().  The mutex is taken back without a timeout.
CondTimedWaitResume(t) ==
  /\ Resumes(t, "ctwait")
  /\ cond_map' = [cond_map EXCEPT ![arg[t].obj] =
       IF sched.wake_reason[t] = TIMEDOUT THEN Count(@ - 1) ELSE @]
  /\ ret' = [ret EXCEPT ![t] = sched.wake_reason[t]]
  /\ UNCHANGED <<policy, value, sem_map>>
  /\ pthreadMutexLockHelper(t, arg[t].mu, Disarm(sched, t), "relock")

\* Faulty variant: the count is left alone when nobody else is waiting.
pthreadCondSignalUncounted(t, c) ==
  /\ Starts(t, "signal")
  /\ cond_map' = [cond_map EXCEPT ![c] = IF @ > 1 THEN @ - 1 ELSE @]
  /\ satisfyingCV' = [satisfyingCV EXCEPT ![t] = IF CVFirst /\ cond_map'[c] > 0 THEN c ELSE @]
  /\ UNCHANGED <<inCSLevel, satisfyingSem, ret, owner, value, sem_map>>
  /\ Finish(t, signal(sched, c, FALSE))

pthreadCondSignal(t, c) ==
  /\ Starts(t, "signal")
  /\ cond_map' = [cond_map EXCEPT ![c] = IF @ > 0 THEN @ - 1 ELSE @]
  /\ satisfyingCV' = [satisfyingCV EXCEPT ![t] = IF CVFirst /\ cond_map'[c] > 0 THEN c ELSE @]
  /\ UNCHANGED <<inCSLevel, satisfyingSem, ret, owner, value, sem_map>>
  /\ Finish(t, signal(sched, c, FALSE))

pthreadCondBroadcast(t, c) ==
  /\ Starts(t, "broadcast")
  /\ satisfyingCV' = [satisfyingCV EXCEPT ![t] = IF @ = c THEN NULL ELSE @]
  /\ cond_map' = [cond_map EXCEPT ![c] = 0]
  /\ UNCHANGED <<inCSLevel, satisfyingSem, ret, owner, value, sem_map>>
  /\ Finish(t, signal(sched, c, TRUE))

-----------------------------------------------------------------------------
(* Semaphores. *)

\* An iteration of the loop on sem_trywait.
SemIteration(t, v, s, l) ==
  \/ /\ value[v] > 0
     /\ value' = [value EXCEPT ![v] = @ - 1]
     /\ UNCHANGED sem_map
     /\ Finish(t, s)
  \/ /\ value[v] = 0
     /\ sem_map' = [sem_map EXCEPT ![v] = Count(@ + 1)]
     /\ sched' = wait(s, t, v)
     /\ Goto(t, l)
     /\ arg' = [arg EXCEPT ![t].obj = v]
     /\ UNCHANGED value

\* The line meant to clear satisfyingSem in the loop compares it instead.
semWait(t, v) ==
  /\ \/ Starts(t, "swait")
     \/ Resumes(t, "swait") /\ arg[t].obj = v
  /\ UNCHANGED <<policy, ret, owner, cond_map>>
  /\ SemIteration(t, v, sched, "swait")

semTryWait(t, v) ==
  /\ Starts(t, "strywait")
  /\ value' = [value EXCEPT ![v] = IF @ > 0 THEN @ - 1 ELSE @]
  /\ UNCHANGED <<policy, ret, owner, cond_map, sem_map>>
  /\ Finish(t, sched)

\* The loop's exit on ETIMEDOUT is never taken: see pthreadMutexLockHelper.
semTimedWait(t, v) ==
  /\ UNCHANGED <<policy, owner, cond_map>>
  /\ ret' = [ret EXCEPT ![t] = IF value[v] > 0 THEN 0 ELSE NULL]
  /\ \/ /\ Starts(t, "stwait")
        /\ \E n \in Timeouts : SemIteration(t, v, Arm(sched, t, n), "stwait")
     \/ /\ Resumes(t, "stwait") /\ arg[t].obj = v
        /\ SemIteration(t, v, sched, "stwait")

\* Faulty variant: a waiter is woken only when the value was zero.
semPostFromZero(t, v) ==
  /\ Starts(t, "post") /\ value[v] < MaxSem
  /\ value' = [value EXCEPT ![v] = @ + 1]
  /\ sem_map' = [sem_map EXCEPT ![v] = IF @ > 0 THEN @ - 1 ELSE @]
  /\ satisfyingSem' = [satisfyingSem EXCEPT ![t] = IF CVFirst /\ sem_map'[v] > 0 THEN v ELSE @]
  /\ UNCHANGED <<inCSLevel, satisfyingCV, ret, owner, cond_map>>
  /\ Finish(t, IF value[v] = 0 THEN signal(sched, v, FALSE) ELSE sched)

semPost(t, v) ==
  /\ Starts(t, "post") /\ value[v] < MaxSem
  /\ value' = [value EXCEPT ![v] = @ + 1]
  /\ sem_map' = [sem_map EXCEPT ![v] = IF @ > 0 THEN @ - 1 ELSE @]
  /\ satisfyingSem' = [satisfyingSem EXCEPT ![t] = IF CVFirst /\ sem_map'[v] > 0 THEN v ELSE @]
  /\ UNCHANGED <<inCSLevel, satisfyingCV, ret, owner, cond_map>>
  /\ Finish(t, signal(sched, v, FALSE))

semInit(t, v) ==
  /\ Starts(t, "init") /\ \A u \in Threads : arg[u].obj # v
  /\ \E n \in 0 .. MaxSem : value' = [value EXCEPT ![v] = n]
  /\ UNCHANGED <<policy, ret, owner, cond_map, sem_map>>
  /\ Finish(t, sched)

-----------------------------------------------------------------------------
\* sched_yield(): yield_this makes getPutTurnStrategy put the turn whatever the
\* policies say.
schedYield(t) ==
  /\ Starts(t, "yield")
  /\ sched' = End(sched, t, FALSE)
  /\ Goto(t, IF satisfyingCV[t] = NULL /\ satisfyingSem[t] = NULL THEN "app" ELSE "check")
  /\ UNCHANGED <<arg, ret, objects, policy>>

Step(t) ==
  \/ check_cv_wait_cnt(t)
  \/ \E m \in Mutexes :
       \/ pthreadMutexLock(t, m) \/ pthreadMutexTryLock(t, m)
       \/ pthreadMutexTimedLock(t, m) \/ pthreadMutexUnlock(t, m) \/ pthreadMutexInit(t, m)
       \/ \E c \in Conds : pthreadCondWait(t, c, m) \/ pthreadCondTimedWait(t, c, m)
  \/ CondWaitResume(t) \/ CondTimedWaitResume(t)
  \/ \E c \in Conds : pthreadCondSignal(t, c) \/ pthreadCondBroadcast(t, c)
  \/ \E v \in Sems :
       \/ semWait(t, v) \/ semTryWait(t, v) \/ semTimedWait(t, v) \/ semPost(t, v)
       \/ semInit(t, v)
  \/ schedYield(t)

Next == idle \/ \E t \in Threads : Step(t)

Spec == Init /\ [][Next]_vars

\* Whoever has the turn goes on with its operation or starts another.
FairSpec == Spec /\ WF_vars(Next)

-----------------------------------------------------------------------------
(* Properties. *)

\* The queues hold every thread once and the recorded counts are in their ranges.
TypeOK ==
  /\ SchedOK(sched)
  /\ pc \in [Threads -> {"app", "check", "lock", "tlock", "relock", "cwait", "ctwait", "swait", "stwait"}]
  /\ owner \in [Mutexes -> Threads \cup {NULL}]
  /\ value \in [Sems -> 0 .. MaxSem]

\* The threads that were woken on a mutex or a semaphore and have yet to retry it.
Woken(o, l) ==
  {t \in Range(sched.runq) \ {Idle} : pc[t] \in l /\ o \in {arg[t].obj, arg[t].mu}}

\* pthread_mutex_unlock() and the condition waits wake one waiter at a time, and a
\* third thread may take the mutex before it: a free mutex that has waiters always
\* has a woken thread on its way to it.
NoLostUnlock ==
  \A m \in Mutexes :
    owner[m] = NULL /\ Waiters(sched, m) # <<>>
      => Woken(m, {"lock", "tlock", "relock"}) # {}

\* sem_post() wakes one waiter and trywaits may take what it posted: while threads
\* wait on a semaphore, as many woken threads as it has units are on their way.
NoLostPost ==
  \A v \in Sems :
    Waiters(sched, v) # <<>> => value[v] <= Cardinality(Woken(v, {"swait", "stwait"}))

\* record-runtime.h: cond_map is, for each condition variable, the number of threads
\* waiting on it: those in the wait queue, and those whose wait has timed out and
\* that have yet to run to count themselves out.
CondMapCounts ==
  \A c \in Conds :
    cond_map[c] = Cardinality({t \in Threads :
      \/ WaitsOn(sched, t, c)
      \/ pc[t] = "ctwait" /\ arg[t].obj = c /\ sched.chan[t] = NULL
           /\ sched.wake_reason[t] = TIMEDOUT})

\* sem_map is the number of threads waiting on each semaphore, over all the retries
\* of sem_wait().
SemMapCounts == \A v \in Sems : sem_map[v] = Len(Waiters(sched, v))

\* check_cv_wait_cnt() runs after putTurn(): it reads the shared maps only in a
\* thread that has kept the turn.
CheckUnderTurn == \A t \in Threads : pc[t] = "check" => HasTurn(sched, t)

\* Whenever a thread returns to the application still meaning to keep the turn for
\* the waiters of a condition or a semaphore, it has the turn and there are some:
\* check_cv_wait_cnt() has seen every wake-up of the meantime.
KeepsTurnForWaiters ==
  \A t \in Threads : \A o \in {satisfyingCV[t], satisfyingSem[t]} \ {NULL} :
    pc[t] = "app" => HasTurn(sched, t) /\ Waiters(sched, o) # <<>>

\* inCSLevel is the number of critical sections a thread is in, whenever the thread
\* is in the application (comment of inCSLevel).
CSLevelCounts ==
  CSFirst => \A t \in Threads :
    pc[t] = "app" => inCSLevel[t] = Cardinality({m \in Mutexes : owner[m] = t})

\* Under the critical-section-first policy a mutex is contended only if its holder
\* is itself blocked: a thread in a critical section that is not inside a
\* synchronisation operation has the turn.
CriticalSectionKeepsTurn ==
  CSFirst => \A m \in Mutexes :
    owner[m] # NULL => HasTurn(sched, owner[m]) \/ pc[owner[m]] # "app"

\* test/runtime/timeout-test.cpp: a timed condition wait returns 0 or ETIMEDOUT.
ETIMEDOUT == 110
CondTimedWaitReturns == \A t \in Threads : ret[t] \in {NULL, 0, ETIMEDOUT}

\* test/runtime/timeout-test.cpp: a timed lock of a mutex returns.
TimedLockReturns == \A t \in Threads : pc[t] = "tlock" ~> pc[t] = "app"

\* test/runtime/timeout-test.cpp: a timed wait on a semaphore returns.
SemTimedWaitReturns == \A t \in Threads : pc[t] = "stwait" ~> pc[t] = "app"

\* Comment in semWait: a thread that waits on a semaphore itself does not lock the
\* turn for the waiters of one.
SemWaiterNotSatisfying == \A t \in Threads : pc[t] = "swait" => satisfyingSem[t] = NULL
=============================================================================
