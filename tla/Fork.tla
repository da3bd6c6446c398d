-------------------------------- MODULE Fork --------------------------------
(***************************************************************************)
(* fork() in a process whose threads take turns, wait, enter regions and   *)
(* make blocking calls (NonDet).  The child has one thread; the scheduler  *)
(* it inherits is re-initialised by childForkReturn, in part.  wakeup() is *)
(* two steps here: a thread may fork while another holds its mutex.        *)
(***************************************************************************)
EXTENDS NonDet

CONSTANTS
  Main,         \* MainThreadTid; Idle is IdleThreadTid
  Quiet         \* the application forks only while no wakeup() is under way

ForkAssumption == Main \in Threads /\ {Main, Idle} = {0, 1} /\ Main = 0 /\ Quiet \in BOOLEAN

VARIABLES
  child,        \* the process followed is the child of a fork
  alive,        \* the threads it has
  nthread,      \* the next tid
  idle_tid,     \* the tid the idle thread was given
  holder        \* who holds inter_pro_wakeup_mutex

forkVars == <<child, alive, nthread, idle_tid, holder>>
allVars == <<vars, forkVars>>
None == -1

ForkInit ==
  /\ Init
  /\ child = FALSE
  /\ alive = Threads \cup {Idle}
  /\ nthread = Cardinality(Threads) + 1
  /\ idle_tid = Idle
  /\ holder = None

-----------------------------------------------------------------------------

\* The queues are emptied and hold the main thread; the wake-up set and
\* non_det_thds are left alone.
childForkReturn(r) ==
  [r EXCEPT !.runq = <<Main>>, !.waitq = <<>>, !.stopped = {}]

\* TidMap::reset: tids are given out anew, the main thread's first.
reset(n) == Main + 1

\* The holder of the turn locks the mutex when the flag is up (check_wakeup).
Unlocked == s.tids = {} \/ holder = None

CanFork(t) ==
  /\ HasTurn(t) /\ pc[t] = "app"
  /\ Quiet => s.tids = {} /\ holder = None

forkParent(t) ==
  /\ CanFork(t) /\ Unlocked
  /\ \E r \in {incTurnCount(s)} : s' = putTurn(r, t)
  /\ UNCHANGED <<pc, flags, forkVars>>

\* In the child the caller is the main thread; it ends the operation and goes on to
\* create an idle thread.  (With a wake-up set to look at and its mutex held it does
\* not get there, see ChildMutexFree.)
forkChild(t) ==
  /\ CanFork(t)
  /\ \E r \in {incTurnCount(childForkReturn(s))} : s' = putTurn(r, Main)
  /\ pc' = [u \in Threads |-> IF u = Main THEN "forked" ELSE "gone"]
  /\ child' = TRUE
  /\ alive' = {Main}
  /\ nthread' = reset(nthread)
  /\ idle_tid' = None
  /\ UNCHANGED <<flags, holder>>

createIdle(t) ==
  /\ HasTurn(t) /\ pc[t] = "forked"
  /\ \E r \in {incTurnCount(s)} :
       s' = putTurn([r EXCEPT !.runq = Append(@, nthread)], t)
  /\ Goto(t, "app")
  /\ alive' = alive \cup {nthread}
  /\ idle_tid' = nthread
  /\ nthread' = nthread + 1
  /\ UNCHANGED <<flags, child, holder>>

\* wakeup(): the mutex is taken, then the tid is put into the set.
wakeupLock(t) ==
  /\ pc[t] \in {"region", "call"} /\ holder = None
  /\ holder' = t
  /\ UNCHANGED <<vars, child, alive, nthread, idle_tid>>

wakeup(t) ==
  /\ holder = t
  /\ nonDetEnd(t) \/ blockEnd(t)
  /\ holder' = None
  /\ UNCHANGED <<child, alive, nthread, idle_tid>>

TurnStep(t) ==
  /\ Unlocked
  /\ \/ nonDetStart(t) \/ nonDetStartResume(t) \/ nonDetStartBlock(t)
     \/ blockStart(t) \/ other(t)
  /\ UNCHANGED forkVars

IdleStep == Unlocked /\ idle /\ UNCHANGED forkVars

ThreadStep(t) ==
  /\ t \in alive
  /\ \/ TurnStep(t) \/ createIdle(t) \/ wakeupLock(t) \/ wakeup(t)

ForkNext ==
  \/ IdleStep
  \/ \E t \in Threads : ThreadStep(t) \/ forkParent(t) \/ forkChild(t)

ForkSpec == ForkInit /\ [][ForkNext]_allVars

-----------------------------------------------------------------------------
\* __fork: "child process returns from fork; re-initializes scheduler and logger
\* state".  The child's queues hold threads of the child only.
ChildThreadsExist == child => Range(s.runq) \cup Range(s.waitq) \subseteq alive

\* __fork, the same comment: no mutex of the scheduler is held by a thread that the
\* child does not have.
ChildMutexFree == child => holder \in alive \cup {None}

\* The idle thread a child creates has the tid by which wakeUpIdleThread finds it.
IdleHasItsTid == idle_tid \in {None, Idle}
=============================================================================
