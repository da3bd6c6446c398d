---------------------------- MODULE RRScheduler ----------------------------
(***************************************************************************)
(* The round-robin turn scheduler of the runtime (RRScheduler, the waits   *)
(* and queues it keeps, the idle thread and the program-end protocol), for *)
(* enforce_turn_type >= 0 and without the high-priority queue.             *)
(*                                                                         *)
(* A thread holds the turn from the moment getTurn() returns until next()  *)
(* posts the thread that follows it.  The queues belong to the turn        *)
(* holder.  What other threads change under its feet are the status fields *)
(* of the run-queue elements (interProStart, interProEnd), the set         *)
(* inter_pro_wakeup_tids (wakeup) and idle_mutex, so every step of the     *)
(* turn holder below reads at most one of these.                           *)
(*                                                                         *)
(* A definition commented as a faulty variant is not part of the model: it *)
(* is the definition that follows it with a plausible bug, and shows that  *)
(* a property can fail.                                                    *)
(***************************************************************************)
EXTENDS Integers, Sequences, FiniteSets, Functions, TurnQueues

CONSTANTS
  NTHREAD,      \* bound on the number of threads ever created
  Chan,         \* channels the application waits on (mutexes, conds, ...)
  MaxTimeout,   \* bound on the turns a timed wait asks for
  Networked,    \* the threads that make blocking (network) calls
  Strategy,     \* what getPutTurnStrategy may return to the application
  CriticalSectionFirst, \* options::scheduling_policy & 0x01
  Role(_),      \* the role of a thread (TidMap::getRoleid)
  SpuriousWakeup, \* whether pthread_cond_wait may return unsignalled
  NULL, IdleCond, IdleMutex  \* channel values of their own

MainThreadTid == 0
IdleThreadTid == 1
InvalidTid == -1
Tid == 0..(NTHREAD - 1)

FOREVER == MaxTimeout + 1

\* A thread's pthread_t is the channel its joiners wait on: here its tid.
Channel == Chan \cup {IdleCond, IdleMutex} \cup Tid

ASSUME NThreadAssumption == NTHREAD \in Nat /\ NTHREAD >= 2
ASSUME TimeoutAssumption == MaxTimeout \in Nat
ASSUME StrategyAssumption ==
  Strategy \subseteq {"DEFAULT", "CURRENT_THREAD", "CURRENT_ROLE"}
ASSUME OptionAssumption ==
  CriticalSectionFirst \in BOOLEAN /\ SpuriousWakeup \in BOOLEAN
ASSUME ChannelAssumption ==
  /\ NULL \notin Channel
  /\ Chan \cap Tid = {}
  /\ IdleCond \notin Chan \cup {IdleMutex} \cup Tid
  /\ IdleMutex \notin Chan \cup Tid

Status == {"RUNNABLE", "RUNNING_REG", "RUNNING_INTER_PRO", "INTER_PRO_STOP"}

VARIABLES
  runq,      \* run queue, as the sequence of the tids it links
  waitq,     \* wait queue
  status,    \* status of each thread's run-queue element
  chan,      \* waits[t].chan
  timeout,   \* waits[t].timeout, as the number of turns left before it
  wakenUp,   \* waits[t].wakenUp: the turn was posted and not yet taken
  inter_pro_wakeup_tids,
  nthread,   \* number of threads created
  zombies,
  idle_mutex, \* holder of idle_mutex, or InvalidTid
  idle_done,
  pc,        \* where each thread is inside the scheduler
  at,        \* which operation of its program each thread is at
  strategy,  \* nextRunnable's argument, in the current call of next()
  ret,       \* where the caller of the current next() goes afterwards
  scan       \* iterator of tryPutTurn, as an index of runq

queues == <<runq, waitq, chan, timeout>>
idle == <<idle_mutex, idle_done>>
vars == <<runq, waitq, status, chan, timeout, wakenUp, inter_pro_wakeup_tids,
          nthread, zombies, idle_mutex, idle_done, pc, at, strategy, ret, scan>>

-----------------------------------------------------------------------------
(* pc of a thread:
   none       not created
   run        outside the scheduler, or waiting in getTurn() for an operation
   turn       holds the turn; acted: has done the operation's own effect;
   ticked     incTurnCount() done
   check,next in next(): before check_wakeup(), in nextRunnable()'s loop
   poke       in wakeUpIdleThread(), before locking idle_mutex
   try,tried  in tryPutTurn(), and after it returned true
   wait       in wait(), until it gets the turn again
   block, bturn, bticked   in block(): before and after getTurn(), ticked
   call       in the blocking call; ended: between interProEnd() and wakeup()
   tocond, sleep, reacq    idle thread before, in and leaving pthread_cond_wait
   done       the thread is gone                                             *)

PC == {"none", "run", "turn", "acted", "ticked", "check", "next", "poke", "try", "tried",
       "wait", "block", "bturn", "bticked", "call", "ended",
       "tocond", "sleep", "reacq", "done"}

TurnPC == {"turn", "acted", "ticked", "check", "next", "poke", "try", "tried",
           "bturn", "bticked"}

\* Operations: threadBegin, "app", those of the idle thread's loop and those of
\* __tern_prog_end.
At == {"begin", "app", "lock", "cond", "unlock", "idlesleep", "unlockdone",
       "stat", "setdone", "signal", "raw", "rawsignal", "join", "exit"}

Goto(t, l) == pc' = [pc EXCEPT ![t] = l]
Then(t, l) == at' = [at EXCEPT ![t] = l]

-----------------------------------------------------------------------------
(* State right after __tern_prog_begin: the main thread has created the idle
   thread, put its turn, and the turn has been posted to the idle thread.    *)
Init ==
  /\ runq = <<IdleThreadTid, MainThreadTid>>
  /\ waitq = <<>>
  /\ status = [t \in Tid |-> IF t = IdleThreadTid THEN "RUNNING_REG" ELSE "RUNNABLE"]
  /\ chan = [t \in Tid |-> NULL]
  /\ timeout = [t \in Tid |-> FOREVER]
  /\ wakenUp = [t \in Tid |-> t = IdleThreadTid]
  /\ inter_pro_wakeup_tids = {}
  /\ nthread = 2
  /\ zombies = {}
  /\ idle_mutex = InvalidTid
  /\ idle_done = FALSE
  /\ pc = [t \in Tid |-> IF t < 2 THEN "run" ELSE "none"]
  /\ at = [t \in Tid |-> IF t = MainThreadTid THEN "app" ELSE "begin"]
  /\ strategy = "DEFAULT"
  /\ ret = "run"
  /\ scan = 2

-----------------------------------------------------------------------------
(* Helpers of the turn holder. *)

\* waits[t].reset() for the threads of S, which leave the wait queue.
Reset(S) ==
  /\ waitq' \in InOrder(Range(waitq) \ S, waitq)
  /\ chan' = [t \in Tid |-> IF t \in S THEN NULL ELSE chan[t]]
  /\ timeout' = [t \in Tid |-> IF t \in S THEN FOREVER ELSE timeout[t]]

\* Faulty variants: the threads enter at the front; only one of them enters.
check_wakeupFront(rq) ==
  /\ \E p \in Listings(inter_pro_wakeup_tids \ Range(rq)) : runq' = p \o rq
  /\ inter_pro_wakeup_tids' = {}

check_wakeupOne(rq) ==
  LET back == inter_pro_wakeup_tids \ Range(rq) IN
  /\ \/ back = {} /\ runq' = rq
     \/ \E t \in back : runq' = Append(rq, t)
  /\ inter_pro_wakeup_tids' = {}

\* check_wakeup(): threads back from a blocking call rejoin the queue rq,
\* in the order of the hash set, unless they never left it.
check_wakeup(rq) ==
  /\ \E p \in Listings(inter_pro_wakeup_tids \ Range(rq)) : runq' = rq \o p
  /\ inter_pro_wakeup_tids' = {}

\* The threads signal(c, all) picks, in the order of the wait queue.
Waiters(c) == {t \in Range(waitq) : chan[t] = c}

\* Faulty variant: the scan starts at the other end of the wait queue.
LastWaiter(c) ==
  {t \in Waiters(c) : \E i \in DOMAIN waitq : waitq[i] = t
                        /\ \A j \in (i+1)..Len(waitq) : chan[waitq[j]] # c}

FirstWaiter(c) ==
  {t \in Waiters(c) : \E i \in DOMAIN waitq : waitq[i] = t
                        /\ \A j \in 1..(i-1) : chan[waitq[j]] # c}
Signalled(c, all) == IF all THEN Waiters(c) ELSE FirstWaiter(c)

\* signal(c, all): the threads picked move to the back of the run queue.
signal(c, all) ==
  /\ \E q \in InOrder(Signalled(c, all), waitq) : runq' = runq \o q
  /\ Reset(Signalled(c, all))

\* Faulty variants: the turn is kept after pthreadCondSignal; it is always kept.
PutStrategyKeep(t) ==
  IF at[t] = "signal" THEN {"CURRENT_THREAD"} ELSE {"DEFAULT"}

PutStrategyThread(t) == {"CURRENT_THREAD"}

\* getPutTurnStrategy() for the operation t is at.
PutStrategy(t) ==
  IF at[t] = "lock" /\ CriticalSectionFirst THEN {"CURRENT_THREAD"}
  ELSE IF t = IdleThreadTid THEN {"DEFAULT"} ELSE Strategy

\* putTurn(false, s), up to check_wakeup(): the head becomes RUNNABLE and goes
\* to the back, or stays where it is for CURRENT_THREAD.
putTurn(t, s) ==
  /\ status' = [status EXCEPT ![t] = "RUNNABLE"]
  /\ runq' = IF s = "CURRENT_THREAD" THEN runq ELSE Append(Tail(runq), t)
  /\ strategy' = s
  /\ ret' = "run"
  /\ Goto(t, "check")
  /\ UNCHANGED <<waitq, chan, timeout, wakenUp, inter_pro_wakeup_tids, nthread, scan>>

\* Faulty variant: the pop_front() of next() is missing.
LeaveRunqStay(t, rq, l) ==
  /\ status' = [status EXCEPT ![t] = IF @ = "RUNNING_REG" THEN "RUNNABLE"
                                     ELSE "INTER_PRO_STOP"]
  /\ runq' = rq
  /\ strategy' = "DEFAULT"
  /\ ret' = l
  /\ Goto(t, "check")
  /\ UNCHANGED <<wakenUp, inter_pro_wakeup_tids, nthread, scan>>

\* next() of a thread that gives up its place in the queue rq, up to
\* check_wakeup(); l is where the thread goes once the turn is passed.
LeaveRunq(t, rq, l) ==
  /\ status' = [status EXCEPT ![t] = IF @ = "RUNNING_REG" THEN "RUNNABLE"
                                     ELSE "INTER_PRO_STOP"]
  /\ runq' = Tail(rq)
  /\ strategy' = "DEFAULT"
  /\ ret' = l
  /\ Goto(t, "check")
  /\ UNCHANGED <<wakenUp, inter_pro_wakeup_tids, nthread, scan>>

\* wait(c, n) after its incTurnCount(), up to check_wakeup().
wait(t, c, n, l) ==
  /\ chan' = [chan EXCEPT ![t] = c]
  /\ timeout' = [timeout EXCEPT ![t] = n]
  /\ waitq' = Append(waitq, t)
  /\ LeaveRunq(t, runq, l)

-----------------------------------------------------------------------------
(* Steps common to every operation. *)

\* Faulty variant: wakenUp is not reset.
getTurnKeep(t) ==
  /\ wakenUp[t]
  /\ \/ pc[t] \in {"run", "wait"} /\ at[t] \notin {"setdone", "raw", "rawsignal"}
        /\ Goto(t, "turn")
     \/ pc[t] = "block" /\ Goto(t, "bturn")
  /\ UNCHANGED <<queues, status, wakenUp, inter_pro_wakeup_tids, nthread, zombies,
                 idle, at, strategy, ret, scan>>

getTurn(t) ==
  /\ wakenUp[t]
  /\ \/ pc[t] \in {"run", "wait"} /\ at[t] \notin {"setdone", "raw", "rawsignal"}
        /\ Goto(t, "turn")
     \/ pc[t] = "block" /\ Goto(t, "bturn")
  /\ wakenUp' = [wakenUp EXCEPT ![t] = FALSE]
  /\ UNCHANGED <<queues, status, inter_pro_wakeup_tids, nthread, zombies, idle,
                 at, strategy, ret, scan>>

\* incTurnCount(): fireTimeouts() moves the waiters whose turn has passed, in
\* the order of the wait queue, then check_wakeup().
\* Faulty variant of Expired: one turn late.
ExpiredLate == {t \in Range(waitq) : timeout[t] = -1}
Expired == {t \in Range(waitq) : timeout[t] = 0}

incTurnCount(t) ==
  /\ \/ pc[t] = "acted" /\ Goto(t, "ticked")
     \/ pc[t] = "turn" /\ at[t] \notin {"unlock", "unlockdone", "signal"}
        /\ Goto(t, "ticked")
     \/ pc[t] = "bturn" /\ Goto(t, "bticked")
  /\ \E q \in InOrder(Expired, waitq) : check_wakeup(runq \o q)
  /\ waitq' \in InOrder(Range(waitq) \ Expired, waitq)
  /\ chan' = [u \in Tid |-> IF u \in Expired THEN NULL ELSE chan[u]]
  /\ timeout' = [u \in Tid |->
       IF u \in Expired \/ timeout[u] = FOREVER THEN FOREVER ELSE timeout[u] - 1]
  /\ UNCHANGED <<status, wakenUp, nthread, zombies, idle, at, strategy, ret, scan>>

\* The check_wakeup() of next().
checkWakeup(t) ==
  /\ pc[t] = "check"
  /\ check_wakeup(runq)
  /\ Goto(t, "next")
  /\ UNCHANGED <<waitq, chan, timeout, status, wakenUp, nthread, zombies, idle,
                 at, strategy, ret, scan>>

\* One iteration of nextRunnable()'s loop, under the spinlock of the head: a
\* thread in a blocking call is dropped from the queue, a thread of another role
\* is skipped, and any other thread is posted the turn.
nextRunnable(t) ==
  /\ pc[t] = "next"
  /\ runq # <<>>
  /\ LET h == Head(runq) IN
     \/ /\ status[h] = "INTER_PRO_STOP"
        /\ runq' = Tail(runq)
        /\ UNCHANGED <<status, wakenUp, pc>>
     \/ /\ status[h] # "INTER_PRO_STOP"
        /\ strategy = "CURRENT_ROLE" => Role(h) = Role(t)
        /\ status' = [status EXCEPT ![h] = IF @ = "RUNNABLE" THEN "RUNNING_REG" ELSE @]
        /\ wakenUp' = [wakenUp EXCEPT ![h] = TRUE]
        /\ Goto(t, ret)
        /\ UNCHANGED runq
     \/ /\ status[h] # "INTER_PRO_STOP"
        /\ strategy = "CURRENT_ROLE" /\ Role(h) # Role(t)
        /\ runq' = Append(Tail(runq), h)
        /\ UNCHANGED <<status, wakenUp, pc>>
  /\ UNCHANGED <<waitq, chan, timeout, inter_pro_wakeup_tids, nthread, zombies,
                 idle, at, strategy, ret, scan>>

\* nextRunnable() with an empty queue at a thread end: no turn to pass on.
InvalidTurn(t) == ret = "done" /\ (waitq = <<>> \/ t = MainThreadTid)

noNextThread(t) ==
  /\ pc[t] = "next" /\ runq = <<>>
  /\ InvalidTurn(t)
  /\ Goto(t, "done")
  /\ UNCHANGED <<queues, status, wakenUp, inter_pro_wakeup_tids, nthread, zombies,
                 idle, at, strategy, ret, scan>>

\* wakeUpIdleThread(): the caller exits when the idle thread is done, else it
\* moves the idle thread to the run queue ...
wakeUpIdleThread(t) ==
  /\ pc[t] = "next" /\ runq = <<>>
  /\ ~InvalidTurn(t)
  /\ \/ /\ idle_done
        /\ Goto(t, "done")
        /\ UNCHANGED <<queues, strategy>>
     \/ /\ ~idle_done
        /\ IdleThreadTid \in Range(waitq)
        /\ runq' = <<IdleThreadTid>>
        /\ Reset({IdleThreadTid})
        /\ strategy' = "DEFAULT"
        /\ Goto(t, "poke")
  /\ UNCHANGED <<status, wakenUp, inter_pro_wakeup_tids, nthread, zombies, idle,
                 at, ret, scan>>

\* pthread_cond_signal(&idle_cond): the idle thread, if in pthread_cond_wait.
SignalIdleCond(p) ==
  pc' = IF p[IdleThreadTid] = "sleep" THEN [p EXCEPT ![IdleThreadTid] = "reacq"] ELSE p

\* ... and signals it with idle_mutex held.
signalIdleCond(t) ==
  /\ pc[t] = "poke"
  /\ idle_mutex = InvalidTid
  /\ SignalIdleCond([pc EXCEPT ![t] = "next"])
  /\ UNCHANGED <<queues, status, wakenUp, inter_pro_wakeup_tids, nthread, zombies,
                 idle, at, strategy, ret, scan>>

-----------------------------------------------------------------------------
(* Operations of the application. *)

\* pthreadCreate while it holds the turn: Scheduler::create.
pthreadCreate(t) ==
  /\ pc[t] = "turn" /\ at[t] = "app"
  /\ nthread < NTHREAD
  /\ nthread' = nthread + 1
  /\ runq' = Append(runq, nthread)
  /\ pc' = [pc EXCEPT ![t] = "acted", ![nthread] = "run"]
  /\ UNCHANGED <<waitq, chan, timeout, status, wakenUp, inter_pro_wakeup_tids,
                 zombies, idle, at, strategy, ret, scan>>

\* An operation that signals channel c (unlock, cond_signal, sem_post, ...).
syncSignal(t, c, all) ==
  /\ pc[t] = "turn" /\ at[t] = "app"
  /\ signal(c, all)
  /\ Goto(t, "acted")
  /\ UNCHANGED <<status, wakenUp, inter_pro_wakeup_tids, nthread, zombies, idle,
                 at, strategy, ret, scan>>

\* An operation that waits on channel c (lock, cond_wait, sem_wait, ...), for n
\* turns; the sleeps wait on no channel.
syncWait(t, c, n) ==
  /\ pc[t] = "ticked" /\ at[t] = "app"
  /\ c = NULL => n # FOREVER
  /\ wait(t, c, n, "wait")
  /\ UNCHANGED <<zombies, idle, at>>

\* The end of an operation that does not wait.
schedTimerEnd(t) ==
  /\ pc[t] = "ticked" /\ at[t] = "app"
  /\ \E s \in PutStrategy(t) : putTurn(t, s)
  /\ UNCHANGED <<zombies, idle, at>>

\* pthreadJoin on u: wait on its channel, or reap it and go on to l.
pthreadJoin(t, u, l) ==
  /\ pc[t] = "ticked"
  /\ \/ /\ u \notin zombies
        /\ wait(t, u, FOREVER, "wait")
        /\ UNCHANGED <<zombies, at>>
     \/ /\ u \in zombies /\ pc[u] = "done"
        /\ zombies' = zombies \ {u}
        /\ \E s \in PutStrategy(t) : putTurn(t, s)
        /\ Then(t, l)
  /\ UNCHANGED idle

\* Faulty variant: the joiner is not signalled.
threadEndSilent(t) ==
  /\ pc[t] = "ticked"
  /\ at[t] = "exit" \/ (at[t] = "app" /\ t # MainThreadTid)
  /\ LeaveRunq(t, runq, "done")
  /\ zombies' = zombies \cup {t}
  /\ UNCHANGED <<waitq, chan, timeout, idle, at>>

\* threadEnd: putTurn(true) signals the joiner and leaves the queue for good.
threadEnd(t) ==
  /\ pc[t] = "ticked"
  /\ at[t] = "exit" \/ (at[t] = "app" /\ t # MainThreadTid)
  /\ \E q \in InOrder(FirstWaiter(t), waitq) : LeaveRunq(t, runq \o q, "done")
  /\ Reset(FirstWaiter(t))
  /\ zombies' = zombies \cup {t}
  /\ UNCHANGED <<idle, at>>

\* BLOCK_TIMER_START: a thread whose turn has not come only marks its element.
interProStart(t) ==
  /\ pc[t] = "run" /\ at[t] = "app" /\ t \in Networked
  /\ \/ /\ status[t] = "RUNNABLE"
        /\ status' = [status EXCEPT ![t] = "INTER_PRO_STOP"]
        /\ Goto(t, "call")
     \/ /\ status[t] # "RUNNABLE"
        /\ status' = [status EXCEPT ![t] = "RUNNING_INTER_PRO"]
        /\ Goto(t, "block")
  /\ UNCHANGED <<queues, wakenUp, inter_pro_wakeup_tids, nthread, zombies, idle,
                 at, strategy, ret, scan>>

\* block(), once it has the turn and has counted it.
block(t) ==
  /\ pc[t] = "bticked"
  /\ LeaveRunq(t, runq, "call")
  /\ UNCHANGED <<waitq, chan, timeout, zombies, idle, at>>

\* BLOCK_TIMER_END: interProEnd(), then wakeup().
interProEnd(t) ==
  /\ pc[t] = "call"
  /\ status' = [status EXCEPT ![t] = "RUNNABLE"]
  /\ Goto(t, "ended")
  /\ UNCHANGED <<queues, wakenUp, inter_pro_wakeup_tids, nthread, zombies, idle,
                 at, strategy, ret, scan>>

wakeup(t) ==
  /\ pc[t] = "ended"
  /\ inter_pro_wakeup_tids' = inter_pro_wakeup_tids \cup {t}
  /\ Goto(t, "run")
  /\ UNCHANGED <<queues, status, wakenUp, nthread, zombies, idle, at, strategy,
                 ret, scan>>

-----------------------------------------------------------------------------
(* The idle thread's loop and __tern_prog_end.  Both lock idle_mutex under the
   turn; pthread_cond_wait and the end of __tern_prog_end use it without.     *)

\* pthreadMutexLock: trylock, and wait on the mutex when it is held.  (The
\* trylock commutes with incTurnCount(), which comes first here.)
lockIdleMutex(t, l) ==
  /\ pc[t] = "ticked" /\ at[t] = "lock"
  /\ \/ /\ idle_mutex = InvalidTid
        /\ idle_mutex' = t
        /\ \E s \in PutStrategy(t) : putTurn(t, s)
        /\ Then(t, l)
     \/ /\ idle_mutex # InvalidTid
        /\ wait(t, IdleMutex, FOREVER, "wait")
        /\ UNCHANGED <<idle_mutex, at>>
  /\ UNCHANGED <<zombies, idle_done>>

\* pthreadMutexUnlock and pthreadCondSignal, up to incTurnCount().
unlockIdleMutex(t) ==
  /\ pc[t] = "turn" /\ at[t] \in {"unlock", "unlockdone"}
  /\ idle_mutex' = InvalidTid
  /\ signal(IdleMutex, FALSE)
  /\ Goto(t, "acted")
  /\ UNCHANGED <<status, wakenUp, inter_pro_wakeup_tids, nthread, zombies,
                 idle_done, at, strategy, ret, scan>>

condSignalIdle(t) ==
  /\ pc[t] = "turn" /\ at[t] = "signal"
  /\ signal(IdleCond, FALSE)
  /\ Goto(t, "acted")
  /\ UNCHANGED <<status, wakenUp, inter_pro_wakeup_tids, nthread, zombies, idle,
                 at, strategy, ret, scan>>

\* The end of operation l1 of threadBegin, the idle thread or __tern_prog_end; l2
\* follows.
endOp(t, l1, l2) ==
  /\ pc[t] = "ticked" /\ at[t] = l1
  /\ \E s \in PutStrategy(t) : putTurn(t, s)
  /\ Then(t, l2)
  /\ UNCHANGED <<zombies, idle>>

\* threadBegin, after the handshake with pthreadCreate.
threadBegin(t) == endOp(t, "begin", IF t = IdleThreadTid THEN "lock" ELSE "app")

\* idle_cond_wait(): with other threads in the run queue, see in tryPutTurn()
\* if one of them can take the turn, else just put the turn.
idleCondWait ==
  /\ pc[IdleThreadTid] = "ticked" /\ at[IdleThreadTid] = "cond"
  /\ \/ /\ Len(runq) >= 2
        /\ scan' = 2
        /\ Goto(IdleThreadTid, "try")
        /\ UNCHANGED <<queues, status, wakenUp, inter_pro_wakeup_tids, nthread,
                       at, strategy, ret>>
     \/ /\ Len(runq) < 2
        /\ putTurn(IdleThreadTid, "DEFAULT")
        /\ Then(IdleThreadTid, "unlock")
  /\ UNCHANGED <<zombies, idle>>

\* Faulty variant: the thread found moves up in the run queue.
tryPutTurnUp ==
  /\ pc[IdleThreadTid] = "try"
  /\ scan <= Len(runq)
  /\ \/ /\ status[runq[scan]] = "RUNNABLE"
        /\ status' = [status EXCEPT ![runq[scan]] = "RUNNING_REG"]
        /\ runq' = <<Head(runq), runq[scan]>> \o SubSeq(runq, 2, scan - 1)
                     \o SubSeq(runq, scan + 1, Len(runq))
        /\ Goto(IdleThreadTid, "tried")
        /\ UNCHANGED scan
     \/ /\ status[runq[scan]] # "RUNNABLE"
        /\ scan' = scan + 1
        /\ UNCHANGED <<runq, status, pc>>
  /\ UNCHANGED <<waitq, chan, timeout, wakenUp, inter_pro_wakeup_tids, nthread,
                 zombies, idle, at, strategy, ret>>

\* One iteration of tryPutTurn()'s loop, under the spinlock of the element.
tryPutTurn ==
  /\ pc[IdleThreadTid] = "try"
  /\ scan <= Len(runq)
  /\ \/ /\ status[runq[scan]] = "RUNNABLE"
        /\ status' = [status EXCEPT ![runq[scan]] = "RUNNING_REG"]
        /\ Goto(IdleThreadTid, "tried")
        /\ UNCHANGED scan
     \/ /\ status[runq[scan]] # "RUNNABLE"
        /\ scan' = scan + 1
        /\ UNCHANGED <<status, pc>>
  /\ UNCHANGED <<queues, wakenUp, inter_pro_wakeup_tids, nthread, zombies, idle,
                 at, strategy, ret>>

\* The rest of idleThreadCondWait(), for both results of tryPutTurn().
idleThreadCondWait ==
  /\ \/ /\ pc[IdleThreadTid] = "tried"
        /\ wait(IdleThreadTid, IdleCond, FOREVER, "tocond")
        /\ UNCHANGED at
     \/ /\ pc[IdleThreadTid] = "try" /\ scan > Len(runq)
        /\ putTurn(IdleThreadTid, "DEFAULT")
        /\ Then(IdleThreadTid, "unlock")
  /\ UNCHANGED <<zombies, idle>>

\* pthread_cond_wait(&idle_cond, &idle_mutex): release, wake up, lock again.
condWait ==
  /\ \/ /\ pc[IdleThreadTid] = "tocond"
        /\ idle_mutex' = InvalidTid
        /\ Goto(IdleThreadTid, "sleep")
        /\ UNCHANGED at
     \/ /\ pc[IdleThreadTid] = "sleep" /\ SpuriousWakeup
        /\ Goto(IdleThreadTid, "reacq")
        /\ UNCHANGED <<idle_mutex, at>>
     \/ /\ pc[IdleThreadTid] = "reacq" /\ idle_mutex = InvalidTid
        /\ idle_mutex' = IdleThreadTid
        /\ Goto(IdleThreadTid, "run")
        /\ Then(IdleThreadTid, "unlock")
  /\ UNCHANGED <<queues, status, wakenUp, inter_pro_wakeup_tids, nthread, zombies,
                 idle_done, strategy, ret, scan>>

\* The parts of __tern_prog_end outside the scheduler: its start, idle_done = 1,
\* and the lock, signal and unlock of idle_mutex without the turn.
progEndStart ==
  /\ at[MainThreadTid] = "app"
  /\ Then(MainThreadTid, "stat")
  /\ UNCHANGED <<idle, pc>>

idleDone ==
  /\ at[MainThreadTid] = "setdone"
  /\ idle_done' = TRUE
  /\ Then(MainThreadTid, "unlock")
  /\ UNCHANGED <<idle_mutex, pc>>

rawLock ==
  /\ at[MainThreadTid] = "raw" /\ idle_mutex = InvalidTid
  /\ idle_mutex' = MainThreadTid
  /\ Then(MainThreadTid, "rawsignal")
  /\ UNCHANGED <<idle_done, pc>>

rawSignal ==
  /\ at[MainThreadTid] = "rawsignal"
  /\ SignalIdleCond(pc)
  /\ idle_mutex' = InvalidTid
  /\ Then(MainThreadTid, "join")
  /\ UNCHANGED idle_done

progEnd ==
  /\ pc[MainThreadTid] = "run"
  /\ progEndStart \/ idleDone \/ rawLock \/ rawSignal
  /\ UNCHANGED <<queues, status, wakenUp, inter_pro_wakeup_tids, nthread, zombies,
                 strategy, ret, scan>>

-----------------------------------------------------------------------------
\* The steps a thread takes by itself, without choosing an operation.
Step(t) ==
  \/ getTurn(t) \/ incTurnCount(t) \/ checkWakeup(t) \/ nextRunnable(t)
  \/ noNextThread(t) \/ wakeUpIdleThread(t) \/ signalIdleCond(t)
  \/ block(t) \/ wakeup(t)

\* POSIX: a thread is joined once, by one other thread.
Joinable(t, u) ==
  /\ u # t
  /\ pc[u] = "done" => u \in zombies
  /\ \A v \in Tid : chan[v] # u

AppOp(t) ==
  \/ threadBegin(t)
  \/ pthreadCreate(t)
  \/ \E c \in Chan, all \in BOOLEAN : syncSignal(t, c, all)
  \/ \E c \in Chan \cup {NULL}, n \in 0..FOREVER : syncWait(t, c, n)
  \/ schedTimerEnd(t)
  \/ \E u \in 2..(nthread - 1) : at[t] = "app" /\ Joinable(t, u) /\ pthreadJoin(t, u, "app")
  \/ threadEnd(t)
  \/ interProStart(t)

\* Faulty variant: the break is missing from idle_thread()'s loop.
IdleOpForever ==
  \/ lockIdleMutex(IdleThreadTid, IF idle_done THEN "unlockdone" ELSE "cond")
  \/ idleCondWait \/ tryPutTurn \/ idleThreadCondWait
  \/ unlockIdleMutex(IdleThreadTid)
  \/ endOp(IdleThreadTid, "unlock", "idlesleep")
  \/ endOp(IdleThreadTid, "idlesleep", "lock")
  \/ endOp(IdleThreadTid, "unlockdone", "lock")

IdleOp ==
  \/ lockIdleMutex(IdleThreadTid, IF idle_done THEN "unlockdone" ELSE "cond")
  \/ idleCondWait \/ tryPutTurn \/ idleThreadCondWait
  \/ unlockIdleMutex(IdleThreadTid)
  \/ endOp(IdleThreadTid, "unlock", "idlesleep")
  \/ endOp(IdleThreadTid, "idlesleep", "lock")
  \/ endOp(IdleThreadTid, "unlockdone", "exit")

ProgEndOp ==
  \/ endOp(MainThreadTid, "stat", "lock")
  \/ lockIdleMutex(MainThreadTid, "setdone")
  \/ unlockIdleMutex(MainThreadTid)
  \/ endOp(MainThreadTid, "unlock", "signal")
  \/ condSignalIdle(MainThreadTid)
  \/ endOp(MainThreadTid, "signal", "raw")
  \/ at[MainThreadTid] = "join" /\ pthreadJoin(MainThreadTid, IdleThreadTid, "exit")

\* Once the main thread is done the process may be gone at any time.
Terminated == pc[MainThreadTid] = "done" /\ UNCHANGED vars

Next ==
  \/ \E t \in Tid : Step(t) \/ AppOp(t) \/ interProEnd(t)
  \/ IdleOp \/ condWait \/ ProgEndOp \/ progEnd
  \/ Terminated

Spec == Init /\ [][Next]_vars

-----------------------------------------------------------------------------
(* Safety. *)

TypeOK ==
  /\ runq \in Seq(Tid) /\ waitq \in Seq(Tid)
  /\ status \in [Tid -> Status]
  /\ chan \in [Tid -> Channel \cup {NULL}]
  /\ timeout \in [Tid -> 0..FOREVER]
  /\ wakenUp \in [Tid -> BOOLEAN]
  /\ inter_pro_wakeup_tids \subseteq Tid
  /\ nthread \in 2..NTHREAD
  /\ zombies \subseteq Tid
  /\ idle_mutex \in {InvalidTid, MainThreadTid, IdleThreadTid}
  /\ idle_done \in BOOLEAN
  /\ pc \in [Tid -> PC]
  /\ at \in [Tid -> At]
  /\ strategy \in {"DEFAULT", "CURRENT_THREAD", "CURRENT_ROLE"}
  /\ ret \in {"run", "wait", "call", "tocond", "done"}
  /\ scan \in Nat \ {0}

\* A thread has the turn when it is posted or when it holds it.
HasTurn(t) == wakenUp[t] \/ pc[t] \in TurnPC

\* The turn is a token: at most one thread holds it or has been posted it, and
\* the holder has not been posted a second one.  This is what serialises every
\* operation between getTurn() and putTurn(), and all access to the queues.
OneTurn ==
  /\ \A t, u \in Tid : HasTurn(t) /\ HasTurn(u) => t = u
  /\ \A t \in Tid : ~(wakenUp[t] /\ pc[t] \in TurnPC)

\* The asserts on runq.front() in putTurn, wait, signal, block, tryPutTurn,
\* compiled out by NDEBUG: the thread with the turn is the head of the run queue
\* until it starts to pass the turn on.  The pops rely on it.
HeadHoldsTurn ==
  \A t \in Tid :
    wakenUp[t] \/ pc[t] \in TurnPC \ {"check", "next", "poke"}
      => runq # <<>> /\ Head(runq) = t

\* selfcheck(): no thread is queued twice, the run queue holds no waiting thread
\* and the wait queue no thread that nothing would ever wake up.
SelfCheck ==
  /\ IsInjective(runq) /\ IsInjective(waitq)
  /\ Range(runq) \cap Range(waitq) = {}
  /\ \A t \in Range(runq) : chan[t] = NULL /\ timeout[t] = FOREVER
  /\ \A t \in Range(waitq) : chan[t] # NULL \/ timeout[t] # FOREVER

\* The status asserts of putTurn, next, interProStart and interProEnd, which
\* NDEBUG compiles out as well: whatever tryPutTurn() and nextRunnable() do to
\* the element of a thread, the thread finds the status its code relies on.
StatusAsserts ==
  \A t \in Tid :
    /\ pc[t] \in {"turn", "acted", "ticked", "try", "tried"} => status[t] = "RUNNING_REG"
    /\ pc[t] \in {"block", "bturn", "bticked"} => status[t] = "RUNNING_INTER_PRO"
    /\ pc[t] \in {"run", "wait"} => status[t] \in {"RUNNABLE", "RUNNING_REG"}
    /\ pc[t] = "call" => status[t] = "INTER_PRO_STOP"

\* No thread is lost by the lazy removal of blocked threads: one that wants the
\* turn is in a queue, or in the set that the next check_wakeup() requeues.
NoLostThread ==
  \A t \in Tid :
    /\ pc[t] \in {"run", "block"} =>
         t \in Range(runq) \cup inter_pro_wakeup_tids \/ (t = IdleThreadTid /\ t \in Range(waitq))
    /\ pc[t] \in {"wait", "tocond", "sleep", "reacq"} => t \in Range(runq) \cup Range(waitq)

\* The turn is never posted to a thread that is gone or not yet created.
TurnToTheLiving == \A t \in Tid : wakenUp[t] => pc[t] \notin {"none", "done"}

\* No thread sleeps in pthreadJoin on a thread that has already ended: the
\* signal of putTurn(true) and the zombie test of the joiner cannot miss.
NoMissedJoin == \A t \in Range(waitq) : chan[t] \notin zombies

\* The idle thread is gone when __tern_prog_end returns, as the comment there
\* requires: it uses the runtime.
IdleTerminated == pc[MainThreadTid] = "done" => pc[IdleThreadTid] = "done"

\* No cycle between the turn and idle_mutex: when the thread with the turn blocks
\* on the mutex (in wakeUpIdleThread, or in __tern_prog_end, where it has been
\* posted), the holder of the mutex does not need the turn to release it.
NoTurnMutexCycle ==
  ( \/ \E t \in Tid : pc[t] = "poke"
    \/ at[MainThreadTid] = "raw" /\ wakenUp[MainThreadTid] ) =>
      \/ idle_mutex = InvalidTid
      \/ idle_mutex = IdleThreadTid /\ pc[IdleThreadTid] = "tocond"
      \/ idle_mutex = MainThreadTid /\ at[MainThreadTid] = "rawsignal"

\* The asserts of nextRunnable() and wakeUpIdleThread(): when the run queue is
\* empty it is not the idle thread that is looking for a successor, and the idle
\* thread can be found in the wait queue.  tryPutTurn() is there for this.
IdleThreadReady ==
  \A t \in Tid :
    pc[t] = "next" /\ runq = <<>> /\ ~InvalidTurn(t) /\ ~idle_done =>
      t # IdleThreadTid /\ IdleThreadTid \in Range(waitq)

\* The turn is never lost: until the main thread is done, some thread has it.
TurnKept == pc[MainThreadTid] = "done" \/ \E t \in Tid : HasTurn(t)

\* What the idle thread is for and what it must not do, in one: it takes the turn
\* that nobody else can (nextRunnable), it ends with the program
\* (__tern_prog_end), and neither of the two blocks on idle_mutex for the turn.
IdleThreadServes == IdleThreadReady /\ TurnKept /\ IdleTerminated /\ NoTurnMutexCycle

\* The scheduler implements the one-turn serializer of TurnToken.
Token == INSTANCE TurnToken WITH
  Thread <- Tid,
  posted <- {t \in Tid : wakenUp[t]},
  holding <- {t \in Tid : pc[t] \in TurnPC}

\* Every step of the scheduler is a step of the abstract turn or leaves it alone:
\* getTurn() takes it, the last step of next() posts it, thread ends may drop it.
ImplementsToken == Token!Spec

\* Round robin: no step changes the order of two threads of the run queue, save
\* for the head, which may go to the back.
NoOvertaking ==
  [][\A t, u \in Range(runq) \cap Range(runq') :
       Before(runq, t, u) /\ t # Head(runq) => Before(runq', t, u)]_vars

\* Waiters of a channel are served first come, first served: one that leaves the
\* wait queue before its timeout leaves nobody behind that came earlier, and two
\* that leave together enter the run queue in the order they came.
FirstComeFirstServed ==
  [][\A t, u \in Range(waitq) :
       Before(waitq, t, u) /\ chan[t] = chan[u] /\ u \notin Range(waitq') =>
         \/ timeout[u] = 0
         \/ t \notin Range(waitq') /\ Before(runq', t, u)]_vars

-----------------------------------------------------------------------------
(* Liveness.  A thread outside a blocking call reaches its next operation, and
   goes on with an operation it has started; only the choice to end a blocking
   call is left to the environment.                                          *)

OwnStep(t) ==
  \/ Step(t)
  \/ threadBegin(t) \/ schedTimerEnd(t) \/ threadEnd(t)
  \/ t = IdleThreadTid /\ (IdleOp \/ condWait)
  \/ t = MainThreadTid /\ (ProgEndOp \/ (at[t] # "app" /\ progEnd))

FairSpec == Spec /\ \A t \in Tid : WF_vars(OwnStep(t))

Over == pc[MainThreadTid] = "done"

\* A thread in the run queue, or back from a blocking call, is given the turn unless
\* it enters another call, however long the other threads stay in theirs.
EveryoneGetsTheTurn ==
  \A t \in Tid :
    t \in Range(runq) \/ pc[t] = "ended" ~> (HasTurn(t) \/ pc[t] = "call" \/ Over)

\* A timed wait returns even when every other thread is blocked, because the idle
\* thread, which takes no timed wait itself, keeps counting turns.
TimedWaitsReturn ==
  \A t \in Tid \ {IdleThreadTid} :
    (pc[t] = "wait" /\ timeout[t] # FOREVER) ~> (pc[t] # "wait" \/ Over)

\* nextRunnable() comes to an end ("This loop is guaranteed to finish").
NextRunnableFinishes ==
  \A t \in Tid : pc[t] = "next" ~> pc[t] \notin {"next", "poke"}

\* Nobody is starved: queued threads, threads back from a call and timed waiters
\* go on, and the search for the next thread ends.
ThreadsGoOn == EveryoneGetsTheTurn /\ TimedWaitsReturn /\ NextRunnableFinishes

\* No application thread will ask for the turn any more.
Quiet ==
  \A t \in Tid \ {MainThreadTid, IdleThreadTid} :
    \/ pc[t] \in {"none", "call", "done"}
    \/ pc[t] = "wait" /\ t \in Range(waitq) /\ timeout[t] = FOREVER

\* __tern_prog_end terminates the idle thread and then the main thread, provided
\* the application threads end, block or wait for good: see ProgEndUnaided.
ProgEndTerminates ==
  <>[](at[MainThreadTid] # "app" /\ Quiet) => <>(Over /\ pc[IdleThreadTid] = "done")

\* The same without the proviso: what __tern_prog_end sets out to do.
ProgEndUnaided == at[MainThreadTid] = "stat" ~> (Over /\ pc[IdleThreadTid] = "done")
=============================================================================
