-------------------------- MODULE RRSchedulerMutex --------------------------
(***************************************************************************)
(* idle_mutex, which the main thread and the idle thread lock both under   *)
(* the turn and without it: who can hold it and who can wait for it.       *)
(***************************************************************************)
EXTENDS RRSchedulerProofs

\* The holder of idle_mutex is between its lock and its unlock.
HolderInv ==
  \A t \in {MainThreadTid, IdleThreadTid} : idle_mutex = t =>
    /\ at[t] \in {"cond", "unlock", "unlockdone", "setdone", "rawsignal"}
    /\ at[t] \in {"unlock", "unlockdone"} => pc[t] \notin {"acted", "ticked"}

\* The idle thread is in idle_cond_wait() while it runs its code.
CondInv ==
  ( \/ pc[IdleThreadTid] \in {"try", "tried", "tocond", "sleep", "reacq"}
    \/ InNext(IdleThreadTid) /\ ret = "tocond" )
  => at[IdleThreadTid] = "cond"

\* The sleepers on idle_mutex are locking it, only the idle thread sleeps on
\* idle_cond, and it sleeps on nothing but these two.
SleepersInv ==
  /\ \A t \in Range(waitq) :
       /\ chan[t] = IdleMutex => at[t] = "lock" /\ t \in {MainThreadTid, IdleThreadTid}
       /\ chan[t] = IdleCond => t = IdleThreadTid
       /\ t = IdleThreadTid => chan[t] \in {IdleMutex, IdleCond}
  /\ ~ /\ MainThreadTid \in Range(waitq) /\ chan[MainThreadTid] = IdleMutex
       /\ IdleThreadTid \in Range(waitq) /\ chan[IdleThreadTid] = IdleMutex

\* Inductive together with IInv.
MutexInv == HolderInv /\ CondInv /\ SleepersInv

\* Threads that leave the wait queue, and steps of others.
LEMMA SleepersLeave ==
  ASSUME SleepersInv,
         \A u \in Range(waitq') : u \in Range(waitq) /\ chan'[u] = chan[u] /\ at'[u] = at[u]
  PROVE  SleepersInv'
  BY DEF SleepersInv

\* The end of an operation of t that goes on to l.
LEMMA PutTurnMutex ==
  ASSUME IInv, MutexInv, NEW t \in Tid, pc[t] \in {"ticked", "try"}, NEW s, putTurn(t, s),
         NEW l, at' = [at EXCEPT ![t] = l],
         idle_mutex' = idle_mutex \/ idle_mutex' = t,
         idle_mutex' = t => l \in {"cond", "unlock", "unlockdone", "setdone", "rawsignal"}
  PROVE  MutexInv'
  <1>1. /\ t \notin Range(waitq) /\ pc' = [pc EXCEPT ![t] = "check"] /\ ret' = "run"
        /\ waitq' = waitq /\ chan' = chan
    BY AtHead DEF putTurn, Goto, TurnPC
  <1>2. pc \in [Tid -> PC] /\ at \in [Tid -> At] /\ Range(waitq) \subseteq Tid
    BY RangeIndex DEF IInv, TypeOK
  <1>3. HolderInv'
    BY <1>1, <1>2, TidFacts DEF MutexInv, HolderInv
  <1>4. CondInv'
    BY <1>1, <1>2, TidFacts DEF MutexInv, CondInv, InNext, IInv, ThreadInv
  <1>5. SleepersInv'
    BY <1>1, <1>2, SleepersLeave DEF MutexInv
  <1> QED BY <1>3, <1>4, <1>5 DEF MutexInv

\* A thread that goes to sleep.
LEMMA WaitMutex ==
  ASSUME IInv, MutexInv, NEW t \in Tid, pc[t] \in {"ticked", "tried"},
         NEW c, NEW n, NEW l, wait(t, c, n, l), UNCHANGED <<at, idle_mutex>>,
         l = "tocond" => t = IdleThreadTid /\ at[t] = "cond",
         c = IdleMutex => /\ at[t] = "lock" /\ t \in {MainThreadTid, IdleThreadTid}
                          /\ idle_mutex # InvalidTid,
         c = IdleCond => t = IdleThreadTid,
         t = IdleThreadTid => c \in {IdleMutex, IdleCond}
  PROVE  MutexInv'
  <1>1. /\ t \notin Range(waitq) /\ pc' = [pc EXCEPT ![t] = "check"] /\ ret' = l
        /\ waitq' = Append(waitq, t) /\ chan' = [chan EXCEPT ![t] = c]
    BY AtHead DEF wait, LeaveRunq, Goto, TurnPC
  <1>2. /\ pc \in [Tid -> PC] /\ at \in [Tid -> At] /\ Range(waitq) \subseteq Tid
        /\ chan \in [Tid -> Channel \cup {NULL}] /\ Range(waitq') = Range(waitq) \cup {t}
        /\ idle_mutex \in {InvalidTid, MainThreadTid, IdleThreadTid}
    BY <1>1, RangeIndex, AppendQueue DEF IInv, TypeOK
  <1>3. HolderInv'
    BY <1>1, <1>2, TidFacts DEF MutexInv, HolderInv
  <1>4. CondInv'
    <2>1. \A u \in Tid : u # t => ~InNext(u)
      BY AtHead DEF TurnPC, InNext
    <2> QED BY <1>1, <1>2, <2>1, TidFacts DEF MutexInv, CondInv, InNext, IInv, ThreadInv
  <1>5. SleepersInv'
    <2>1. /\ \A u \in Range(waitq) : chan'[u] = chan[u] /\ at'[u] = at[u]
          /\ chan'[t] = c /\ at'[t] = at[t]
      BY <1>1, <1>2
    <2>2. c = IdleMutex => \A u \in {MainThreadTid, IdleThreadTid} \ {t} :
                              u \in Range(waitq) => chan[u] # IdleMutex
      BY <1>2 DEF MutexInv, HolderInv, SleepersInv
    <2>3. MainThreadTid # IdleThreadTid
      BY DEF MainThreadTid, IdleThreadTid
    <2> QED BY <1>2, <2>1, <2>2, <2>3 DEF MutexInv, SleepersInv
  <1> QED BY <1>3, <1>4, <1>5 DEF MutexInv

\* The steps of next() and of the counting of a turn: the sleepers only leave.
LEMMA StepSleepers ==
  ASSUME IInv, NEW t \in Tid, Step(t)
  PROVE  /\ \A u \in Range(waitq') : u \in Range(waitq) /\ chan'[u] = chan[u]
         /\ UNCHANGED <<at, idle_mutex>>
  <1>0. waitq \in Seq(Tid) /\ Range(waitq) \subseteq Tid
    BY RangeIndex DEF IInv, TypeOK
  <1>1. CASE \/ getTurn(t) \/ checkWakeup(t) \/ nextRunnable(t) \/ noNextThread(t)
             \/ signalIdleCond(t) \/ block(t) \/ wakeup(t)
    BY <1>1 DEF getTurn, checkWakeup, nextRunnable, noNextThread, signalIdleCond, block,
                wakeup, queues, idle
  <1>2. CASE incTurnCount(t)
    <2>1. Range(waitq) \ Expired \in SUBSET Tid
      BY <1>0
    <2>2. Range(waitq') = Range(waitq) \ Expired
      BY <1>2, <2>1, InOrderQueue DEF incTurnCount
    <2> QED BY <1>0, <1>2, <2>2 DEF incTurnCount, idle
  <1>3. CASE wakeUpIdleThread(t)
    <2>1. CASE UNCHANGED queues
      BY <1>3, <2>1 DEF wakeUpIdleThread, queues, idle
    <2>2. CASE IdleThreadTid \in Range(waitq) /\ Reset({IdleThreadTid})
      <3>1. Range(waitq') = Range(waitq) \ {IdleThreadTid}
            /\ \A u \in Tid : chan'[u] = IF u \in {IdleThreadTid} THEN NULL ELSE chan[u]
        BY <2>2, ResetQueue
      <3> QED BY <1>0, <1>3, <3>1 DEF wakeUpIdleThread, idle
    <2> QED BY <1>3, <2>1, <2>2 DEF wakeUpIdleThread
  <1> QED BY <1>1, <1>2, <1>3 DEF Step

LEMMA StepMutex ==
  ASSUME IInv, MutexInv, NEW t \in Tid, Step(t)
  PROVE  MutexInv'
  <1>0. /\ pc \in [Tid -> PC] /\ at' = at /\ idle_mutex' = idle_mutex
        /\ MainThreadTid \in Tid /\ IdleThreadTid \in Tid
        /\ ret \in {"run", "wait", "call", "tocond", "done"}
    BY TidFacts, StepSleepers DEF IInv, TypeOK
  <1>1. CASE signalIdleCond(t)
    <2>1. HolderInv'
      BY <1>0, <1>1 DEF signalIdleCond, SignalIdleCond, MutexInv, HolderInv
    <2>2. CondInv'
      BY <1>0, <1>1 DEF signalIdleCond, SignalIdleCond, MutexInv, CondInv, InNext
    <2> QED BY <1>0, <2>1, <2>2, StepSleepers, SleepersLeave DEF MutexInv
  <1>2. CASE ~signalIdleCond(t)
    <2>1. /\ \A u \in Tid \ {t} : pc'[u] = pc[u]
          /\ \/ pc' = pc
             \/ pc'[t] \in {"turn", "bturn", "run"}
             \/ pc'[t] = "ticked" /\ (pc[t] = "acted" \/ at[t] \notin {"unlock", "unlockdone"})
             \/ pc'[t] = "bticked"
             \/ pc'[t] = "check" /\ pc[t] = "bticked"
             \/ pc'[t] \in {"next", "poke", "done", ret} /\ InNext(t)
      BY <1>0, <1>2 DEF Step, getTurn, incTurnCount, checkWakeup, nextRunnable, noNextThread,
         wakeUpIdleThread, block, LeaveRunq, wakeup, Goto, InNext
    <2>2. ret' = ret \/ pc[t] = "bticked"
      BY <1>2 DEF Step, getTurn, incTurnCount, checkWakeup, nextRunnable, noNextThread,
         wakeUpIdleThread, block, wakeup
    <2>3. HolderInv'
      BY <1>0, <2>1 DEF MutexInv, HolderInv, InNext
    <2>4. CASE pc[t] # "bticked"
      <3>1. ret' = ret
        BY <2>2, <2>4
      <3>2. CondInv'
        BY <1>0, <2>1, <2>4, <3>1 DEF MutexInv, CondInv, InNext
      <3> QED BY <1>0, <2>3, <3>2, StepSleepers, SleepersLeave DEF MutexInv
    <2>5. CASE pc[t] = "bticked"
      <3>1. ret' = "call" /\ t # IdleThreadTid
        BY <1>2, <2>5 DEF Step, getTurn, incTurnCount, checkWakeup, nextRunnable, noNextThread,
           wakeUpIdleThread, block, LeaveRunq, wakeup, IInv, ThreadInv
      <3>2. CondInv'
        BY <1>0, <2>1, <3>1 DEF MutexInv, CondInv, InNext
      <3> QED BY <1>0, <2>3, <3>2, StepSleepers, SleepersLeave DEF MutexInv
    <2> QED BY <2>4, <2>5
  <1> QED BY <1>1, <1>2

\* The operations that end with putTurn() or wait().
LEMMA EndMutex ==
  ASSUME IInv, MutexInv, NEW t \in Tid,
         \/ schedTimerEnd(t)
         \/ \E c \in Chan \cup {NULL}, n \in 0..FOREVER : syncWait(t, c, n)
         \/ \E u \in Tid : at[t] = "app" /\ pthreadJoin(t, u, "app")
         \/ t = MainThreadTid /\ at[t] = "join" /\ pthreadJoin(t, IdleThreadTid, "exit")
         \/ \E l1 \in {"begin", "stat", "unlock", "signal", "idlesleep", "unlockdone"} :
              \E l2 : endOp(t, l1, l2)
         \/ t \in {MainThreadTid, IdleThreadTid}
              /\ \E l \in {"cond", "unlockdone", "setdone"} : lockIdleMutex(t, l)
  PROVE  MutexInv'
  <1>0. /\ at \in [Tid -> At] /\ at = [at EXCEPT ![t] = at[t]]
        /\ idle_mutex \in {InvalidTid, MainThreadTid, IdleThreadTid}
        /\ InvalidTid \notin Tid /\ pc[t] \in {"ticked", "try"} /\ pc[t] \in {"ticked", "tried"}
    BY TidFacts DEF IInv, TypeOK, schedTimerEnd, syncWait, pthreadJoin, endOp, lockIdleMutex
  <1>1. at[t] \in {"app", "join", "begin", "stat", "unlock", "signal", "idlesleep", "unlockdone"}
          => idle_mutex # t
    BY <1>0 DEF MutexInv, HolderInv, schedTimerEnd, syncWait, pthreadJoin, endOp, lockIdleMutex
  <1>2. at[t] = "app" => t # IdleThreadTid
    BY DEF IInv, ThreadInv
  <1>3. CASE schedTimerEnd(t)
    <2>1. PICK s : putTurn(t, s)
      BY <1>3 DEF schedTimerEnd
    <2> QED BY <1>0, <1>1, <1>3, <2>1, PutTurnMutex DEF schedTimerEnd, idle
  <1>4. CASE \E c \in Chan \cup {NULL}, n \in 0..FOREVER : syncWait(t, c, n)
    <2>1. PICK c \in Chan \cup {NULL}, n \in 0..FOREVER : syncWait(t, c, n)
      BY <1>4
    <2>2. c # IdleMutex /\ c # IdleCond
      BY ChannelAssumption DEF Channel
    <2> QED BY <1>0, <1>2, <2>1, <2>2, WaitMutex DEF syncWait, idle
  <1>5. ASSUME NEW u \in Tid, NEW l, pthreadJoin(t, u, l), at[t] \in {"app", "join"},
               t # IdleThreadTid
        PROVE  MutexInv'
    <2>1. CASE \E s : putTurn(t, s) /\ Then(t, l)
      <3>1. PICK s : putTurn(t, s)
        BY <2>1
      <3> QED BY <1>0, <1>1, <1>5, <2>1, <3>1, PutTurnMutex DEF pthreadJoin, Then, idle
    <2>2. CASE wait(t, u, FOREVER, "wait") /\ UNCHANGED at
      <3>1. u # IdleMutex /\ u # IdleCond
        BY ChannelAssumption
      <3> QED BY <1>0, <1>5, <2>2, <3>1, WaitMutex DEF pthreadJoin, idle
    <2> QED BY <1>5, <2>1, <2>2 DEF pthreadJoin
  <1>6. ASSUME NEW l1, NEW l2, endOp(t, l1, l2),
               l1 \in {"begin", "stat", "unlock", "signal", "idlesleep", "unlockdone"}
        PROVE  MutexInv'
    <2>1. PICK s : putTurn(t, s)
      BY <1>6 DEF endOp
    <2> QED BY <1>0, <1>1, <1>6, <2>1, PutTurnMutex DEF endOp, Then, idle
  <1>7. ASSUME NEW l \in {"cond", "unlockdone", "setdone"}, lockIdleMutex(t, l),
               t \in {MainThreadTid, IdleThreadTid}
        PROVE  MutexInv'
    <2>1. CASE idle_mutex' = t /\ \E s : putTurn(t, s) /\ Then(t, l)
      <3>1. PICK s : putTurn(t, s)
        BY <2>1
      <3> QED BY <1>0, <1>7, <2>1, <3>1, PutTurnMutex DEF Then
    <2>2. CASE idle_mutex # InvalidTid /\ wait(t, IdleMutex, FOREVER, "wait")
               /\ UNCHANGED <<idle_mutex, at>>
      <3>1. IdleMutex # IdleCond
        BY ChannelAssumption
      <3> QED BY <1>0, <1>7, <2>2, <3>1, WaitMutex DEF lockIdleMutex
    <2> QED BY <1>7, <2>1, <2>2 DEF lockIdleMutex
  <1>8. MainThreadTid # IdleThreadTid
    BY DEF MainThreadTid, IdleThreadTid
  <1> QED BY <1>2, <1>3, <1>4, <1>5, <1>6, <1>7, <1>8, TidFacts

\* The operations that signal, create a thread or end one, and blocking calls.
LEMMA SignalMutex ==
  ASSUME IInv, MutexInv, NEW t \in Tid,
         \/ pthreadCreate(t) \/ threadEnd(t) \/ interProStart(t) \/ interProEnd(t)
         \/ unlockIdleMutex(t) \/ condSignalIdle(t) \/ \E c, all : syncSignal(t, c, all)
  PROVE  MutexInv'
  <1>0. /\ pc \in [Tid -> PC] /\ at' = at /\ Range(waitq) \subseteq Tid
        /\ MainThreadTid \in Tid /\ IdleThreadTid \in Tid /\ InvalidTid \notin Tid
    BY TidFacts, RangeIndex DEF IInv, TypeOK, pthreadCreate, threadEnd, interProStart, interProEnd,
       unlockIdleMutex, condSignalIdle, syncSignal
  <1>1. \A u \in Range(waitq') : u \in Range(waitq) /\ chan'[u] = chan[u]
    <2>1. ASSUME NEW S \in SUBSET Range(waitq), Reset(S)
          PROVE  \A u \in Range(waitq') : u \in Range(waitq) /\ chan'[u] = chan[u]
      BY <1>0, <2>1, ResetQueue
    <2>2. CASE threadEnd(t)
      <3>1. FirstWaiter(t) \in SUBSET Range(waitq) /\ Reset(FirstWaiter(t))
        BY <2>2 DEF threadEnd, FirstWaiter, Waiters
      <3> QED BY <2>1, <3>1
    <2>3. CASE unlockIdleMutex(t) \/ condSignalIdle(t) \/ \E c, all : syncSignal(t, c, all)
      <3>1. PICK c, all : signal(c, all)
        BY Zenon, <2>3 DEF unlockIdleMutex, condSignalIdle, syncSignal
      <3> QED BY <2>1, <3>1, SignalledWait DEF signal
    <2>4. CASE pthreadCreate(t) \/ interProStart(t) \/ interProEnd(t)
      BY <2>4 DEF pthreadCreate, interProStart, interProEnd, queues
    <2> QED BY <2>2, <2>3, <2>4
  <1>2. SleepersInv'
    BY <1>0, <1>1, SleepersLeave DEF MutexInv
  <1>3. CASE pthreadCreate(t)
    BY <1>0, <1>2, <1>3 DEF pthreadCreate, idle, MutexInv, HolderInv, CondInv, InNext, IInv, TypeOK
  <1>4. CASE threadEnd(t)
    <2>1. /\ pc' = [pc EXCEPT ![t] = "check"] /\ ret' = "done" /\ idle_mutex' = idle_mutex
      BY <1>4 DEF threadEnd, LeaveRunq, Goto, idle
    <2>2. HolderInv' /\ CondInv'
      BY <1>0, <2>1 DEF MutexInv, HolderInv, CondInv, InNext, IInv, ThreadInv
    <2> QED BY <1>2, <2>2 DEF MutexInv
  <1>5. CASE interProStart(t) \/ interProEnd(t)
    <2>1. /\ \E l \in {"call", "block", "ended"} : pc' = [pc EXCEPT ![t] = l]
          /\ ret' = ret /\ idle_mutex' = idle_mutex
      BY <1>5 DEF interProStart, interProEnd, Goto, idle
    <2>2. HolderInv' /\ CondInv'
      BY <1>0, <2>1 DEF MutexInv, HolderInv, CondInv, InNext
    <2> QED BY <1>2, <2>2 DEF MutexInv
  <1>6. CASE unlockIdleMutex(t) \/ condSignalIdle(t) \/ \E c, all : syncSignal(t, c, all)
    <2>1. /\ pc' = [pc EXCEPT ![t] = "acted"] /\ ret' = ret
          /\ \/ idle_mutex' = InvalidTid
             \/ idle_mutex' = idle_mutex /\ at[t] \notin {"unlock", "unlockdone"}
      BY <1>6 DEF unlockIdleMutex, condSignalIdle, syncSignal, Goto, idle
    <2>2. HolderInv' /\ CondInv'
      BY <1>0, <2>1 DEF MutexInv, HolderInv, CondInv, InNext
    <2> QED BY <1>2, <2>2 DEF MutexInv
  <1> QED BY <1>3, <1>4, <1>5, <1>6

\* The idle thread in idle_cond_wait() and __tern_prog_end without the turn.
LEMMA IdleMutexSteps ==
  ASSUME IInv, MutexInv, idleCondWait \/ tryPutTurn \/ idleThreadCondWait \/ condWait \/ progEnd
  PROVE  MutexInv'
  <1> DEFINE i == IdleThreadTid
             m == MainThreadTid
  <1>0. /\ pc \in [Tid -> PC] /\ at \in [Tid -> At] /\ Range(waitq) \subseteq Tid
        /\ m \in Tid /\ i \in Tid /\ m # i /\ InvalidTid \notin Tid
        /\ idle_mutex \in {InvalidTid, m, i}
    BY TidFacts, RangeIndex DEF IInv, TypeOK, MainThreadTid, IdleThreadTid
  <1>1. CASE tryPutTurn \/ (idleCondWait /\ Goto(i, "try") /\ UNCHANGED <<queues, at, ret>>)
    <2>1. /\ UNCHANGED <<waitq, chan, at, ret, idle_mutex>> /\ at[i] = "cond"
          /\ pc' = [pc EXCEPT ![i] = "try"] \/ pc' = [pc EXCEPT ![i] = "tried"] \/ pc' = pc
      BY <1>1 DEF tryPutTurn, idleCondWait, Goto, queues, idle, MutexInv, CondInv
    <2>2. HolderInv' /\ CondInv'
      BY <1>0, <2>1 DEF MutexInv, HolderInv, CondInv
    <2> QED BY <2>1, <2>2, SleepersLeave DEF MutexInv
  <1>2. CASE /\ pc[i] \in {"ticked", "try"} /\ putTurn(i, "DEFAULT") /\ Then(i, "unlock")
             /\ UNCHANGED idle
    BY <1>0, <1>2, PutTurnMutex DEF Then, idle
  <1>3. CASE /\ pc[i] = "tried" /\ wait(i, IdleCond, FOREVER, "tocond") /\ UNCHANGED at
             /\ UNCHANGED idle
    <2>1. IdleMutex # IdleCond /\ at[i] = "cond"
      BY <1>3, ChannelAssumption DEF MutexInv, CondInv
    <2> QED BY <1>0, <1>3, <2>1, WaitMutex DEF idle
  <1>4. CASE condWait
    <2>1. /\ pc[i] \in {"tocond", "sleep", "reacq"} /\ at[i] = "cond"
          /\ UNCHANGED <<waitq, chan, ret>>
          /\ \/ /\ pc' = [pc EXCEPT ![i] = "sleep"] \/ pc' = [pc EXCEPT ![i] = "reacq"]
                /\ at' = at /\ idle_mutex' \in {InvalidTid, idle_mutex}
             \/ /\ pc' = [pc EXCEPT ![i] = "run"] /\ at' = [at EXCEPT ![i] = "unlock"]
                /\ idle_mutex' = i
      BY <1>4 DEF condWait, Goto, Then, queues, MutexInv, CondInv
    <2>2. HolderInv' /\ CondInv'
      BY <1>0, <2>1 DEF MutexInv, HolderInv, CondInv, InNext
    <2>3. SleepersInv'
      <3>1. IdleMutex # IdleCond
        BY ChannelAssumption
      <3> QED BY <1>0, <2>1, <3>1 DEF MutexInv, SleepersInv
    <2> QED BY <2>2, <2>3 DEF MutexInv
  <1>5. CASE progEnd
    <2>1. /\ pc[m] = "run" /\ UNCHANGED <<waitq, chan, ret>> /\ m \notin Range(waitq)
      BY <1>0, <1>5 DEF progEnd, queues, IInv, PlaceInv, InNext
    <2>2. /\ pc' = pc \/ (pc[i] = "sleep" /\ pc' = [pc EXCEPT ![i] = "reacq"])
          /\ \E l \in {"stat", "unlock", "rawsignal", "join"} : at' = [at EXCEPT ![m] = l]
          /\ \/ idle_mutex' = InvalidTid
             \/ idle_mutex' = idle_mutex /\ at'[m] = "unlock"
             \/ idle_mutex' = idle_mutex /\ at[m] = "app"
             \/ idle_mutex' = m /\ at'[m] = "rawsignal"
      BY <1>0, <1>5 DEF progEnd, progEndStart, idleDone, rawLock, rawSignal, SignalIdleCond, Then, idle
    <2>3. HolderInv' /\ CondInv'
      BY <1>0, <2>1, <2>2 DEF MutexInv, HolderInv, CondInv, InNext
    <2>4. SleepersInv'
      BY <1>0, <2>1, <2>2, SleepersLeave DEF MutexInv
    <2> QED BY <2>3, <2>4 DEF MutexInv
  <1> QED BY <1>1, <1>2, <1>3, <1>4, <1>5 DEF idleCondWait, idleThreadCondWait

LEMMA NextMutex == IInv /\ MutexInv /\ [Next]_vars => MutexInv'
  <1> SUFFICES ASSUME IInv, MutexInv, [Next]_vars PROVE MutexInv'
    OBVIOUS
  <1>0. MainThreadTid \in Tid /\ IdleThreadTid \in Tid
    BY TidFacts
  <1>1. CASE UNCHANGED vars
    BY <1>1 DEF vars, MutexInv, HolderInv, CondInv, SleepersInv, InNext
  <1>2. ASSUME NEW t \in Tid, AppOp(t)
        PROVE  MutexInv'
    <2>1. 2..(nthread - 1) \subseteq Tid
      BY NThreadAssumption DEF IInv, TypeOK, Tid
    <2> QED BY <1>2, <2>1, EndMutex, SignalMutex DEF AppOp, threadBegin
  <1>3. CASE IdleOp
    BY <1>0, <1>3, EndMutex, SignalMutex, IdleMutexSteps DEF IdleOp
  <1>4. CASE ProgEndOp
    BY <1>0, <1>4, EndMutex, SignalMutex DEF ProgEndOp
  <1> QED BY <1>1, <1>2, <1>3, <1>4, StepMutex, SignalMutex, IdleMutexSteps DEF Next, Terminated

\* The whole inductive invariant of the scheduler.
SchedulerInv == IInv /\ MutexInv

\* idle_mutex, which is locked both under the turn and without it, is never waited
\* for by the main thread and the idle thread at once.
THEOREM MutexInvariance == Spec => []SchedulerInv
  <1>1. Init => MutexInv
    <2> SUFFICES ASSUME Init PROVE MutexInv
      OBVIOUS
    <2>1. Range(waitq) = {} /\ idle_mutex = InvalidTid
      BY DEF Init, Range
    <2>2. pc[IdleThreadTid] = "run"
      BY TidFacts DEF Init, IdleThreadTid
    <2> QED BY <2>1, <2>2, TidFacts DEF MutexInv, HolderInv, CondInv, SleepersInv, InNext
  <1> QED BY <1>1, NextMutex, Invariance, PTL DEF Spec, SchedulerInv
=============================================================================
