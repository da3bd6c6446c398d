-------------------------- MODULE RRSchedulerProofs -------------------------
(***************************************************************************)
(* Every step of RRScheduler keeps the inductive invariant, for any number *)
(* of threads, every set of channels, every put-turn strategy and with or  *)
(* without spurious wakeups of the idle thread.                            *)
(***************************************************************************)
EXTENDS RRSchedulerSteps

\* Scheduler::create gives the new thread the next tid and the back of the queue.
LEMMA pthreadCreateIInv ==
  ASSUME IInv, NEW t \in Tid, pthreadCreate(t)
  PROVE  IInv'
  <1> USE DEF IInv, pthreadCreate, idle
  <1>b. /\ runq # <<>> /\ Head(runq) = t
        /\ t \in Range(runq) /\ t \notin Range(waitq)
        /\ \A u \in Tid : u # t => ~wakenUp[u] /\ pc[u] \notin TurnPC
        /\ \A u \in Tid : u \in Range(waitq) => pc[u] # "done"
    BY AtHead DEF TurnPC
  <1>c. ~wakenUp[t]
    BY DEF OneTurn, TurnPC
  <1>d. /\ nthread \in Tid /\ nthread' \in 2..NTHREAD /\ nthread \in Nat /\ nthread >= 2
        /\ nthread' = nthread + 1
    BY NThreadAssumption DEF TypeOK, Tid
  <1>e. /\ pc[nthread] = "none" /\ nthread # t /\ nthread # IdleThreadTid
        /\ nthread \notin Range(runq) /\ nthread \notin Range(waitq)
        /\ nthread \notin inter_pro_wakeup_tids /\ status[nthread] = "RUNNABLE"
    BY <1>d DEF ThreadInv, PlaceInv, InNext, StatusInv, IdleThreadTid
  <1>g. /\ runq' \in Seq(Tid) /\ IsInjective(runq') /\ runq' # <<>> /\ Head(runq') = t
        /\ Range(runq') = Range(runq) \cup {nthread}
    <2>1. runq \in Seq(Tid) /\ IsInjective(runq)
      BY DEF TypeOK, QueueInv
    <2>2. PICK n \in Tid : n = nthread
      BY <1>d
    <2>3. /\ Append(runq, n) \in Seq(Tid) /\ Append(runq, n) # <<>>
          /\ Range(Append(runq, n)) = Range(runq) \cup {n}
          /\ Head(Append(runq, n)) = Head(runq)
          /\ IsInjective(Append(runq, n))
      BY <1>b, <1>e, <2>1, <2>2, AppendQueue
    <2> QED BY <1>b, <2>2, <2>3
  <1>i. /\ pc' \in [Tid -> PC]
        /\ \A u \in Tid : pc'[u] = IF u = t THEN "acted" ELSE IF u = nthread THEN "run" ELSE pc[u]
    <2>1. pc \in [Tid -> PC] /\ "acted" \in PC /\ "run" \in PC
      BY DEF TypeOK, PC
    <2>2. pc' = [pc EXCEPT ![t] = "acted", ![nthread] = "run"]
      OBVIOUS
    <2> HIDE DEF pthreadCreate, IInv
    <2> QED BY <1>d, <1>e, <2>1, <2>2
  <1>1. TypeOK'
    BY Zenon, <1>d, <1>g, <1>i DEF TypeOK
  <1>2. (OneTurn /\ HeadHoldsTurn)'
    BY <1>b, <1>c, <1>g, <1>i DEF OneTurn, HeadHoldsTurn, HasTurn, TurnPC
  <1>3. (QueueInv /\ ChanInv /\ JoinInv)'
    BY <1>e, <1>g DEF QueueInv, ChanInv, JoinInv, NoMissedJoin
  <1>4. PlaceInv'
    BY <1>b, <1>c, <1>e, <1>g, <1>i DEF PlaceInv, InNext, TurnPC
  <1>5. DeadInv'
    BY <1>b, <1>i DEF DeadInv
  <1>6. ThreadInv'
    <2>1. \A u \in Tid : u >= nthread' <=> u >= nthread /\ u # nthread
      BY <1>d, TidFacts
    <2> QED BY <1>e, <1>i, <2>1, TidFacts DEF ThreadInv, InNext
  <1>7. StatusInv'
    BY <1>b, <1>e, <1>i DEF StatusInv, StatusAsserts, InNext
  <1>8. NoLostThread'
    BY <1>g, <1>i DEF NoLostThread
  <1> QED BY <1>1, <1>2, <1>3, <1>4, <1>5, <1>6, <1>7, <1>8

\* A thread is joined by one thread only, so the signal of putTurn(true) wakes
\* every joiner although it is not a broadcast.
LEMMA OneJoiner ==
  ASSUME IInv, NEW t \in Tid
  PROVE  FirstWaiter(t) = {u \in Range(waitq) : chan[u] = t}
  <1> SUFFICES ASSUME NEW u \in Range(waitq), chan[u] = t
               PROVE  \E i \in DOMAIN waitq : waitq[i] = u
                        /\ \A j \in 1..(i-1) : chan[waitq[j]] # t
    BY DEF FirstWaiter, Waiters
  <1>1. waitq \in Seq(Tid) /\ IsInjective(waitq) /\ DOMAIN waitq = 1..Len(waitq)
        /\ Len(waitq) \in Nat
    BY DEF IInv, TypeOK, QueueInv
  <1>2. PICK i \in DOMAIN waitq : waitq[i] = u
    BY DEF Range
  <1>3. ASSUME NEW j \in 1..(i-1), chan[waitq[j]] = t
        PROVE  FALSE
    <2>1. j \in DOMAIN waitq /\ j # i
      BY <1>1
    <2>2. waitq[j] \in Range(waitq)
      BY <2>1 DEF Range
    <2>3. waitq[j] = u
      BY <1>3, <2>2 DEF IInv, JoinInv
    <2> QED BY <1>1, <1>2, <2>1, <2>3 DEF IsInjective
  <1> QED BY <1>2, <1>3

\* threadEnd: the joiner is requeued, and nobody is left to wait for the zombie.
LEMMA threadEndIInv ==
  ASSUME IInv, NEW t \in Tid, threadEnd(t)
  PROVE  IInv'
  <1> DEFINE S == FirstWaiter(t)
  <1> USE DEF IInv, Goto, idle
  <1>a. /\ pc[t] = "ticked" /\ Reset(S) /\ zombies' = zombies \cup {t}
        /\ UNCHANGED <<wakenUp, inter_pro_wakeup_tids, nthread, scan, idle, at>>
        /\ strategy' = "DEFAULT" /\ ret' = "done" /\ pc' = [pc EXCEPT ![t] = "check"]
        /\ status' = [status EXCEPT ![t] = IF @ = "RUNNING_REG" THEN "RUNNABLE"
                                           ELSE "INTER_PRO_STOP"]
        /\ \E q \in InOrder(S, waitq) : runq' = Tail(runq \o q)
    BY DEF threadEnd, LeaveRunq
  <1>b. /\ runq # <<>> /\ Head(runq) = t
        /\ t \in Range(runq) /\ t \notin Range(waitq)
        /\ \A u \in Tid : u # t => ~wakenUp[u] /\ pc[u] \notin TurnPC
        /\ \A u \in Tid : u \in Range(waitq) => pc[u] # "done"
        /\ Range(runq) \subseteq Tid /\ Range(waitq) \subseteq Tid
    BY <1>a, AtHead DEF TurnPC
  <1>c. ~wakenUp[t] /\ status[t] = "RUNNING_REG" /\ t \notin inter_pro_wakeup_tids
    BY <1>a DEF OneTurn, TurnPC, StatusInv, StatusAsserts, PlaceInv
  <1>d. S = {u \in Range(waitq) : chan[u] = t} /\ S \in SUBSET Range(waitq) /\ S \in SUBSET Tid
    BY <1>b, OneJoiner
  <1> HIDE DEF S
  <1>f. PICK q \in InOrder(S, waitq) : runq' = Tail(runq \o q)
    BY Zenon, <1>a
  <1>g. /\ runq' \in Seq(Tid) /\ IsInjective(runq')
        /\ Range(runq') = (Range(runq) \cup S) \ {t}
    <2>1. q \in Seq(Tid) /\ IsInjective(q) /\ Range(q) = S
      BY <1>d, InOrderQueue
    <2>2. runq \in Seq(Tid) /\ IsInjective(runq) /\ Range(runq) \cap Range(q) = {}
      BY <1>d, <2>1 DEF TypeOK, QueueInv
    <2>3. PICK r : r = runq \o q
      BY Zenon
    <2>4. /\ r \in Seq(Tid) /\ IsInjective(r) /\ r # <<>> /\ Head(r) = t
          /\ Range(r) = Range(runq) \cup S
      BY <1>b, <2>1, <2>2, <2>3, ConcatQueue
    <2> QED BY Zenon, <1>f, <2>3, <2>4, TailQueue
  <1>h. /\ waitq' \in Seq(Tid) /\ IsInjective(waitq') /\ Range(waitq') = Range(waitq) \ S
        /\ chan' \in [Tid -> Channel \cup {NULL}] /\ timeout' \in [Tid -> 0..FOREVER]
        /\ \A u \in Tid : /\ chan'[u] = IF u \in S THEN NULL ELSE chan[u]
                          /\ timeout'[u] = IF u \in S THEN FOREVER ELSE timeout[u]
    BY <1>a, <1>d, ResetQueue
  <1>i. \A u \in Tid : /\ pc'[u] = IF u = t THEN "check" ELSE pc[u]
                       /\ status'[u] = IF u = t THEN "RUNNABLE" ELSE status[u]
    BY <1>a, <1>c DEF TypeOK
  <1>1. TypeOK'
    BY Zenon, <1>a, <1>c, <1>g, <1>h DEF TypeOK, PC, Status
  <1>2. (OneTurn /\ HeadHoldsTurn)'
    BY <1>a, <1>b, <1>c, <1>i DEF OneTurn, HeadHoldsTurn, HasTurn, TurnPC
  <1>3. (QueueInv /\ ChanInv)'
    BY Zenon, <1>a, <1>d, <1>g, <1>h DEF QueueInv, ChanInv
  <1>4. PlaceInv'
    <2> SUFFICES ASSUME NEW u \in Tid PROVE PlaceInv!(u)'
      BY DEF PlaceInv
    <2>1. ~InNext(u) /\ (InNext(u)' <=> u = t)
      BY <1>a, <1>b, <1>i DEF InNext, TurnPC
    <2>2. u \in Range(runq') => pc'[u] \notin {"none", "done"} /\ u # t
      BY <1>b, <1>d, <1>g, <1>i, <2>1 DEF PlaceInv
    <2>3. u \in Range(waitq') => u \in Range(waitq) /\ u # t
      BY <1>b, <1>h
    <2> QED BY <1>a, <1>b, <1>c, <1>i, <2>1, <2>2, <2>3 DEF PlaceInv
  <1>5. DeadInv'
    BY <1>b, <1>h, <1>i DEF DeadInv
  <1>6. ThreadInv'
    BY <1>a, <1>b, <1>i, TidFacts DEF ThreadInv, InNext, TurnPC
  <1>7. StatusInv'
    BY <1>a, <1>b, <1>c, <1>i DEF StatusInv, StatusAsserts, InNext, TurnPC
  <1>8. NoLostThread'
    BY <1>a, <1>g, <1>h, <1>i DEF NoLostThread
  <1>9. JoinInv'
    <2>1. \A u \in Range(waitq') : u \in Range(waitq) /\ chan'[u] = chan[u] /\ chan[u] # t
      BY <1>b, <1>d, <1>h
    <2> QED BY <1>a, <2>1 DEF JoinInv, NoMissedJoin
  <1> QED BY <1>1, <1>2, <1>3, <1>4, <1>5, <1>6, <1>7, <1>8, <1>9

\* getPutTurnStrategy() returns one of the three strategies of putTurn().
LEMMA PutStrategyType ==
  ASSUME NEW t \in Tid, NEW s \in PutStrategy(t)
  PROVE  s \in {"DEFAULT", "CURRENT_THREAD", "CURRENT_ROLE"}
  BY StrategyAssumption DEF PutStrategy

\* Going on to operation l keeps the application apart from the idle thread.
LEMMA ThenAt ==
  ASSUME IInv, NEW t \in Tid, NEW l \in At, Then(t, l),
         \/ l = at[t]
         \/ t \in {MainThreadTid, IdleThreadTid} /\ l # "app"
         \/ t # IdleThreadTid /\ l = "app"
  PROVE  /\ at' \in [Tid -> At] /\ at'[IdleThreadTid] # "app"
         /\ \A u \in Tid : u > IdleThreadTid => at'[u] \in {"begin", "app"}
  BY TidFacts DEF IInv, TypeOK, Then, ThreadInv, MainThreadTid, IdleThreadTid

\* The channels of the idle thread are not threads, and no channel is NULL.
LEMMA ChannelFacts ==
  ASSUME IInv
  PROVE  /\ IdleCond \in Channel /\ IdleMutex \in Channel /\ Tid \subseteq Channel
         /\ Chan \subseteq Channel
         /\ IdleCond \notin Tid /\ IdleMutex \notin Tid /\ NULL \notin Channel
         /\ \A c \in Chan \cup {NULL} : c \notin Tid
         /\ zombies \subseteq Tid
         /\ FOREVER \in 0..FOREVER
  BY ChannelAssumption, TimeoutAssumption DEF Channel, IInv, TypeOK, FOREVER

\* The operations of the application that wait, and the end of the others.
LEMMA syncWaitIInv ==
  ASSUME IInv, NEW t \in Tid, NEW c \in Chan \cup {NULL}, NEW n \in 0..FOREVER,
         syncWait(t, c, n)
  PROVE  IInv'
  <1>1. /\ c \in Channel \cup {NULL} /\ c \notin Tid /\ c \notin zombies
        /\ c # MainThreadTid /\ c # IdleThreadTid
    BY ChannelFacts, TidFacts
  <1>2. /\ pc[t] \in {"ticked", "tried"} /\ wait(t, c, n, "wait")
        /\ c # NULL \/ n # FOREVER
        /\ UNCHANGED <<zombies, idle_mutex, idle_done, at>>
    BY DEF syncWait, idle
  <1> QED BY <1>1, <1>2, WaitIInv

\* SCHED_TIMER_END of an operation of the application puts the turn.
LEMMA schedTimerEndIInv ==
  ASSUME IInv, NEW t \in Tid, schedTimerEnd(t)
  PROVE  IInv'
  <1>1. PICK s \in PutStrategy(t) : putTurn(t, s)
    BY DEF schedTimerEnd
  <1>2. s \in {"DEFAULT", "CURRENT_THREAD", "CURRENT_ROLE"}
    BY PutStrategyType
  <1>3. pc[t] \in {"ticked", "try"} /\ UNCHANGED <<zombies, idle_mutex, idle_done, at>>
    BY DEF schedTimerEnd, idle
  <1>4. /\ at' \in [Tid -> At] /\ at'[IdleThreadTid] # "app"
        /\ \A u \in Tid : u > IdleThreadTid => at'[u] \in {"begin", "app"}
        /\ zombies' \subseteq zombies
        /\ idle_mutex' \in {InvalidTid, MainThreadTid, IdleThreadTid}
        /\ idle_done' \in BOOLEAN
    BY <1>3 DEF IInv, TypeOK, ThreadInv
  <1> QED BY <1>1, <1>2, <1>3, <1>4, PutTurnIInv

\* pthreadJoin of a thread that nobody else joins.
LEMMA pthreadJoinIInv ==
  ASSUME IInv, NEW t \in Tid, NEW u \in Tid, NEW l \in At, pthreadJoin(t, u, l),
         l = at[t] \/ (t \in {MainThreadTid, IdleThreadTid} /\ l # "app"),
         u # MainThreadTid, u = IdleThreadTid => t = MainThreadTid,
         \A v \in Tid : chan[v] # u
  PROVE  IInv'
  <1>a. pc[t] \in {"ticked", "tried"} /\ pc[t] \in {"ticked", "try"}
        /\ UNCHANGED <<idle_mutex, idle_done>>
    BY DEF pthreadJoin, idle
  <1>1. CASE u \notin zombies /\ wait(t, u, FOREVER, "wait") /\ UNCHANGED <<zombies, at>>
    <2>1. u \in Channel \cup {NULL} /\ u # NULL /\ FOREVER \in 0..FOREVER
      BY ChannelFacts
    <2> QED BY <1>a, <1>1, <2>1, WaitIInv
  <1>2. CASE /\ zombies' = zombies \ {u}
             /\ \E s \in PutStrategy(t) : putTurn(t, s)
             /\ Then(t, l)
    <2>1. PICK s \in PutStrategy(t) : putTurn(t, s)
      BY <1>2
    <2>2. s \in {"DEFAULT", "CURRENT_THREAD", "CURRENT_ROLE"}
      BY PutStrategyType
    <2>3. /\ at' \in [Tid -> At] /\ at'[IdleThreadTid] # "app"
          /\ \A v \in Tid : v > IdleThreadTid => at'[v] \in {"begin", "app"}
      BY <1>2, ThenAt
    <2>4. /\ zombies' \subseteq zombies
          /\ idle_mutex' \in {InvalidTid, MainThreadTid, IdleThreadTid}
          /\ idle_done' \in BOOLEAN
      BY <1>a, <1>2 DEF IInv, TypeOK
    <2> QED BY <1>a, <2>1, <2>2, <2>3, <2>4, PutTurnIInv
  <1> QED BY <1>1, <1>2 DEF pthreadJoin

\* pthreadMutexLock(&idle_mutex) by the idle thread and by __tern_prog_end.
LEMMA lockIdleMutexIInv ==
  ASSUME IInv, NEW t \in {MainThreadTid, IdleThreadTid}, NEW l \in At \ {"app"},
         lockIdleMutex(t, l)
  PROVE  IInv'
  <1>a. /\ pc[t] \in {"ticked", "tried"} /\ pc[t] \in {"ticked", "try"} /\ t \in Tid
        /\ UNCHANGED <<zombies, idle_done>>
    BY TidFacts DEF lockIdleMutex
  <1>1. CASE /\ idle_mutex' = t
             /\ \E s \in PutStrategy(t) : putTurn(t, s)
             /\ Then(t, l)
    <2>1. PICK s \in PutStrategy(t) : putTurn(t, s)
      BY <1>1
    <2>2. s \in {"DEFAULT", "CURRENT_THREAD", "CURRENT_ROLE"}
      BY <1>a, PutStrategyType
    <2>3. /\ at' \in [Tid -> At] /\ at'[IdleThreadTid] # "app"
          /\ \A v \in Tid : v > IdleThreadTid => at'[v] \in {"begin", "app"}
      BY <1>a, <1>1, ThenAt
    <2>4. /\ zombies' \subseteq zombies
          /\ idle_mutex' \in {InvalidTid, MainThreadTid, IdleThreadTid}
          /\ idle_done' \in BOOLEAN
      BY <1>a, <1>1 DEF IInv, TypeOK
    <2> QED BY <1>a, <2>1, <2>2, <2>3, <2>4, PutTurnIInv
  <1>2. CASE wait(t, IdleMutex, FOREVER, "wait") /\ UNCHANGED <<idle_mutex, at>>
    <2>1. /\ IdleMutex \in Channel \cup {NULL} /\ IdleMutex # NULL /\ FOREVER \in 0..FOREVER
          /\ IdleMutex \notin Tid /\ IdleMutex \notin zombies
          /\ IdleMutex # MainThreadTid /\ IdleMutex # IdleThreadTid
      BY ChannelFacts, TidFacts
    <2> QED BY <1>a, <1>2, <2>1, WaitIInv
  <1> QED BY <1>1, <1>2 DEF lockIdleMutex

\* The signals: of the application, of pthreadMutexUnlock and pthreadCondSignal.
LEMMA signalsIInv ==
  ASSUME IInv, NEW t \in Tid,
         \/ \E c \in Chan, all \in BOOLEAN : syncSignal(t, c, all)
         \/ unlockIdleMutex(t)
         \/ condSignalIdle(t)
  PROVE  IInv'
  <1>1. PICK c, all : signal(c, all)
    BY Zenon DEF syncSignal, unlockIdleMutex, condSignalIdle
  <1>2. /\ pc[t] = "turn" /\ Goto(t, "acted")
        /\ UNCHANGED <<status, wakenUp, inter_pro_wakeup_tids, nthread, zombies,
                       idle_done, at, strategy, ret, scan>>
        /\ idle_mutex' \in {InvalidTid, MainThreadTid, IdleThreadTid}
    BY Zenon DEF syncSignal, unlockIdleMutex, condSignalIdle, idle, IInv, TypeOK
  <1> QED BY <1>1, <1>2, SignalIInv

\* The end of an operation of the idle thread or of __tern_prog_end.
LEMMA endOpIInv ==
  ASSUME IInv, NEW t \in Tid, NEW l1, NEW l2 \in At, endOp(t, l1, l2),
         \/ t \in {MainThreadTid, IdleThreadTid} /\ l2 # "app"
         \/ t # IdleThreadTid /\ l2 = "app"
  PROVE  IInv'
  <1>2. PICK s \in PutStrategy(t) : putTurn(t, s)
    BY DEF endOp
  <1>3. s \in {"DEFAULT", "CURRENT_THREAD", "CURRENT_ROLE"}
    BY PutStrategyType
  <1>4. /\ at' \in [Tid -> At] /\ at'[IdleThreadTid] # "app"
        /\ \A v \in Tid : v > IdleThreadTid => at'[v] \in {"begin", "app"}
    BY ThenAt DEF endOp
  <1>5. /\ pc[t] \in {"ticked", "try"} /\ zombies' \subseteq zombies
        /\ idle_mutex' \in {InvalidTid, MainThreadTid, IdleThreadTid}
        /\ idle_done' \in BOOLEAN
    BY DEF endOp, idle, IInv, TypeOK
  <1> QED BY <1>2, <1>3, <1>4, <1>5, PutTurnIInv

\* The idle thread's putTurn() when nobody else can run.
LEMMA idlePutTurnIInv ==
  ASSUME IInv, pc[IdleThreadTid] \in {"ticked", "try"}, putTurn(IdleThreadTid, "DEFAULT"),
         Then(IdleThreadTid, "unlock"), UNCHANGED <<zombies, idle>>
  PROVE  IInv'
  <1>1. "unlock" \in At /\ IdleThreadTid \in Tid
    BY TidFacts DEF At
  <1>2. /\ at' \in [Tid -> At] /\ at'[IdleThreadTid] # "app"
        /\ \A v \in Tid : v > IdleThreadTid => at'[v] \in {"begin", "app"}
    BY <1>1, ThenAt
  <1>3. /\ zombies' \subseteq zombies
        /\ idle_mutex' \in {InvalidTid, MainThreadTid, IdleThreadTid}
        /\ idle_done' \in BOOLEAN
    BY DEF idle, IInv, TypeOK
  <1> QED BY <1>1, <1>2, <1>3, PutTurnIInv

\* The first steps of idleThreadCondWait(): tryPutTurn() promises the turn to a
\* RUNNABLE thread behind the head, by its status alone.
LEMMA tryPutTurnIInv ==
  ASSUME IInv, \/ tryPutTurn
               \/ /\ pc[IdleThreadTid] = "ticked" /\ scan' = 2 /\ Goto(IdleThreadTid, "try")
                  /\ UNCHANGED <<queues, status, wakenUp, inter_pro_wakeup_tids, nthread,
                                 zombies, idle, at, strategy, ret>>
  PROVE  IInv'
  <1> DEFINE t == IdleThreadTid
  <1> USE DEF IInv, queues, idle
  <1>a. /\ pc[t] \in {"ticked", "try"} /\ t \in Tid
        /\ UNCHANGED <<queues, wakenUp, inter_pro_wakeup_tids, nthread, zombies, idle,
                       at, strategy, ret>>
    BY TidFacts DEF tryPutTurn
  <1>b. /\ Head(runq) = t /\ runq # <<>> /\ t \notin Range(waitq)
        /\ \A u \in Tid : u # t => ~wakenUp[u] /\ pc[u] \notin TurnPC
        /\ \A u \in Tid : u \in Range(waitq) => pc[u] # "done"
        /\ Range(runq) \subseteq Tid
    BY <1>a, AtHead DEF TurnPC
  <1>c. ~wakenUp[t] /\ status[t] = "RUNNING_REG" /\ t \notin inter_pro_wakeup_tids
    BY <1>a DEF OneTurn, TurnPC, StatusInv, StatusAsserts, PlaceInv
  <1>d. PICK S \in SUBSET Tid :
          /\ \A u \in S : u \in Range(runq) /\ u # t /\ status[u] = "RUNNABLE"
          /\ status' = [u \in Tid |-> IF u \in S THEN "RUNNING_REG" ELSE status[u]]
    <2>1. CASE UNCHANGED status
      <3>1. status' = [u \in Tid |-> IF u \in {} THEN "RUNNING_REG" ELSE status[u]]
        BY <2>1 DEF TypeOK
      <3>2. {} \in SUBSET Tid
        OBVIOUS
      <3> QED BY Zenon, <3>1, <3>2
    <2>2. CASE /\ tryPutTurn /\ status[runq[scan]] = "RUNNABLE"
               /\ status' = [status EXCEPT ![runq[scan]] = "RUNNING_REG"]
      <3>1. scan \in 1..Len(runq) /\ DOMAIN runq = 1..Len(runq)
        <4>1. runq \in Seq(Tid) /\ scan \in Nat \ {0}
          BY DEF TypeOK
        <4>2. scan <= Len(runq)
          BY <2>2 DEF tryPutTurn
        <4> HIDE DEF IInv
        <4> QED BY <4>1, <4>2
      <3>2. PICK x \in Tid : x = runq[scan] /\ x \in Range(runq)
        BY <1>b, <3>1 DEF Range
      <3>3. /\ \A u \in {x} : u \in Range(runq) /\ u # t /\ status[u] = "RUNNABLE"
            /\ status' = [u \in Tid |-> IF u \in {x} THEN "RUNNING_REG" ELSE status[u]]
        BY Zenon, <1>c, <2>2, <3>2 DEF TypeOK
      <3> QED BY Zenon, <3>3
    <2>3. \/ UNCHANGED status
          \/ /\ tryPutTurn /\ status[runq[scan]] = "RUNNABLE"
             /\ status' = [status EXCEPT ![runq[scan]] = "RUNNING_REG"]
      BY Zenon DEF tryPutTurn
    <2> QED BY Zenon, <2>1, <2>2, <2>3
  <1>e. pc'[t] \in {"try", "tried"} /\ pc' \in [Tid -> PC]
        /\ (\A u \in Tid : u # t => pc'[u] = pc[u]) /\ scan' \in Nat \ {0}
    <2>1. pc'[t] \in {"try", "tried"} /\ pc' \in [Tid -> PC]
          /\ \A u \in Tid : u # t => pc'[u] = pc[u]
      <3>1. pc \in [Tid -> PC] /\ "try" \in PC /\ "tried" \in PC
        BY DEF TypeOK, PC
      <3>2. Goto(t, "try") \/ Goto(t, "tried") \/ (pc' = pc /\ pc[t] = "try")
        BY Zenon DEF tryPutTurn
      <3> HIDE DEF t, IInv
      <3> QED BY <1>a, <3>1, <3>2, GotoPC
    <2>2. scan \in Nat \ {0} /\ scan' \in {2, scan, scan + 1}
      BY DEF tryPutTurn, TypeOK
    <2> QED BY <2>1, <2>2
  <1>i. \A u \in Tid : status'[u] = IF u \in S THEN "RUNNING_REG" ELSE status[u]
    BY <1>d
  <1> HIDE DEF t
  <1>1. TypeOK'
    BY <1>a, <1>d, <1>e DEF TypeOK, Status
  <1>2. (OneTurn /\ HeadHoldsTurn)'
    BY <1>a, <1>b, <1>c, <1>e DEF OneTurn, HeadHoldsTurn, HasTurn, TurnPC
  <1>3. (QueueInv /\ ChanInv /\ JoinInv)'
    BY <1>a DEF QueueInv, ChanInv, JoinInv, NoMissedJoin
  <1>4. PlaceInv'
    BY <1>a, <1>b, <1>c, <1>e DEF PlaceInv, InNext, TurnPC
  <1>5. DeadInv'
    BY <1>a, <1>b, <1>e DEF DeadInv
  <1>6. ThreadInv'
    BY <1>a, <1>e, TidFacts DEF ThreadInv, InNext, t
  <1>7. StatusInv'
    <2> SUFFICES ASSUME NEW u \in Tid PROVE StatusAsserts!(u)' /\ StatusInv!2!(u)'
      BY DEF StatusInv, StatusAsserts
    <2>1. StatusAsserts!(u) /\ StatusInv!2!(u)
      BY DEF StatusInv, StatusAsserts
    <2>2. u # t => ~InNext(u)
      BY <1>b DEF InNext, TurnPC
    <2>3. CASE u = t
      BY <1>a, <1>c, <1>d, <1>e, <1>i, <2>3 DEF InNext
    <2>4. CASE u # t /\ u \notin S
      BY <1>a, <1>e, <1>i, <2>1, <2>4 DEF InNext
    <2>5. CASE u # t /\ u \in S
      <3>1. status[u] = "RUNNABLE" /\ pc[u] # "none" /\ status'[u] = "RUNNING_REG"
        BY <1>d, <1>i, <2>5 DEF PlaceInv
      <3>2. pc'[u] = pc[u]
        BY <1>e, <2>5
      <3> QED BY <1>a, <2>1, <2>2, <2>5, <3>1, <3>2 DEF InNext
    <2> QED BY <2>3, <2>4, <2>5
  <1>8. NoLostThread'
    BY <1>a, <1>e DEF NoLostThread
  <1> QED BY <1>1, <1>2, <1>3, <1>4, <1>5, <1>6, <1>7, <1>8

\* The idle thread's wait() when tryPutTurn() returned true.
LEMMA idleWaitIInv ==
  ASSUME IInv, pc[IdleThreadTid] = "tried", wait(IdleThreadTid, IdleCond, FOREVER, "tocond"),
         UNCHANGED <<zombies, idle, at>>
  PROVE  IInv'
  <1>1. /\ IdleCond \in Channel \cup {NULL} /\ IdleCond # NULL /\ FOREVER \in 0..FOREVER
        /\ IdleCond \notin Tid /\ IdleCond \notin zombies /\ IdleThreadTid \in Tid
        /\ IdleCond # MainThreadTid /\ IdleCond # IdleThreadTid
    BY ChannelFacts, TidFacts
  <1>2. UNCHANGED <<zombies, idle_mutex, idle_done, at>> /\ pc[IdleThreadTid] \in {"ticked", "tried"}
    BY DEF idle
  <1> QED BY <1>1, <1>2, WaitIInv

\* The steps on idle_mutex and idle_cond without the turn: pthread_cond_wait of
\* the idle thread, and __tern_prog_end.
LEMMA withoutTurnIInv ==
  ASSUME IInv, condWait \/ progEnd
  PROVE  IInv'
  <1> DEFINE i == IdleThreadTid
  <1> USE DEF IInv, queues, idle
  <1>t. i \in Tid /\ MainThreadTid \in Tid /\ MainThreadTid # i
    BY TidFacts DEF MainThreadTid, IdleThreadTid
  <1>a. /\ UNCHANGED <<queues, status, wakenUp, inter_pro_wakeup_tids, nthread, zombies,
                       strategy, ret, scan>>
        /\ \/ pc' = pc
           \/ /\ pc[i] \in {"tocond", "sleep", "reacq"} /\ pc'[i] \in {"sleep", "reacq", "run"}
              /\ pc' \in [Tid -> PC] /\ \A u \in Tid : u # i => pc'[u] = pc[u]
        /\ idle_mutex' \in {InvalidTid, MainThreadTid, IdleThreadTid}
        /\ idle_done' \in BOOLEAN
    <2>1. pc \in [Tid -> PC] /\ {"sleep", "reacq", "run"} \subseteq PC
      BY DEF TypeOK, PC
    <2>2. \/ pc' = pc
          \/ /\ pc[i] \in {"tocond", "sleep", "reacq"}
             /\ \E k \in {"sleep", "reacq", "run"} : Goto(i, k)
      <3>1. CASE condWait
        BY Zenon, <3>1 DEF condWait
      <3>2. CASE progEnd
        BY Zenon, <3>2 DEF progEnd, progEndStart, idleDone, rawLock, rawSignal, SignalIdleCond, Goto
      <3> QED BY <3>1, <3>2
    <2>3. \/ pc' = pc
          \/ /\ pc[i] \in {"tocond", "sleep", "reacq"} /\ pc'[i] \in {"sleep", "reacq", "run"}
             /\ pc' \in [Tid -> PC] /\ \A u \in Tid : u # i => pc'[u] = pc[u]
      BY <1>t, <2>1, <2>2, GotoPC
    <2>4. UNCHANGED <<queues, status, wakenUp, inter_pro_wakeup_tids, nthread, zombies,
                      strategy, ret, scan>>
      BY Zenon DEF condWait, progEnd
    <2>5. /\ idle_mutex' \in {InvalidTid, MainThreadTid, IdleThreadTid}
          /\ idle_done' \in BOOLEAN
      <3>1. /\ idle_mutex' = idle_mutex \/ idle_mutex' \in {InvalidTid, MainThreadTid, i}
            /\ idle_done' = idle_done \/ idle_done' = TRUE
        BY Zenon DEF condWait, progEnd, progEndStart, idleDone, rawLock, rawSignal
      <3> QED BY Zenon, <3>1 DEF TypeOK
    <2> QED BY <2>3, <2>4, <2>5
  <1>c. /\ at' \in [Tid -> At] /\ at'[i] # "app"
        /\ \A u \in Tid : u > i => at'[u] \in {"begin", "app"}
    <2>1. CASE at' = at
      BY <2>1 DEF TypeOK, ThreadInv
    <2>2. PICK t \in {MainThreadTid, i}, l \in At \ {"app"} : at' = at \/ Then(t, l)
      <3>1. \/ at' = at
            \/ Then(i, "unlock") \/ Then(MainThreadTid, "stat") \/ Then(MainThreadTid, "unlock")
            \/ Then(MainThreadTid, "rawsignal") \/ Then(MainThreadTid, "join")
        BY Zenon DEF condWait, progEnd, progEndStart, idleDone, rawLock, rawSignal
      <3>2. {"unlock", "stat", "rawsignal", "join"} \subseteq At \ {"app"}
        BY DEF At
      <3> HIDE DEF i, IInv
      <3> QED BY Zenon, <3>1, <3>2
    <2>3. CASE Then(t, l)
      BY <1>t, <2>2, <2>3, ThenAt
    <2> QED BY <2>1, <2>2, <2>3
  <1>1. TypeOK'
    BY <1>a, <1>c DEF TypeOK
  <1>2. (OneTurn /\ HeadHoldsTurn)'
    <2>1. \A u \in Tid : pc'[u] \in TurnPC => pc'[u] = pc[u]
      BY <1>a DEF TurnPC
    <2> QED BY <1>a, <2>1 DEF OneTurn, HeadHoldsTurn, HasTurn
  <1>3. (QueueInv /\ ChanInv /\ JoinInv)'
    BY <1>a DEF QueueInv, ChanInv, JoinInv, NoMissedJoin
  <1>4. PlaceInv'
    BY <1>a DEF PlaceInv, InNext
  <1>5. DeadInv'
    BY <1>a DEF DeadInv, HasTurn, TurnPC
  <1>6. ThreadInv'
    BY <1>a, <1>c, <1>t, TidFacts DEF ThreadInv, InNext
  <1>7. StatusInv'
    BY <1>a DEF StatusInv, StatusAsserts, InNext
  <1>8. NoLostThread'
    BY <1>a DEF NoLostThread
  <1> QED BY <1>1, <1>2, <1>3, <1>4, <1>5, <1>6, <1>7, <1>8

\* The inductive step: every step of every thread keeps the invariant.
LEMMA NextIInv == IInv /\ [Next]_vars => IInv'
  <1> SUFFICES ASSUME IInv, [Next]_vars PROVE IInv'
    OBVIOUS
  <1>1. CASE UNCHANGED vars
    <2> USE <1>1 DEF vars, IInv
    <2>1. (TypeOK /\ OneTurn /\ HeadHoldsTurn)'
      BY DEF TypeOK, OneTurn, HeadHoldsTurn, HasTurn
    <2>2. (QueueInv /\ ChanInv /\ JoinInv /\ DeadInv)'
      BY DEF QueueInv, ChanInv, JoinInv, NoMissedJoin, DeadInv, HasTurn
    <2>3. (PlaceInv /\ ThreadInv)'
      BY DEF PlaceInv, ThreadInv, InNext
    <2>4. (StatusInv /\ NoLostThread)'
      BY DEF StatusInv, StatusAsserts, NoLostThread, InNext
    <2> QED BY <2>1, <2>2, <2>3, <2>4
  <1>2. ASSUME NEW t \in Tid, Step(t)
        PROVE  IInv'
    BY <1>2, getTurnIInv, incTurnCountIInv, checkWakeupIInv, nextRunnableIInv,
       noNextThreadIInv, wakeUpIdleThreadIInv, signalIdleCondIInv, blockIInv, interProIInv
       DEF Step
  <1>3. ASSUME NEW t \in Tid, AppOp(t)
        PROVE  IInv'
    <2>1. CASE pthreadCreate(t) \/ threadEnd(t) \/ interProStart(t)
      BY <2>1, pthreadCreateIInv, threadEndIInv, interProIInv
    <2>2. CASE \E c \in Chan, all \in BOOLEAN : syncSignal(t, c, all)
      BY <2>2, signalsIInv
    <2>3. CASE \E c \in Chan \cup {NULL}, n \in 0..FOREVER : syncWait(t, c, n)
      BY <2>3, syncWaitIInv
    <2>4. CASE schedTimerEnd(t)
      BY <2>4, schedTimerEndIInv
    <2>5. CASE \E u \in 2..(nthread - 1) :
                 at[t] = "app" /\ Joinable(t, u) /\ pthreadJoin(t, u, "app")
      <3>1. PICK u \in 2..(nthread - 1) :
              at[t] = "app" /\ Joinable(t, u) /\ pthreadJoin(t, u, "app")
        BY <2>5
      <3>2. u \in Tid /\ u # MainThreadTid /\ u # IdleThreadTid /\ "app" \in At
        BY NThreadAssumption DEF IInv, TypeOK, Tid, MainThreadTid, IdleThreadTid, At
      <3>3. \A v \in Tid : chan[v] # u
        BY <3>1 DEF Joinable
      <3> QED BY <3>1, <3>2, <3>3, pthreadJoinIInv
    <2>6. CASE threadBegin(t)
      <3>1. {"lock", "app"} \subseteq At
        BY DEF At
      <3> QED BY <2>6, <3>1, endOpIInv DEF threadBegin
    <2> QED BY <1>3, <2>1, <2>2, <2>3, <2>4, <2>5, <2>6 DEF AppOp
  <1>4. CASE IdleOp
    <2>1. IdleThreadTid \in Tid /\ {"cond", "unlockdone", "idlesleep", "lock", "exit"} \subseteq At
      BY TidFacts DEF At
    <2>2. CASE lockIdleMutex(IdleThreadTid, IF idle_done THEN "unlockdone" ELSE "cond")
      BY <2>1, <2>2, lockIdleMutexIInv
    <2>3. CASE idleCondWait
      BY <2>3, tryPutTurnIInv, idlePutTurnIInv DEF idleCondWait
    <2>4. CASE tryPutTurn
      BY <2>4, tryPutTurnIInv
    <2>5. CASE idleThreadCondWait
      BY <2>5, idleWaitIInv, idlePutTurnIInv DEF idleThreadCondWait
    <2>6. CASE unlockIdleMutex(IdleThreadTid)
      BY <2>1, <2>6, signalsIInv
    <2>7. CASE \/ endOp(IdleThreadTid, "unlock", "idlesleep")
               \/ endOp(IdleThreadTid, "idlesleep", "lock")
               \/ endOp(IdleThreadTid, "unlockdone", "exit")
      BY <2>1, <2>7, endOpIInv
    <2> QED BY <1>4, <2>2, <2>3, <2>4, <2>5, <2>6, <2>7 DEF IdleOp
  <1>5. CASE ProgEndOp
    <2>1. MainThreadTid \in Tid /\ {"lock", "setdone", "signal", "raw", "exit"} \subseteq At
      BY TidFacts DEF At
    <2>2. CASE lockIdleMutex(MainThreadTid, "setdone")
      BY <2>1, <2>2, lockIdleMutexIInv
    <2>3. CASE unlockIdleMutex(MainThreadTid) \/ condSignalIdle(MainThreadTid)
      BY <2>1, <2>3, signalsIInv
    <2>4. CASE \/ endOp(MainThreadTid, "stat", "lock")
               \/ endOp(MainThreadTid, "unlock", "signal")
               \/ endOp(MainThreadTid, "signal", "raw")
      BY <2>1, <2>4, endOpIInv
    <2>5. CASE pthreadJoin(MainThreadTid, IdleThreadTid, "exit")
      <3>1. MainThreadTid \notin Range(waitq)
        BY <2>1, <2>5, AtHead DEF pthreadJoin, TurnPC
      <3>2. \A v \in Tid : chan[v] # IdleThreadTid
        BY <3>1, ChannelFacts, TidFacts DEF IInv, ChanInv, JoinInv
      <3>3. IdleThreadTid \in Tid /\ IdleThreadTid # MainThreadTid
        BY TidFacts DEF IdleThreadTid, MainThreadTid
      <3> QED BY <2>1, <2>5, <3>2, <3>3, pthreadJoinIInv
    <2> QED BY <1>5, <2>2, <2>3, <2>4, <2>5 DEF ProgEndOp
  <1> QED BY <1>1, <1>2, <1>3, <1>4, <1>5, interProIInv, withoutTurnIInv DEF Next, Terminated

-----------------------------------------------------------------------------
\* The inductive invariant holds in every reachable state of the scheduler.
THEOREM Invariance == Spec => []IInv
  BY InitIInv, NextIInv, PTL DEF Spec
=============================================================================
