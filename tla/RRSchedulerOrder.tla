-------------------------- MODULE RRSchedulerOrder --------------------------
(***************************************************************************)
(* The order in which RRScheduler serves its threads: the run queue is a   *)
(* round robin and the wait queue is first come, first served, for every   *)
(* number of threads and every policy.                                     *)
(***************************************************************************)
EXTENDS RRSchedulerMutex

\* push_back() keeps the order of the threads that are in the queue.
LEMMA OrderConcat ==
  ASSUME NEW S, NEW s \in Seq(S), NEW r \in Seq(S), NEW t, NEW u, Before(s, t, u)
  PROVE  Before(s \o r, t, u)
  <1>1. PICK i, j \in 1..Len(s) : i < j /\ s[i] = t /\ s[j] = u
    BY DEF Before
  <1>2. /\ i \in DOMAIN (s \o r) /\ (s \o r)[i] = t
        /\ j \in DOMAIN (s \o r) /\ (s \o r)[j] = u
    BY <1>1
  <1> QED BY <1>1, <1>2 DEF Before

\* pop_front() keeps the order of the threads behind the head.
LEMMA OrderTail ==
  ASSUME NEW S, NEW s \in Seq(S), NEW t, NEW u, Before(s, t, u), t # Head(s)
  PROVE  Before(Tail(s), t, u)
  <1>1. PICK i, j \in 1..Len(s) : i < j /\ s[i] = t /\ s[j] = u
    BY DEF Before
  <1>2. i # 1 /\ s # <<>>
    BY <1>1
  <1>3. /\ i - 1 \in DOMAIN Tail(s) /\ Tail(s)[i - 1] = t
        /\ j - 1 \in DOMAIN Tail(s) /\ Tail(s)[j - 1] = u
    BY <1>1, <1>2
  <1>4. i - 1 < j - 1
    BY <1>1
  <1> QED BY <1>3, <1>4, Zenon DEF Before

\* One thread pushed to the back.
LEMMA OrderAppend ==
  ASSUME NEW S, NEW s \in Seq(S), NEW x \in S, NEW t, NEW u, Before(s, t, u)
  PROVE  Before(Append(s, x), t, u)
  <1>1. PICK i, j \in 1..Len(s) : i < j /\ s[i] = t /\ s[j] = u
    BY DEF Before
  <1>2. /\ i \in DOMAIN Append(s, x) /\ Append(s, x)[i] = t
        /\ j \in DOMAIN Append(s, x) /\ Append(s, x)[j] = u
    BY <1>1
  <1> QED BY <1>1, <1>2 DEF Before

-----------------------------------------------------------------------------
\* The step keeps the order of the run queue, save for its head.
KeepsOrder ==
  \A t, u \in Range(runq) \cap Range(runq') :
    Before(runq, t, u) /\ t # Head(runq) => Before(runq', t, u)

\* The queue gets longer at its back, the head goes to the back or leaves.
LEMMA QueueEnds ==
  ASSUME runq \in Seq(Tid),
         \/ runq' = runq
         \/ \E q \in Seq(Tid) : runq' = runq \o q
         \/ \E q, p \in Seq(Tid) : runq' = (runq \o q) \o p
         \/ \E x \in Tid : runq' = Append(runq, x)
         \/ runq' = Tail(runq)
         \/ \E x \in Tid : runq # <<>> /\ runq' = Append(Tail(runq), x)
         \/ \E q \in Seq(Tid) : runq # <<>> /\ runq' = Tail(runq \o q)
         \/ runq = <<>>
  PROVE  KeepsOrder
  <1> SUFFICES ASSUME NEW t, NEW u, Before(runq, t, u), t # Head(runq)
               PROVE  Before(runq', t, u)
    BY DEF KeepsOrder
  <1>1. runq # <<>>
    BY DEF Before
  <1>2. Tail(runq) \in Seq(Tid) /\ Before(Tail(runq), t, u)
    BY <1>1, OrderTail
  <1>3. ASSUME NEW q \in Seq(Tid)
        PROVE  runq \o q \in Seq(Tid) /\ Before(runq \o q, t, u)
               /\ Head(runq \o q) = Head(runq)
    BY <1>1, OrderConcat, ConcatQueue
  <1>4. ASSUME NEW q \in Seq(Tid), NEW p \in Seq(Tid)
        PROVE  Before((runq \o q) \o p, t, u)
    BY <1>3, OrderConcat
  <1>5. ASSUME NEW q \in Seq(Tid)
        PROVE  Before(Tail(runq \o q), t, u)
    BY <1>3, OrderTail
  <1>6. ASSUME NEW x \in Tid
        PROVE  Before(Append(runq, x), t, u) /\ Before(Append(Tail(runq), x), t, u)
    BY <1>2, OrderAppend
  <1> QED BY <1>1, <1>2, <1>3, <1>4, <1>5, <1>6

\* The steps of next() and of the counting of a turn.
LEMMA StepOrder ==
  ASSUME IInv, NEW t \in Tid, Step(t)
  PROVE  KeepsOrder
  <1>0. runq \in Seq(Tid) /\ waitq \in Seq(Tid) /\ inter_pro_wakeup_tids \subseteq Tid
        /\ Range(waitq) \subseteq Tid
    BY RangeIndex DEF IInv, TypeOK
  <1>1. CASE getTurn(t) \/ noNextThread(t) \/ signalIdleCond(t) \/ wakeup(t)
    <2>1. runq' = runq
      BY <1>1 DEF getTurn, noNextThread, signalIdleCond, wakeup, queues
    <2> QED BY <1>0, <2>1, QueueEnds
  <1>2. CASE incTurnCount(t)
    <2>1. PICK q \in InOrder(Expired, waitq) : check_wakeup(runq \o q)
      BY <1>2 DEF incTurnCount
    <2>2. PICK p \in Listings(inter_pro_wakeup_tids \ Range(runq \o q)) :
            runq' = (runq \o q) \o p
      BY <2>1 DEF check_wakeup
    <2>3. Expired \in SUBSET Tid
      BY <1>0 DEF Expired
    <2>4. q \in Seq(Tid)
      BY <2>3, InOrderQueue
    <2>5. inter_pro_wakeup_tids \ Range(runq \o q) \in SUBSET Tid
      BY <1>0
    <2>6. p \in Seq(Tid)
      BY <2>5, ListingQueue
    <2> QED BY <1>0, <2>2, <2>4, <2>6, QueueEnds
  <1>3. CASE checkWakeup(t)
    <2>1. PICK p \in Listings(inter_pro_wakeup_tids \ Range(runq)) : runq' = runq \o p
      BY <1>3 DEF checkWakeup, check_wakeup
    <2>2. inter_pro_wakeup_tids \ Range(runq) \in SUBSET Tid
      BY <1>0
    <2>3. p \in Seq(Tid)
      BY <2>2, ListingQueue
    <2> QED BY <1>0, <2>1, <2>3, QueueEnds
  <1>4. CASE nextRunnable(t)
    <2>1. runq # <<>> /\ Head(runq) \in Tid
      BY <1>0, <1>4, TailQueue DEF nextRunnable, IInv, QueueInv
    <2>2. runq' = Tail(runq) \/ runq' = runq \/ runq' = Append(Tail(runq), Head(runq))
      BY <1>4 DEF nextRunnable
    <2> QED BY <1>0, <2>1, <2>2, QueueEnds
  <1>5. CASE wakeUpIdleThread(t)
    BY <1>0, <1>5, QueueEnds DEF wakeUpIdleThread
  <1>6. CASE block(t)
    <2>1. runq' = Tail(runq)
      BY <1>6 DEF block, LeaveRunq
    <2> QED BY <1>0, <2>1, QueueEnds
  <1> QED BY <1>1, <1>2, <1>3, <1>4, <1>5, <1>6 DEF Step

\* The ends of an operation: the turn is put, or the thread waits.
LEMMA PutTurnOrder ==
  ASSUME IInv, NEW t \in Tid, pc[t] \in {"ticked", "try", "tried"},
         \/ \E s : putTurn(t, s)
         \/ \E c, n, l : wait(t, c, n, l)
  PROVE  KeepsOrder
  <1>1. runq \in Seq(Tid) /\ runq # <<>>
    BY AtHead DEF IInv, TypeOK, TurnPC
  <1>2. runq' = runq \/ runq' = Append(Tail(runq), t) \/ runq' = Tail(runq)
    BY DEF putTurn, wait, LeaveRunq
  <1> QED BY <1>1, <1>2, QueueEnds

\* A signal moves waiters to the back.
LEMMA SignalOrder ==
  ASSUME IInv, NEW c, NEW all, signal(c, all)
  PROVE  KeepsOrder
  <1>1. runq \in Seq(Tid) /\ Range(waitq) \subseteq Tid
    BY RangeIndex DEF IInv, TypeOK
  <1>2. PICK q \in InOrder(Signalled(c, all), waitq) : runq' = runq \o q
    BY DEF signal
  <1>3. Signalled(c, all) \in SUBSET Tid
    BY <1>1, SignalledWait
  <1>4. q \in Seq(Tid)
    BY <1>3, InOrderQueue
  <1> QED BY <1>1, <1>2, <1>4, QueueEnds

\* Every step of the scheduler keeps the order of the run queue.
LEMMA NextOrder == IInv /\ [Next]_vars => [KeepsOrder]_vars
  <1> SUFFICES ASSUME IInv, Next PROVE KeepsOrder
    OBVIOUS
  <1>0. runq \in Seq(Tid) /\ Range(waitq) \subseteq Tid
    BY RangeIndex DEF IInv, TypeOK
  <1>a. ASSUME runq' = runq PROVE KeepsOrder
    BY <1>0, <1>a, QueueEnds
  <1>1. ASSUME NEW t \in Tid, schedTimerEnd(t) \/ (\E c, n : syncWait(t, c, n))
                 \/ (\E u, l : pthreadJoin(t, u, l)) \/ (\E l1, l2 : endOp(t, l1, l2))
                 \/ (\E l : lockIdleMutex(t, l))
        PROVE  KeepsOrder
    <2>1. /\ pc[t] = "ticked"
          /\ (\E s : putTurn(t, s)) \/ (\E c, n, l : wait(t, c, n, l))
      BY Zenon, <1>1 DEF schedTimerEnd, syncWait, pthreadJoin, endOp, lockIdleMutex
    <2> QED BY <2>1, PutTurnOrder
  <1>2. ASSUME NEW t \in Tid, threadEnd(t)
        PROVE  KeepsOrder
    <2>1. PICK q \in InOrder(FirstWaiter(t), waitq) : runq' = Tail(runq \o q)
      BY <1>2 DEF threadEnd, LeaveRunq
    <2>2. FirstWaiter(t) \in SUBSET Tid
      BY <1>0 DEF FirstWaiter, Waiters
    <2>3. q \in Seq(Tid)
      BY <2>2, InOrderQueue
    <2> QED BY <1>0, <2>1, <2>3, QueueEnds
  <1>3. ASSUME NEW t \in Tid, pthreadCreate(t)
        PROVE  KeepsOrder
    <2>1. nthread \in Tid /\ runq' = Append(runq, nthread)
      BY <1>3, NThreadAssumption DEF pthreadCreate, IInv, TypeOK, Tid
    <2> QED BY <1>0, <2>1, QueueEnds
  <1>4. ASSUME NEW t \in Tid, unlockIdleMutex(t) \/ condSignalIdle(t)
                 \/ (\E c, all : syncSignal(t, c, all))
        PROVE  KeepsOrder
    <2>1. PICK c, all : signal(c, all)
      BY Zenon, <1>4 DEF unlockIdleMutex, condSignalIdle, syncSignal
    <2> QED BY <2>1, SignalOrder
  <1>5. ASSUME NEW t \in Tid, interProStart(t) \/ interProEnd(t)
        PROVE  KeepsOrder
    BY <1>5, <1>a DEF interProStart, interProEnd, queues
  <1>6. CASE idleCondWait \/ tryPutTurn \/ idleThreadCondWait
    <2>1. \/ runq' = runq
          \/ /\ pc[IdleThreadTid] \in {"ticked", "try", "tried"}
             /\ (\E s : putTurn(IdleThreadTid, s)) \/ (\E c, n, l : wait(IdleThreadTid, c, n, l))
      BY <1>6 DEF idleCondWait, tryPutTurn, idleThreadCondWait, queues
    <2> QED BY <1>a, <2>1, TidFacts, PutTurnOrder
  <1>7. CASE condWait \/ progEnd \/ Terminated
    BY <1>7, <1>a DEF condWait, progEnd, Terminated, queues, vars
  <1>8. ASSUME NEW t \in Tid, AppOp(t)
        PROVE  KeepsOrder
    BY <1>1, <1>2, <1>3, <1>4, <1>5, <1>8 DEF AppOp, threadBegin
  <1>9. CASE IdleOp \/ ProgEndOp
    BY <1>1, <1>4, <1>6, <1>9, TidFacts DEF IdleOp, ProgEndOp
  <1> QED BY <1>5, <1>7, <1>8, <1>9, StepOrder DEF Next

\* Round robin: check_wakeup(), signal(), fireTimeouts() and create() only push to
\* the back of runq, and putTurn(), wait(), block() and nextRunnable() only take
\* its head, so no thread in the queue overtakes another.
THEOREM RoundRobin == Spec => NoOvertaking
  <1>1. IInv /\ [Next]_vars =>
          [\A t, u \in Range(runq) \cap Range(runq') :
             Before(runq, t, u) /\ t # Head(runq) => Before(runq', t, u)]_vars
    BY NextOrder DEF KeepsOrder
  <1> QED BY <1>1, Invariance, PTL DEF Spec, NoOvertaking

-----------------------------------------------------------------------------
(* The wait queue loses a thread out of its turn only in wakeUpIdleThread(); that
   nobody waits on the same channel before the idle thread is MutexInv.        *)

\* In a queue that holds every thread once, "before" is a strict order.
LEMMA BeforeStrict ==
  ASSUME NEW S, NEW s \in Seq(S), IsInjective(s), NEW t, NEW u, Before(s, t, u)
  PROVE  t # u /\ ~Before(s, u, t)
  <1>1. PICK i, j \in 1..Len(s) : i < j /\ s[i] = t /\ s[j] = u
    BY DEF Before
  <1>2. \A k, l \in 1..Len(s) : s[k] = s[l] => k = l
    BY DEF IsInjective
  <1>3. t # u
    BY <1>1, <1>2
  <1>4. ASSUME NEW k \in 1..Len(s), NEW l \in 1..Len(s), k < l, s[k] = u, s[l] = t
        PROVE  FALSE
    <2>1. k = j /\ l = i
      BY <1>1, <1>2, <1>4
    <2> QED BY <1>1, <1>4, <2>1
  <1>5. ~Before(s, u, t)
    BY <1>4 DEF Before
  <1> QED BY <1>3, <1>5

\* The threads a scan picks keep the order of the queue it scans.
LEMMA SelectionOrder ==
  ASSUME NEW s \in Seq(Tid), IsInjective(s), NEW S \in SUBSET Tid, NEW q \in InOrder(S, s),
         NEW t \in S, NEW u \in S, Before(s, t, u)
  PROVE  Before(q, t, u)
  <1>1. q \in Seq(Tid) /\ Range(q) = S
    BY InOrderQueue
  <1>2. PICK i \in 1..Len(q) : q[i] = t
    BY <1>1, RangeIndex
  <1>3. PICK j \in 1..Len(q) : q[j] = u
    BY <1>1, RangeIndex
  <1>4. t # u /\ ~Before(s, u, t)
    BY BeforeStrict
  <1>5. DOMAIN q = 1..Len(q)
    BY <1>1
  <1>6. ~(j < i)
    BY <1>2, <1>3, <1>4, <1>5 DEF InOrder
  <1>7. i < j
    BY <1>1, <1>2, <1>3, <1>4, <1>6
  <1> QED BY <1>2, <1>3, <1>5, <1>7 DEF Before

\* A queue pushed to the back keeps its order.
LEMMA OrderPushed ==
  ASSUME NEW S, NEW s \in Seq(S), NEW r \in Seq(S), NEW t, NEW u, Before(r, t, u)
  PROVE  Before(s \o r, t, u)
  <1>1. PICK i, j \in 1..Len(r) : i < j /\ r[i] = t /\ r[j] = u
    BY DEF Before
  <1>2. /\ Len(s) + i \in DOMAIN (s \o r) /\ (s \o r)[Len(s) + i] = t
        /\ Len(s) + j \in DOMAIN (s \o r) /\ (s \o r)[Len(s) + j] = u
    BY <1>1
  <1>3. Len(s) + i < Len(s) + j
    BY <1>1
  <1> QED BY <1>2, <1>3, Zenon DEF Before

\* The step serves the waiters of each channel in the order they came.
ServesInOrder ==
  \A t, u \in Range(waitq) :
    Before(waitq, t, u) /\ chan[t] = chan[u] /\ u \notin Range(waitq') =>
      \/ timeout[u] = 0
      \/ t \notin Range(waitq') /\ Before(runq', t, u)

\* signal(): one waiter leaves and it is the first, or all leave in order.
LEMMA SignalServes ==
  ASSUME IInv, NEW c, NEW all, signal(c, all)
  PROVE  ServesInOrder
  <1> DEFINE S == Signalled(c, all)
  <1>0. /\ runq \in Seq(Tid) /\ waitq \in Seq(Tid) /\ IsInjective(waitq)
        /\ Range(waitq) \subseteq Tid
    BY RangeIndex DEF IInv, TypeOK, QueueInv
  <1>1. S \in SUBSET Range(waitq) /\ S \in SUBSET Tid
    BY <1>0, SignalledWait
  <1>2. PICK q \in InOrder(S, waitq) : runq' = runq \o q
    BY DEF signal
  <1>3. q \in Seq(Tid) /\ Range(waitq') = Range(waitq) \ S
    BY <1>1, InOrderQueue, ResetQueue DEF signal
  <1>4. SUFFICES ASSUME NEW t \in Range(waitq), NEW u \in S, Before(waitq, t, u),
                        chan[t] = chan[u]
                 PROVE  t \in S /\ Before(runq', t, u)
    BY <1>3 DEF ServesInOrder
  <1>5. chan[u] = c
    BY DEF Signalled, Waiters, FirstWaiter
  <1>6. t \in S
    <2>1. CASE all
      BY <1>4, <1>5, <2>1 DEF Signalled, Waiters
    <2>2. CASE ~all
      <3>1. PICK i \in 1..Len(waitq) : waitq[i] = u /\ \A j \in 1..(i-1) : chan[waitq[j]] # c
        BY <1>0, <2>2 DEF Signalled, FirstWaiter
      <3>2. PICK k, l \in 1..Len(waitq) : k < l /\ waitq[k] = t /\ waitq[l] = u
        BY <1>0, <1>4 DEF Before
      <3>3. l = i
        BY <1>0, <3>1, <3>2 DEF IsInjective
      <3>4. k \in 1..(i-1)
        BY <3>2, <3>3
      <3> QED BY <1>4, <1>5, <3>1, <3>2, <3>4
    <2> QED BY <2>1, <2>2
  <1>7. Before(q, t, u)
    BY <1>0, <1>1, <1>4, <1>6, SelectionOrder
  <1> QED BY <1>0, <1>2, <1>3, <1>6, <1>7, OrderPushed

\* The steps of next() and of the counting of a turn.
LEMMA StepServes ==
  ASSUME IInv, MutexInv, NEW t \in Tid, Step(t)
  PROVE  ServesInOrder
  <1>0. waitq \in Seq(Tid) /\ Range(waitq) \subseteq Tid /\ IsInjective(waitq)
    BY RangeIndex DEF IInv, TypeOK, QueueInv
  <1>1. CASE \/ getTurn(t) \/ checkWakeup(t) \/ nextRunnable(t) \/ noNextThread(t)
             \/ signalIdleCond(t) \/ block(t) \/ wakeup(t)
    BY <1>1 DEF getTurn, checkWakeup, nextRunnable, noNextThread, signalIdleCond, block,
                wakeup, queues, ServesInOrder
  <1>2. CASE incTurnCount(t)
    <2>1. Range(waitq) \ Expired \in SUBSET Tid
      BY <1>0
    <2>2. Range(waitq') = Range(waitq) \ Expired
      BY <1>2, <2>1, InOrderQueue DEF incTurnCount
    <2> QED BY <2>2 DEF Expired, ServesInOrder
  <1>3. CASE wakeUpIdleThread(t)
    <2>1. CASE UNCHANGED queues
      BY <2>1 DEF queues, ServesInOrder
    <2>2. CASE IdleThreadTid \in Range(waitq) /\ Reset({IdleThreadTid})
      <3>1. Range(waitq') = Range(waitq) \ {IdleThreadTid}
        BY <2>2, ResetQueue
      <3>2. ASSUME NEW v \in Range(waitq), chan[v] = chan[IdleThreadTid]
            PROVE  v = IdleThreadTid
        BY <2>2, <3>2 DEF MutexInv, SleepersInv
      <3>3. ASSUME NEW v \in Range(waitq), Before(waitq, v, IdleThreadTid),
                   chan[v] = chan[IdleThreadTid]
            PROVE  FALSE
        BY <1>0, <3>2, <3>3, BeforeStrict
      <3> QED BY <3>1, <3>3 DEF ServesInOrder
    <2> QED BY <1>3, <2>1, <2>2 DEF wakeUpIdleThread
  <1> QED BY <1>1, <1>2, <1>3 DEF Step

LEMMA NextServes == IInv /\ MutexInv /\ [Next]_vars => [ServesInOrder]_vars
  <1> SUFFICES ASSUME IInv, MutexInv, Next PROVE ServesInOrder
    OBVIOUS
  <1>0. waitq \in Seq(Tid) /\ Range(waitq) \subseteq Tid /\ IsInjective(waitq)
    BY RangeIndex DEF IInv, TypeOK, QueueInv
  <1>a. ASSUME waitq' = waitq \/ \E t \in Tid : waitq' = Append(waitq, t)
        PROVE  ServesInOrder
    BY <1>0, <1>a, AppendQueue DEF ServesInOrder
  <1>1. ASSUME NEW t \in Tid, schedTimerEnd(t) \/ (\E c, n : syncWait(t, c, n))
                 \/ (\E u, l : pthreadJoin(t, u, l)) \/ (\E l1, l2 : endOp(t, l1, l2))
                 \/ (\E l : lockIdleMutex(t, l))
        PROVE  ServesInOrder
    <2>1. (\E s : putTurn(t, s)) \/ (\E c, n, l : wait(t, c, n, l))
      BY Zenon, <1>1 DEF schedTimerEnd, syncWait, pthreadJoin, endOp, lockIdleMutex
    <2>2. waitq' = waitq \/ waitq' = Append(waitq, t)
      BY <2>1 DEF putTurn, wait
    <2> QED BY <1>a, <2>2
  <1>2. ASSUME NEW t \in Tid, threadEnd(t)
        PROVE  ServesInOrder
    <2>1. FirstWaiter(t) \in SUBSET Range(waitq) /\ Reset(FirstWaiter(t))
      BY <1>2 DEF threadEnd, FirstWaiter, Waiters
    <2>2. Range(waitq') = Range(waitq) \ FirstWaiter(t)
      BY <2>1, ResetQueue
    <2>3. ASSUME NEW v \in Range(waitq), NEW u \in FirstWaiter(t), chan[v] = chan[u]
          PROVE  v = u
      BY <2>1, <2>3 DEF FirstWaiter, Waiters, IInv, JoinInv
    <2>4. ASSUME NEW v \in Range(waitq), NEW u \in FirstWaiter(t), chan[v] = chan[u],
                 Before(waitq, v, u)
          PROVE  FALSE
      BY <1>0, <2>3, <2>4, BeforeStrict
    <2> QED BY <2>2, <2>4 DEF ServesInOrder
  <1>3. ASSUME NEW t \in Tid, unlockIdleMutex(t) \/ condSignalIdle(t)
                 \/ (\E c, all : syncSignal(t, c, all))
        PROVE  ServesInOrder
    <2>1. PICK c, all : signal(c, all)
      BY Zenon, <1>3 DEF unlockIdleMutex, condSignalIdle, syncSignal
    <2> QED BY <2>1, SignalServes
  <1>4. ASSUME NEW t \in Tid, pthreadCreate(t) \/ interProStart(t) \/ interProEnd(t)
        PROVE  ServesInOrder
    BY <1>4, <1>a DEF pthreadCreate, interProStart, interProEnd, queues
  <1>5. CASE idleCondWait \/ tryPutTurn \/ idleThreadCondWait
    <2>1. waitq' = waitq \/ waitq' = Append(waitq, IdleThreadTid)
      BY <1>5 DEF idleCondWait, tryPutTurn, idleThreadCondWait, putTurn, wait, queues
    <2> QED BY <1>a, <2>1, TidFacts
  <1>6. CASE condWait \/ progEnd \/ Terminated
    BY <1>6, <1>a DEF condWait, progEnd, Terminated, queues, vars
  <1>7. ASSUME NEW t \in Tid, AppOp(t)
        PROVE  ServesInOrder
    BY <1>1, <1>2, <1>3, <1>4, <1>7 DEF AppOp, threadBegin
  <1>8. CASE IdleOp \/ ProgEndOp
    BY <1>1, <1>3, <1>5, <1>8, TidFacts DEF IdleOp, ProgEndOp
  <1> QED BY <1>4, <1>6, <1>7, <1>8, StepServes DEF Next

\* First come, first served: signal() takes the first waiter of its channel or all
\* of them in order, and wakeUpIdleThread(), which takes the idle thread from
\* wherever it is in waitq, passes over nobody that waits for the same thing.
THEOREM ServiceOrder == Spec => FirstComeFirstServed
  <1>1. IInv /\ MutexInv /\ [Next]_vars =>
          [\A t, u \in Range(waitq) :
             Before(waitq, t, u) /\ chan[t] = chan[u] /\ u \notin Range(waitq') =>
               \/ timeout[u] = 0
               \/ t \notin Range(waitq') /\ Before(runq', t, u)]_vars
    BY NextServes DEF ServesInOrder
  <1> QED BY <1>1, MutexInvariance, PTL DEF Spec, SchedulerInv, FirstComeFirstServed
=============================================================================
