-------------------------- MODULE RRSchedulerSteps --------------------------
(***************************************************************************)
(* The scheduler operations that change the queues, each as a lemma on     *)
(* what it does to them, and the steps of blocking calls, keep IInv.       *)
(***************************************************************************)
EXTENDS RRSchedulerInvariant

\* putTurn() of the thread at the head, whatever the operation does besides.
LEMMA PutTurnIInv ==
  ASSUME IInv, NEW t \in Tid, pc[t] \in {"ticked", "try"},
         NEW s \in {"DEFAULT", "CURRENT_THREAD", "CURRENT_ROLE"}, putTurn(t, s),
         at' \in [Tid -> At], at'[IdleThreadTid] # "app",
         \A u \in Tid : u > IdleThreadTid => at'[u] \in {"begin", "app"},
         zombies' \subseteq zombies,
         idle_mutex' \in {InvalidTid, MainThreadTid, IdleThreadTid},
         idle_done' \in BOOLEAN
  PROVE  IInv'
  <1> USE DEF IInv, putTurn, Goto
  <1>b. /\ runq # <<>> /\ Head(runq) = t
        /\ t \in Range(runq) /\ t \notin Range(waitq)
        /\ Tail(runq) \in Seq(Tid) /\ IsInjective(Tail(runq))
        /\ Range(Tail(runq)) = Range(runq) \ {t}
        /\ \A u \in Tid : u # t => ~wakenUp[u] /\ pc[u] \notin TurnPC
        /\ \A u \in Tid : u \in Range(waitq) => pc[u] # "done"
        /\ Range(runq) \subseteq Tid /\ Range(waitq) \subseteq Tid
    BY AtHead DEF TurnPC
  <1>c. ~wakenUp[t]
    BY DEF OneTurn, TurnPC
  <1>g. runq' \in Seq(Tid) /\ IsInjective(runq') /\ Range(runq') = Range(runq)
    BY <1>b, RotateQueue DEF TypeOK, QueueInv
  <1>i. \A u \in Tid : /\ pc'[u] = IF u = t THEN "check" ELSE pc[u]
                       /\ status'[u] = IF u = t THEN "RUNNABLE" ELSE status[u]
    BY DEF TypeOK
  <1>1. TypeOK'
    BY Zenon, <1>g DEF TypeOK, PC, Status
  <1>2. (OneTurn /\ HeadHoldsTurn)'
    BY <1>b, <1>c, <1>i DEF OneTurn, HeadHoldsTurn, HasTurn, TurnPC
  <1>3. (QueueInv /\ ChanInv)'
    BY <1>g DEF QueueInv, ChanInv
  <1>4. PlaceInv'
    BY <1>b, <1>c, <1>g, <1>i DEF PlaceInv, InNext, TurnPC
  <1>5. DeadInv'
    BY <1>b, <1>i DEF DeadInv
  <1>6. ThreadInv'
    BY <1>b, <1>i, TidFacts DEF ThreadInv, InNext, TurnPC
  <1>7. StatusInv'
    BY <1>b, <1>c, <1>i DEF StatusInv, StatusAsserts, InNext, TurnPC
  <1>8. NoLostThread'
    BY <1>g, <1>i DEF NoLostThread
  <1>9. JoinInv'
    BY DEF JoinInv, NoMissedJoin
  <1> QED BY <1>1, <1>2, <1>3, <1>4, <1>5, <1>6, <1>7, <1>8, <1>9

\* wait(c, n): a thread does not wait for nothing, nor join the dead, and is
\* the only one to join a thread.
LEMMA WaitIInv ==
  ASSUME IInv, NEW t \in Tid, pc[t] \in {"ticked", "tried"},
         NEW c \in Channel \cup {NULL}, NEW n \in 0..FOREVER, NEW l \in {"wait", "tocond"},
         wait(t, c, n, l),
         c # NULL \/ n # FOREVER, l = "tocond" => t = IdleThreadTid,
         c \notin zombies, c # MainThreadTid, c = IdleThreadTid => t = MainThreadTid,
         c \in Tid => \A u \in Tid : chan[u] # c,
         UNCHANGED <<zombies, idle_mutex, idle_done, at>>
  PROVE  IInv'
  <1> USE DEF IInv, wait, LeaveRunq, Goto
  <1>b. /\ runq # <<>> /\ Head(runq) = t
        /\ t \in Range(runq) /\ t \notin Range(waitq)
        /\ Tail(runq) \in Seq(Tid) /\ IsInjective(Tail(runq))
        /\ Range(Tail(runq)) = Range(runq) \ {t}
        /\ \A u \in Tid : u # t => ~wakenUp[u] /\ pc[u] \notin TurnPC
        /\ \A u \in Tid : u \in Range(waitq) => pc[u] # "done"
        /\ Range(runq) \subseteq Tid /\ Range(waitq) \subseteq Tid
    BY AtHead DEF TurnPC
  <1>c. ~wakenUp[t] /\ status[t] = "RUNNING_REG" /\ t \notin inter_pro_wakeup_tids
    BY DEF OneTurn, TurnPC, StatusInv, StatusAsserts, PlaceInv
  <1>g. runq' \in Seq(Tid) /\ IsInjective(runq') /\ Range(runq') = Range(runq) \ {t}
    BY <1>b
  <1>h. waitq' \in Seq(Tid) /\ IsInjective(waitq') /\ Range(waitq') = Range(waitq) \cup {t}
    BY <1>b, AppendQueue DEF TypeOK, QueueInv
  <1>i. \A u \in Tid : /\ pc'[u] = IF u = t THEN "check" ELSE pc[u]
                       /\ status'[u] = IF u = t THEN "RUNNABLE" ELSE status[u]
                       /\ chan'[u] = IF u = t THEN c ELSE chan[u]
                       /\ timeout'[u] = IF u = t THEN n ELSE timeout[u]
    BY <1>c DEF TypeOK
  <1>1. TypeOK'
    BY <1>c, <1>g, <1>h DEF TypeOK, PC, Status
  <1>2. (OneTurn /\ HeadHoldsTurn)'
    BY <1>b, <1>c, <1>i DEF OneTurn, HeadHoldsTurn, HasTurn, TurnPC
  <1>3. (QueueInv /\ ChanInv)'
    BY <1>b, <1>c, <1>g, <1>h, <1>i DEF QueueInv, ChanInv
  <1>4. PlaceInv'
    BY <1>b, <1>c, <1>g, <1>h, <1>i DEF PlaceInv, InNext, TurnPC
  <1>5. DeadInv'
    BY <1>b, <1>h, <1>i DEF DeadInv
  <1>6. ThreadInv'
    BY <1>b, <1>i, TidFacts DEF ThreadInv, InNext, TurnPC
  <1>7. StatusInv'
    BY <1>b, <1>c, <1>i DEF StatusInv, StatusAsserts, InNext, TurnPC
  <1>8. NoLostThread'
    BY <1>g, <1>h, <1>i DEF NoLostThread
  <1>9. JoinInv'
    BY <1>b, <1>h, <1>i DEF JoinInv, NoMissedJoin
  <1> QED BY <1>1, <1>2, <1>3, <1>4, <1>5, <1>6, <1>7, <1>8, <1>9

\* The threads signal() picks wait in the wait queue.
LEMMA SignalledWait ==
  ASSUME NEW c, NEW all
  PROVE  Signalled(c, all) \subseteq Range(waitq)
  BY DEF Signalled, Waiters, FirstWaiter

\* What Reset() does to the wait queue and its fields.
LEMMA ResetQueue ==
  ASSUME IInv, NEW S \in SUBSET Range(waitq), Reset(S)
  PROVE  /\ waitq' \in Seq(Tid) /\ IsInjective(waitq') /\ Range(waitq') = Range(waitq) \ S
         /\ chan' \in [Tid -> Channel \cup {NULL}] /\ timeout' \in [Tid -> 0..FOREVER]
         /\ \A u \in Tid : /\ chan'[u] = IF u \in S THEN NULL ELSE chan[u]
                           /\ timeout'[u] = IF u \in S THEN FOREVER ELSE timeout[u]
  <1>1. waitq' \in Seq(Tid) /\ IsInjective(waitq') /\ Range(waitq') = Range(waitq) \ S
    BY WaitqWithout DEF Reset
  <1>2. FOREVER \in 0..FOREVER
    BY TimeoutAssumption DEF FOREVER
  <1> QED BY <1>1, <1>2 DEF Reset, IInv, TypeOK

\* signal() by the thread at the head, whatever it does to idle_mutex.
LEMMA SignalIInv ==
  ASSUME IInv, NEW t \in Tid, pc[t] = "turn", NEW c, NEW all, signal(c, all),
         Goto(t, "acted"),
         UNCHANGED <<status, wakenUp, inter_pro_wakeup_tids, nthread, zombies,
                     idle_done, at, strategy, ret, scan>>,
         idle_mutex' \in {InvalidTid, MainThreadTid, IdleThreadTid}
  PROVE  IInv'
  <1> DEFINE S == Signalled(c, all)
  <1> USE DEF IInv, Goto
  <1>b. /\ runq # <<>> /\ Head(runq) = t
        /\ t \in Range(runq) /\ t \notin Range(waitq)
        /\ \A u \in Tid : u # t => ~wakenUp[u] /\ pc[u] \notin TurnPC
        /\ \A u \in Tid : u \in Range(waitq) => pc[u] # "done"
        /\ Range(runq) \subseteq Tid /\ Range(waitq) \subseteq Tid
    BY AtHead DEF TurnPC
  <1>c. ~wakenUp[t]
    BY DEF OneTurn, TurnPC
  <1>d. S \subseteq Range(waitq) /\ S \in SUBSET Tid
    BY <1>b, SignalledWait
  <1>e. Reset(S) /\ \E q \in InOrder(S, waitq) : runq' = runq \o q
    BY Zenon DEF signal
  <1> HIDE DEF S
  <1>f. PICK q \in InOrder(S, waitq) : runq' = runq \o q
    BY <1>e
  <1>g. /\ runq' \in Seq(Tid) /\ IsInjective(runq') /\ runq' # <<>> /\ Head(runq') = t
        /\ Range(runq') = Range(runq) \cup S
    <2>1. q \in Seq(Tid) /\ IsInjective(q) /\ Range(q) = S
      BY <1>d, InOrderQueue
    <2>2. runq \in Seq(Tid) /\ IsInjective(runq) /\ Range(runq) \cap Range(q) = {}
      BY <1>d, <2>1 DEF TypeOK, QueueInv
    <2> QED BY <1>b, <1>f, <2>1, <2>2, ConcatQueue
  <1>h. /\ waitq' \in Seq(Tid) /\ IsInjective(waitq') /\ Range(waitq') = Range(waitq) \ S
        /\ chan' \in [Tid -> Channel \cup {NULL}] /\ timeout' \in [Tid -> 0..FOREVER]
        /\ \A u \in Tid : /\ chan'[u] = IF u \in S THEN NULL ELSE chan[u]
                          /\ timeout'[u] = IF u \in S THEN FOREVER ELSE timeout[u]
    BY <1>d, <1>e, ResetQueue
  <1>i. \A u \in Tid : pc'[u] = IF u = t THEN "acted" ELSE pc[u]
    BY DEF TypeOK
  <1>1. TypeOK'
    BY Zenon, <1>g, <1>h DEF TypeOK, PC
  <1>2. (OneTurn /\ HeadHoldsTurn)'
    BY <1>b, <1>c, <1>g, <1>i DEF OneTurn, HeadHoldsTurn, HasTurn, TurnPC
  <1>3. (QueueInv /\ ChanInv)'
    <2>1. QueueInv'
      BY <1>d, <1>g, <1>h DEF QueueInv
    <2>2. ChanInv'
      BY <1>d, <1>h DEF ChanInv
    <2> QED BY <2>1, <2>2
  <1>4. PlaceInv'
    <2> SUFFICES ASSUME NEW u \in Tid PROVE PlaceInv!(u)'
      BY DEF PlaceInv
    <2>1. ~InNext(u) /\ ~InNext(u)'
      BY <1>b, <1>i DEF InNext, TurnPC
    <2>2. u \in Range(runq') => pc'[u] \notin {"none", "done"}
      BY <1>b, <1>d, <1>g, <1>i, <2>1 DEF PlaceInv
    <2> QED BY <1>b, <1>c, <1>h, <1>i, <2>1, <2>2 DEF PlaceInv
  <1>5. DeadInv'
    BY <1>b, <1>h, <1>i DEF DeadInv
  <1>6. ThreadInv'
    BY <1>b, <1>i, TidFacts DEF ThreadInv, InNext, TurnPC
  <1>7. StatusInv'
    <2> SUFFICES ASSUME NEW u \in Tid PROVE StatusAsserts!(u)' /\ StatusInv!2!(u)'
      BY DEF StatusInv, StatusAsserts
    <2>1. StatusAsserts!(u) /\ StatusInv!2!(u)
      BY DEF StatusInv, StatusAsserts
    <2>2. CASE u # t
      BY <1>i, <2>1, <2>2 DEF InNext
    <2>3. CASE u = t
      BY <1>c, <1>i, <2>1, <2>3 DEF InNext
    <2> QED BY <2>2, <2>3
  <1>8. NoLostThread'
    BY <1>g, <1>h, <1>i DEF NoLostThread
  <1>9. JoinInv'
    <2>1. \A u \in Range(waitq') : u \in Range(waitq) /\ chan'[u] = chan[u]
      BY <1>b, <1>h
    <2> QED BY <2>1 DEF JoinInv, NoMissedJoin
  <1> QED BY <1>1, <1>2, <1>3, <1>4, <1>5, <1>6, <1>7, <1>8, <1>9

-----------------------------------------------------------------------------
\* Leaving next() for good keeps the invariant: a thread end with nothing to run.
LEMMA noNextThreadIInv ==
  ASSUME IInv, NEW t \in Tid, noNextThread(t)
  PROVE  IInv'
  <1> USE DEF IInv, noNextThread, Goto, queues, idle
  <1>a. InNext(t) /\ ret = "done" /\ Range(runq) = {}
    BY Zenon, RangeIndex DEF InNext, InvalidTurn, TypeOK
  <1>b. /\ \A u \in Tid : ~wakenUp[u] /\ (u # t => pc[u] \notin TurnPC)
        /\ \A u \in Tid : u \in Range(waitq) => pc[u] # "done"
    BY <1>a, Passing
  <1>i. \A u \in Tid : pc'[u] = IF u = t THEN "done" ELSE pc[u]
    BY DEF TypeOK
  <1>1. TypeOK'
    BY DEF TypeOK, PC
  <1>2. (OneTurn /\ HeadHoldsTurn)'
    BY <1>b, <1>i DEF OneTurn, HeadHoldsTurn, HasTurn, TurnPC
  <1>3. (QueueInv /\ ChanInv /\ JoinInv)'
    BY DEF QueueInv, ChanInv, JoinInv, NoMissedJoin
  <1>4. (PlaceInv /\ DeadInv)'
    BY <1>a, <1>b, <1>i DEF PlaceInv, DeadInv, HasTurn, InNext, TurnPC
  <1>5. (ThreadInv /\ StatusInv /\ NoLostThread)'
    BY <1>b, <1>i, TidFacts DEF ThreadInv, StatusInv, StatusAsserts, NoLostThread, InNext, TurnPC
  <1> QED BY <1>1, <1>2, <1>3, <1>4, <1>5

\* wakeUpIdleThread(): the run queue is empty, so the idle thread becomes its
\* only element, or the caller exits with the turn.
LEMMA wakeUpIdleThreadIInv ==
  ASSUME IInv, NEW t \in Tid, wakeUpIdleThread(t)
  PROVE  IInv'
  <1> USE DEF IInv, Goto, idle
  <1>a. /\ InNext(t) /\ pc[t] = "next" /\ Range(runq) = {} /\ runq = <<>>
        /\ UNCHANGED <<status, wakenUp, inter_pro_wakeup_tids, nthread, zombies,
                       idle_mutex, idle_done, at, ret, scan>>
    BY Zenon, RangeIndex DEF InNext, TypeOK, wakeUpIdleThread
  <1>b. /\ \A u \in Tid : ~wakenUp[u] /\ (u # t => pc[u] \notin TurnPC)
        /\ Range(waitq) \subseteq Tid
        /\ \A u \in Tid : u \in Range(waitq) => pc[u] # "done"
    BY <1>a, Passing
  <1>1. CASE pc' = [pc EXCEPT ![t] = "done"] /\ UNCHANGED <<queues, strategy>>
    <2> USE <1>1 DEF queues
    <2>i. \A u \in Tid : pc'[u] = IF u = t THEN "done" ELSE pc[u]
      BY DEF TypeOK
    <2>1. TypeOK'
      BY <1>a DEF TypeOK, PC
    <2>2. (OneTurn /\ HeadHoldsTurn)'
      BY <1>a, <1>b, <2>i DEF OneTurn, HeadHoldsTurn, HasTurn, TurnPC
    <2>3. (QueueInv /\ ChanInv /\ JoinInv)'
      BY <1>a DEF QueueInv, ChanInv, JoinInv, NoMissedJoin
    <2>4. (PlaceInv /\ DeadInv)'
      BY <1>a, <1>b, <2>i DEF PlaceInv, DeadInv, HasTurn, InNext, TurnPC
    <2>5. (ThreadInv /\ StatusInv /\ NoLostThread)'
      BY <1>a, <1>b, <2>i, TidFacts DEF ThreadInv, StatusInv, StatusAsserts, NoLostThread,
         InNext, TurnPC
    <2> QED BY <2>1, <2>2, <2>3, <2>4, <2>5
  <1>2. CASE /\ IdleThreadTid \in Range(waitq)
             /\ runq' = <<IdleThreadTid>>
             /\ Reset({IdleThreadTid})
             /\ strategy' = "DEFAULT"
             /\ pc' = [pc EXCEPT ![t] = "poke"]
    <2> USE <1>2
    <2>g. runq' \in Seq(Tid) /\ IsInjective(runq') /\ Range(runq') = {IdleThreadTid}
      BY TidFacts DEF Range, IsInjective
    <2>h. /\ waitq' \in Seq(Tid) /\ IsInjective(waitq')
          /\ Range(waitq') = Range(waitq) \ {IdleThreadTid}
          /\ chan' \in [Tid -> Channel \cup {NULL}] /\ timeout' \in [Tid -> 0..FOREVER]
          /\ \A u \in Tid :
               /\ chan'[u] = IF u \in {IdleThreadTid} THEN NULL ELSE chan[u]
               /\ timeout'[u] = IF u \in {IdleThreadTid} THEN FOREVER ELSE timeout[u]
      <3> {IdleThreadTid} \in SUBSET Range(waitq)
        OBVIOUS
      <3> QED BY ResetQueue
    <2>i. \A u \in Tid : pc'[u] = IF u = t THEN "poke" ELSE pc[u]
      BY DEF TypeOK
    <2>1. TypeOK'
      BY Zenon, <1>a, <2>g, <2>h DEF TypeOK, PC
    <2>2. (OneTurn /\ HeadHoldsTurn)'
      BY <1>a, <1>b, <2>i DEF OneTurn, HeadHoldsTurn, HasTurn, TurnPC
    <2>3. (QueueInv /\ ChanInv)'
      BY Zenon, <1>a, <2>g, <2>h DEF QueueInv, ChanInv
    <2>4. PlaceInv'
      <3> SUFFICES ASSUME NEW u \in Tid PROVE PlaceInv!(u)'
        BY DEF PlaceInv
      <3>1. InNext(u)' <=> u = t
        BY <1>b, <2>i DEF InNext, TurnPC
      <3>2. ret # "run" /\ (ret = "done" => t # IdleThreadTid)
        BY <1>a DEF PlaceInv
      <3>3. u \in Range(runq') => pc'[u] \notin {"none", "done"}
        <4>1. pc[IdleThreadTid] \notin {"none", "done"}
          BY <1>b, TidFacts DEF PlaceInv, InNext
        <4> QED BY <2>g, <2>i, <4>1
      <3>4. u \in Range(waitq') => u \in Range(waitq)
        BY <2>h
      <3>5. t \notin inter_pro_wakeup_tids
        BY <1>a DEF PlaceInv
      <3>6. ret \in {"wait", "tocond"} => t \in Range(runq') \cup Range(waitq')
        BY <1>a, <2>g, <2>h DEF PlaceInv
      <3> QED BY <1>a, <1>b, <2>g, <2>i, <3>1, <3>2, <3>3, <3>4, <3>5, <3>6 DEF PlaceInv, InNext
    <2>5. DeadInv'
      BY <1>a, <1>b, <2>h, <2>i DEF DeadInv
    <2>6. ThreadInv'
      <3>1. \A u \in Tid : InNext(u)' => InNext(u)
        BY <1>a, <2>i DEF InNext
      <3>2. \A u \in Tid : pc'[u] = pc[u] \/ (pc[u] = "next" /\ pc'[u] = "poke")
        BY <1>a, <2>i
      <3> QED BY <1>a, <3>1, <3>2, TidFacts DEF ThreadInv
    <2>7. StatusInv'
      <3> SUFFICES ASSUME NEW u \in Tid PROVE StatusAsserts!(u)' /\ StatusInv!2!(u)'
        BY DEF StatusInv, StatusAsserts
      <3>1. StatusAsserts!(u) /\ StatusInv!2!(u)
        BY DEF StatusInv, StatusAsserts
      <3>2. CASE u # t
        BY <1>a, <2>i, <3>1, <3>2 DEF InNext
      <3>3. CASE u = t
        BY <1>a, <1>b, <2>i, <3>1, <3>3 DEF InNext
      <3> QED BY <3>2, <3>3
    <2>8. NoLostThread'
      <3> SUFFICES ASSUME NEW u \in Tid PROVE NoLostThread!(u)'
        BY DEF NoLostThread
      <3>1. NoLostThread!(u)
        BY DEF NoLostThread
      <3>2. u \in Range(runq) \cup Range(waitq) => u \in Range(runq') \cup Range(waitq')
        BY <1>a, <2>g, <2>h
      <3>3. pc'[u] = pc[u] \/ pc'[u] = "poke"
        BY <2>i
      <3>4. u = IdleThreadTid => u \in Range(runq')
        BY <2>g
      <3> QED BY <1>a, <3>1, <3>2, <3>3, <3>4
    <2>9. JoinInv'
      <3>1. \A u \in Range(waitq') : u \in Range(waitq) /\ chan'[u] = chan[u]
        BY <1>b, <2>h
      <3> QED BY <1>a, <3>1 DEF JoinInv, NoMissedJoin
    <2> QED BY <2>1, <2>2, <2>3, <2>4, <2>5, <2>6, <2>7, <2>8, <2>9
  <1> QED BY <1>1, <1>2 DEF wakeUpIdleThread

\* The signal of wakeUpIdleThread() only moves the idle thread.
LEMMA signalIdleCondIInv ==
  ASSUME IInv, NEW t \in Tid, signalIdleCond(t)
  PROVE  IInv'
  <1> USE DEF IInv, signalIdleCond, queues, idle
  <1>b. \A u \in Tid : ~wakenUp[u] /\ (u # t => pc[u] \notin TurnPC)
    BY Passing DEF InNext
  <1>i. /\ pc' \in [Tid -> PC]
        /\ \A u \in Tid :
             pc'[u] = IF u = t THEN "next"
                      ELSE IF u = IdleThreadTid /\ pc[u] = "sleep" THEN "reacq" ELSE pc[u]
    <2> DEFINE p == [pc EXCEPT ![t] = "next"]
    <2>1. p \in [Tid -> PC] /\ \A u \in Tid : p[u] = IF u = t THEN "next" ELSE pc[u]
      BY DEF TypeOK, PC
    <2>2. pc' = IF p[IdleThreadTid] = "sleep" THEN [p EXCEPT ![IdleThreadTid] = "reacq"] ELSE p
      BY DEF SignalIdleCond
    <2>3. "reacq" \in PC
      BY DEF PC
    <2> HIDE DEF p, IInv, signalIdleCond
    <2> QED BY <2>1, <2>2, <2>3, TidFacts
  <1>1. TypeOK'
    BY <1>i DEF TypeOK
  <1>2. (OneTurn /\ HeadHoldsTurn)'
    BY <1>b, <1>i DEF OneTurn, HeadHoldsTurn, HasTurn, TurnPC
  <1>3. (QueueInv /\ ChanInv /\ JoinInv)'
    BY DEF QueueInv, ChanInv, JoinInv, NoMissedJoin
  <1>4. PlaceInv'
    BY <1>b, <1>i DEF PlaceInv, InNext, TurnPC
  <1>5. DeadInv'
    BY <1>b, <1>i DEF DeadInv, HasTurn, TurnPC
  <1>6. ThreadInv'
    BY <1>i, TidFacts DEF ThreadInv, InNext
  <1>7. (StatusInv /\ NoLostThread)'
    BY <1>i DEF StatusInv, StatusAsserts, NoLostThread, InNext
  <1> QED BY <1>1, <1>2, <1>3, <1>4, <1>5, <1>6, <1>7

\* block() leaves the run queue with the status INTER_PRO_STOP.
LEMMA blockIInv ==
  ASSUME IInv, NEW t \in Tid, block(t)
  PROVE  IInv'
  <1> USE DEF IInv, block, LeaveRunq, Goto, idle
  <1>b. /\ runq # <<>> /\ Head(runq) = t
        /\ t \in Range(runq) /\ t \notin Range(waitq)
        /\ Tail(runq) \in Seq(Tid) /\ IsInjective(Tail(runq))
        /\ Range(Tail(runq)) = Range(runq) \ {t}
        /\ \A u \in Tid : u # t => ~wakenUp[u] /\ pc[u] \notin TurnPC
        /\ \A u \in Tid : u \in Range(waitq) => pc[u] # "done"
    BY AtHead DEF TurnPC
  <1>c. /\ ~wakenUp[t] /\ status[t] = "RUNNING_INTER_PRO" /\ t \notin inter_pro_wakeup_tids
        /\ t # IdleThreadTid
    BY DEF OneTurn, TurnPC, StatusInv, StatusAsserts, PlaceInv, ThreadInv
  <1>i. \A u \in Tid : /\ pc'[u] = IF u = t THEN "check" ELSE pc[u]
                       /\ status'[u] = IF u = t THEN "INTER_PRO_STOP" ELSE status[u]
    BY <1>c DEF TypeOK
  <1>1. TypeOK'
    BY <1>b, <1>c DEF TypeOK, PC, Status
  <1>2. (OneTurn /\ HeadHoldsTurn)'
    BY <1>b, <1>c, <1>i DEF OneTurn, HeadHoldsTurn, HasTurn, TurnPC
  <1>3. (QueueInv /\ ChanInv /\ JoinInv)'
    BY <1>b DEF QueueInv, ChanInv, JoinInv, NoMissedJoin
  <1>4. PlaceInv'
    BY <1>b, <1>c, <1>i DEF PlaceInv, InNext, TurnPC
  <1>5. DeadInv'
    BY <1>b, <1>i DEF DeadInv
  <1>6. ThreadInv'
    BY <1>b, <1>c, <1>i, TidFacts DEF ThreadInv, InNext, TurnPC
  <1>7. StatusInv'
    <2> SUFFICES ASSUME NEW u \in Tid PROVE StatusAsserts!(u)' /\ StatusInv!2!(u)'
      BY DEF StatusInv, StatusAsserts
    <2>1. StatusAsserts!(u) /\ StatusInv!2!(u)
      BY DEF StatusInv, StatusAsserts
    <2>0. ret' = "call" /\ UNCHANGED wakenUp /\ (u # t => ~InNext(u))
      BY <1>b DEF InNext, TurnPC
    <2>2. CASE u # t
      BY <1>i, <2>0, <2>1, <2>2 DEF InNext
    <2>3. CASE u = t
      BY <1>c, <1>i, <2>0, <2>1, <2>3 DEF InNext
    <2> QED BY <2>2, <2>3
  <1>8. NoLostThread'
    <2> SUFFICES ASSUME NEW u \in Tid PROVE NoLostThread!(u)'
      BY DEF NoLostThread
    <2>1. NoLostThread!(u)
      BY DEF NoLostThread
    <2>2. Range(runq') = Range(runq) \ {t} /\ UNCHANGED <<waitq, inter_pro_wakeup_tids>>
      BY <1>b
    <2> QED BY <1>i, <2>1, <2>2
  <1> QED BY <1>1, <1>2, <1>3, <1>4, <1>5, <1>6, <1>7, <1>8

\* The steps a thread takes without the turn around a blocking call:
\* interProStart(), interProEnd() and wakeup() leave the queues alone.
LEMMA interProIInv ==
  ASSUME IInv, NEW t \in Tid, interProStart(t) \/ interProEnd(t) \/ wakeup(t)
  PROVE  IInv'
  <1> USE DEF IInv
  <1> DEFINE l == pc'[t]
  <1>a. /\ \/ pc[t] = "run" /\ t # IdleThreadTid
             /\ \/ status[t] = "RUNNABLE" /\ l = "call" /\ status'[t] = "INTER_PRO_STOP"
                \/ status[t] # "RUNNABLE" /\ l = "block" /\ status'[t] = "RUNNING_INTER_PRO"
           \/ pc[t] = "call" /\ l = "ended" /\ status'[t] = "RUNNABLE"
           \/ pc[t] = "ended" /\ l = "run" /\ status'[t] = status[t]
        /\ inter_pro_wakeup_tids' =
             IF pc[t] = "ended" THEN inter_pro_wakeup_tids \cup {t} ELSE inter_pro_wakeup_tids
        /\ \A u \in Tid : u # t => pc'[u] = pc[u] /\ status'[u] = status[u]
        /\ pc' \in [Tid -> PC] /\ status' \in [Tid -> Status]
        /\ UNCHANGED <<queues, wakenUp, nthread, zombies, idle_mutex, idle_done,
                       at, strategy, ret, scan>>
    <2>1. /\ pc \in [Tid -> PC] /\ status \in [Tid -> Status]
          /\ {"call", "block", "ended", "run"} \subseteq PC
          /\ {"INTER_PRO_STOP", "RUNNING_INTER_PRO", "RUNNABLE"} \subseteq Status
          /\ pc[t] = "run" /\ at[t] = "app" => t # IdleThreadTid
      BY DEF TypeOK, PC, Status, ThreadInv
    <2>2. PICK k \in {"call", "block", "ended", "run"} : Goto(t, k)
      BY Zenon DEF interProStart, interProEnd, wakeup
    <2>3. pc' \in [Tid -> PC] /\ l = k /\ \A u \in Tid : u # t => pc'[u] = pc[u]
      BY <2>1, <2>2, GotoPC
    <2>4. /\ UNCHANGED <<queues, wakenUp, nthread, zombies, idle_mutex, idle_done,
                         at, strategy, ret, scan>>
          /\ \/ status' = status
             \/ \E s \in {"INTER_PRO_STOP", "RUNNING_INTER_PRO", "RUNNABLE"} :
                  status' = [status EXCEPT ![t] = s]
      BY Zenon DEF interProStart, interProEnd, wakeup, idle
    <2>5. status' \in [Tid -> Status] /\ \A u \in Tid : u # t => status'[u] = status[u]
      BY <2>1, <2>4
    <2>6. CASE interProStart(t)
      <3>1. l \in {"call", "block"} /\ l = (IF status[t] = "RUNNABLE" THEN "call" ELSE "block")
        BY <2>1, <2>6 DEF interProStart, Goto
      <3> QED BY <2>1, <2>3, <2>4, <2>5, <2>6, <3>1 DEF interProStart
    <2>7. CASE interProEnd(t)
      BY <2>1, <2>3, <2>4, <2>5, <2>7 DEF interProEnd, Goto
    <2>8. CASE wakeup(t)
      BY <2>1, <2>3, <2>4, <2>5, <2>8 DEF wakeup, Goto
    <2> QED BY <2>6, <2>7, <2>8
  <1>b. t \notin Range(waitq) /\ t # IdleThreadTid /\ pc[t] \notin TurnPC /\ l \notin TurnPC
    BY <1>a DEF PlaceInv, ThreadInv, InNext, TurnPC
  <1> HIDE DEF l
  <1> USE DEF queues
  <1>1. TypeOK'
    BY <1>a DEF TypeOK
  <1>2. (OneTurn /\ HeadHoldsTurn)'
    <2>1. \A u \in Tid : (pc'[u] \in TurnPC) <=> (pc[u] \in TurnPC)
      BY <1>a, <1>b DEF l
    <2>2. \A u \in Tid : pc'[u] \in TurnPC => pc'[u] = pc[u]
      BY <1>a, <1>b DEF l
    <2> QED BY <1>a, <2>1, <2>2 DEF OneTurn, HeadHoldsTurn, HasTurn
  <1>3. (QueueInv /\ ChanInv /\ JoinInv)'
    BY <1>a, <1>b DEF QueueInv, ChanInv, JoinInv, NoMissedJoin
  <1>4. PlaceInv'
    BY <1>a, <1>b DEF PlaceInv, InNext, StatusInv, l
  <1>5. DeadInv'
    BY <1>a, <1>b DEF DeadInv, HasTurn, l
  <1>6. ThreadInv'
    BY <1>a, <1>b, TidFacts DEF ThreadInv, InNext, l
  <1>7. StatusInv'
    <2> SUFFICES ASSUME NEW u \in Tid PROVE StatusAsserts!(u)' /\ StatusInv!2!(u)'
      BY DEF StatusInv, StatusAsserts
    <2>1. CASE u # t
      BY <1>a, <2>1 DEF StatusInv, StatusAsserts, InNext
    <2>2. CASE u = t
      <3>1. ~wakenUp[t] \/ status[t] \in {"RUNNING_REG", "RUNNING_INTER_PRO"}
        BY DEF StatusInv
      <3> QED BY <1>a, <1>b, <2>2, <3>1 DEF StatusInv, StatusAsserts, InNext, l
    <2> QED BY <2>1, <2>2
  <1>8. NoLostThread'
    BY <1>a, <1>b DEF NoLostThread, l
  <1> QED BY <1>1, <1>2, <1>3, <1>4, <1>5, <1>6, <1>7, <1>8
=============================================================================
