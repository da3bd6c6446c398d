------------------------ MODULE RRSchedulerTheorems ------------------------
(***************************************************************************)
(* What the inductive invariant of RRSchedulerProofs gives: the safety     *)
(* properties of the scheduler, for every number of threads, and that it   *)
(* implements the one-turn serializer of TurnToken.                        *)
(***************************************************************************)
EXTENDS RRSchedulerProofs

\* Type correctness of the scheduler's state, for any number of threads.
THEOREM TypeCorrect == Spec => []TypeOK
  <1>1. IInv => TypeOK
    BY DEF IInv
  <1> QED BY <1>1, Invariance, PTL

\* At most one thread holds the turn or has been posted it: next() posts one
\* thread, and getTurn() is the only way to take the turn.
THEOREM TurnExclusion == Spec => []OneTurn
  <1>1. IInv => OneTurn
    BY DEF IInv
  <1> QED BY <1>1, Invariance, PTL

\* The asserts on runq.front() hold: whoever has the turn is the head of runq
\* until it passes the turn on, so the pops of putTurn() and wait() are its own.
THEOREM HeadOfQueue == Spec => []HeadHoldsTurn
  <1>1. IInv => HeadHoldsTurn
    BY DEF IInv
  <1> QED BY <1>1, Invariance, PTL

\* selfcheck(), which the release build never calls, would always succeed.
THEOREM SelfCheckHolds == Spec => []SelfCheck
  <1>1. IInv => SelfCheck
    <2> SUFFICES ASSUME IInv PROVE SelfCheck
      OBVIOUS
    <2>1. Range(runq) \subseteq Tid /\ Range(waitq) \subseteq Tid
      BY RangeIndex DEF IInv, TypeOK
    <2> QED BY <2>1 DEF IInv, SelfCheck, QueueInv, ChanInv
  <1> QED BY <1>1, Invariance, PTL

\* The asserts on the status of a run-queue element hold although the element is
\* also written by its thread without the turn, around blocking calls.
THEOREM StatusAssertsHold == Spec => []StatusAsserts
  <1>1. IInv => StatusAsserts
    BY DEF IInv, StatusInv
  <1> QED BY <1>1, Invariance, PTL

\* The lazy removal of blocked threads from runq loses no thread.
THEOREM NoThreadLost == Spec => []NoLostThread
  <1>1. IInv => NoLostThread
    BY DEF IInv
  <1> QED BY <1>1, Invariance, PTL

\* nextRunnable() posts the turn only to threads that exist.
THEOREM PostedThreadsLive == Spec => []TurnToTheLiving
  <1>1. IInv => TurnToTheLiving
    BY DEF IInv, PlaceInv, TurnToTheLiving
  <1> QED BY <1>1, Invariance, PTL

\* No joiner waits for a thread that has already signalled its end.
THEOREM JoinersAreWoken == Spec => []NoMissedJoin
  <1>1. IInv => NoMissedJoin
    BY DEF IInv, JoinInv
  <1> QED BY <1>1, Invariance, PTL

-----------------------------------------------------------------------------
\* Steps that leave the turn where it is: all but getTurn() and the ends of
\* next().
TurnStays ==
  /\ wakenUp' = wakenUp
  /\ \A u \in Tid : pc'[u] \in TurnPC <=> pc[u] \in TurnPC

\* An operation's steps with the turn, up to the loop of nextRunnable().
LEMMA OperationKeepsTurn ==
  ASSUME IInv, NEW t \in Tid,
         \/ incTurnCount(t) \/ checkWakeup(t) \/ block(t) \/ pthreadCreate(t)
         \/ \E c, all : syncSignal(t, c, all)
         \/ \E c, n : syncWait(t, c, n)
         \/ schedTimerEnd(t) \/ \E u, l : pthreadJoin(t, u, l)
         \/ threadEnd(t) \/ \E l : lockIdleMutex(t, l)
         \/ unlockIdleMutex(t) \/ condSignalIdle(t)
         \/ \E l1, l2 : endOp(t, l1, l2)
         \/ t = IdleThreadTid /\ (idleCondWait \/ tryPutTurn \/ idleThreadCondWait)
  PROVE  TurnStays
  <1> DEFINE Moves(P, l) == wakenUp' = wakenUp /\ pc[t] \in P /\ pc' = [pc EXCEPT ![t] = l]
  <1>1. ASSUME NEW P \in SUBSET TurnPC, NEW l \in TurnPC, Moves(P, l)
        PROVE  TurnStays
    BY <1>1 DEF IInv, TypeOK, TurnStays
  <1>2. TurnPC = {"turn", "acted", "ticked", "check", "next", "poke", "try", "tried",
                  "bturn", "bticked"}
    BY DEF TurnPC
  <1>3. CASE incTurnCount(t)
    <2>1. \/ Moves({"turn", "acted"}, "ticked") \/ Moves({"bturn"}, "bticked")
      BY <1>3 DEF incTurnCount, Goto
    <2> QED BY <1>1, <1>2, <2>1
  <1>4. CASE checkWakeup(t)
    <2>1. Moves({"check"}, "next")
      BY <1>4 DEF checkWakeup, Goto
    <2> QED BY Zenon, <1>1, <1>2, <2>1
  <1>5. CASE pthreadCreate(t)
    <2>1. nthread \in Tid /\ pc[nthread] = "none" /\ nthread # t
      BY <1>5, NThreadAssumption DEF pthreadCreate, IInv, TypeOK, Tid, ThreadInv
    <2> QED BY <1>5, <2>1 DEF pthreadCreate, TurnStays, IInv, TypeOK, TurnPC
  <1>6. CASE (\E c, all : syncSignal(t, c, all)) \/ unlockIdleMutex(t) \/ condSignalIdle(t)
    <2>1. Moves({"turn"}, "acted")
      BY Zenon, <1>6 DEF syncSignal, unlockIdleMutex, condSignalIdle, Goto
    <2> QED BY Zenon, <1>1, <1>2, <2>1
  <1>7. CASE \/ block(t) \/ schedTimerEnd(t) \/ threadEnd(t)
             \/ \E c, n : syncWait(t, c, n)
             \/ \E u, l : pthreadJoin(t, u, l)
             \/ \E l : lockIdleMutex(t, l)
             \/ \E l1, l2 : endOp(t, l1, l2)
    <2>1. Moves({"bticked", "ticked"}, "check")
      BY Zenon, <1>7 DEF block, schedTimerEnd, threadEnd, syncWait, pthreadJoin, lockIdleMutex,
         endOp, wait, LeaveRunq, putTurn, Goto
    <2> QED BY Zenon, <1>1, <1>2, <2>1
  <1>8. CASE t = IdleThreadTid /\ (idleCondWait \/ tryPutTurn \/ idleThreadCondWait)
    <2>1. \/ Moves({"ticked", "try", "tried"}, "check") \/ Moves({"ticked"}, "try")
          \/ Moves({"try"}, "tried") \/ (wakenUp' = wakenUp /\ pc' = pc)
      BY <1>8 DEF idleCondWait, tryPutTurn, idleThreadCondWait, wait, LeaveRunq, putTurn, Goto
    <2> QED BY <1>1, <1>2, <2>1 DEF TurnStays
  <1> QED BY <1>3, <1>4, <1>5, <1>6, <1>7, <1>8

\* The steps without the turn, and the signal to the idle thread in
\* wakeUpIdleThread().
LEMMA OtherStepsKeepTurn ==
  ASSUME IInv, \/ \E t \in Tid : \/ interProStart(t) \/ interProEnd(t) \/ wakeup(t)
                                 \/ signalIdleCond(t)
               \/ condWait \/ progEnd
  PROVE  TurnStays
  <1> USE DEF IInv, TypeOK, TurnPC, TurnStays, Goto
  <1>1. ASSUME NEW t \in Tid, interProStart(t) \/ interProEnd(t) \/ wakeup(t)
        PROVE  TurnStays
    BY <1>1 DEF interProStart, interProEnd, wakeup
  <1>2. ASSUME NEW t \in Tid, signalIdleCond(t)
        PROVE  TurnStays
    BY <1>2, TidFacts DEF signalIdleCond, SignalIdleCond
  <1>3. CASE condWait \/ progEnd
    BY <1>3, TidFacts DEF condWait, progEnd, progEndStart, idleDone, rawLock, rawSignal, SignalIdleCond
  <1> QED BY <1>1, <1>2, <1>3

\* A step of next() passes the turn to one thread, ends with the turn dropped by
\* a thread that is gone, or keeps the turn.
LEMMA NextRunnableTurn ==
  ASSUME IInv, NEW t \in Tid, nextRunnable(t) \/ noNextThread(t) \/ wakeUpIdleThread(t)
  PROVE  \/ TurnStays
         \/ /\ \A u \in Tid : ~wakenUp[u] /\ (pc[u] \in TurnPC <=> u = t)
            /\ \A u \in Tid : pc'[u] \notin TurnPC
            /\ \/ \A u \in Tid : ~wakenUp'[u]
               \/ \E h \in Tid : \A u \in Tid : wakenUp'[u] <=> u = h
  <1> USE DEF Goto
  <1>a. pc[t] = "next" /\ InNext(t) /\ pc \in [Tid -> PC]
    BY DEF nextRunnable, noNextThread, wakeUpIdleThread, InNext, IInv, TypeOK
  <1>b. \A u \in Tid : ~wakenUp[u] /\ (pc[u] \in TurnPC <=> u = t)
    BY <1>a, Passing DEF TurnPC
  <1>c. ret \notin TurnPC /\ wakenUp \in [Tid -> BOOLEAN]
    BY DEF IInv, TypeOK, TurnPC
  <1>1. CASE UNCHANGED <<wakenUp, pc>>
    BY <1>1 DEF TurnStays
  <1>2. CASE pc' = [pc EXCEPT ![t] = "done"] /\ UNCHANGED wakenUp
    BY <1>a, <1>b, <1>2 DEF TurnPC
  <1>3. CASE pc' = [pc EXCEPT ![t] = "poke"] /\ UNCHANGED wakenUp
    BY <1>a, <1>3 DEF TurnStays, TurnPC
  <1>4. CASE /\ runq # <<>> /\ pc' = [pc EXCEPT ![t] = ret]
             /\ wakenUp' = [wakenUp EXCEPT ![Head(runq)] = TRUE]
    <2>1. Head(runq) \in Tid
      BY <1>4, TailQueue DEF IInv, TypeOK, QueueInv
    <2>2. PICK h \in Tid : h = Head(runq)
      BY <2>1
    <2>3. wakenUp' = [wakenUp EXCEPT ![h] = TRUE]
      BY <1>4, <2>2
    <2>4. \A u \in Tid : wakenUp'[u] <=> u = h
      BY <1>b, <1>c, <2>3, Zenon
    <2>5. \A u \in Tid : pc'[u] \notin TurnPC
      BY <1>a, <1>b, <1>c, <1>4
    <2> QED BY <1>b, <2>4, <2>5
  <1>5. \/ UNCHANGED <<wakenUp, pc>>
        \/ pc' = [pc EXCEPT ![t] = "done"] /\ UNCHANGED wakenUp
        \/ pc' = [pc EXCEPT ![t] = "poke"] /\ UNCHANGED wakenUp
        \/ /\ runq # <<>> /\ pc' = [pc EXCEPT ![t] = ret]
           /\ wakenUp' = [wakenUp EXCEPT ![Head(runq)] = TRUE]
    BY DEF nextRunnable, noNextThread, wakeUpIdleThread
  <1> QED BY <1>1, <1>2, <1>3, <1>4, <1>5

\* Every step of the scheduler is a step of the abstract turn, or leaves it.
LEMMA StepToken == IInv /\ [Next]_vars => [Token!Next]_(Token!vars)
  <1> SUFFICES ASSUME IInv, [Next]_vars PROVE [Token!Next]_(Token!vars)
    OBVIOUS
  <1> DEFINE posted == {t \in Tid : wakenUp[t]}
             holding == {t \in Tid : pc[t] \in TurnPC}
  <1>1. CASE TurnStays
    <2>1. posted' = posted /\ holding' = holding
      BY <1>1 DEF TurnStays
    <2> QED BY <2>1 DEF Token!vars
  <1>2. ASSUME NEW t \in Tid, getTurn(t)
        PROVE  Token!Next
    <2>1. posted = {t} /\ holding = {}
      BY <1>2 DEF IInv, OneTurn, HasTurn, getTurn
    <2>2. pc' = [pc EXCEPT ![t] = "turn"] \/ pc' = [pc EXCEPT ![t] = "bturn"]
      BY <1>2 DEF getTurn, Goto
    <2>3. holding' = {t}
      BY <2>1, <2>2 DEF IInv, TypeOK, TurnPC
    <2>4. \A u \in Tid : wakenUp'[u] => u # t /\ wakenUp[u]
      BY <1>2, Zenon DEF getTurn, IInv, TypeOK
    <2>5. posted' = {}
      BY <2>1, <2>4
    <2> QED BY <2>1, <2>3, <2>5 DEF Token!Next, Token!getTurn
  <1>3. ASSUME NEW t \in Tid,
               /\ \A u \in Tid : ~wakenUp[u] /\ (pc[u] \in TurnPC <=> u = t)
               /\ \A u \in Tid : pc'[u] \notin TurnPC
               /\ \/ \A u \in Tid : ~wakenUp'[u]
                  \/ \E h \in Tid : \A u \in Tid : wakenUp'[u] <=> u = h
        PROVE  Token!Next
    <2>1. holding = {t} /\ posted = {} /\ holding' = {}
      BY <1>3
    <2>2. posted' = {} \/ \E h \in Tid : posted' = {h}
      BY <1>3
    <2> QED BY <2>1, <2>2 DEF Token!Next, Token!putTurn, Token!dropTurn
  <1>4. CASE UNCHANGED vars
    <2> TurnStays
      BY <1>4 DEF vars, TurnStays
    <2> QED BY <1>1
  <1>5. ASSUME NEW t \in Tid, Step(t)
        PROVE  [Token!Next]_(Token!vars)
    BY <1>1, <1>2, <1>3, <1>5, OperationKeepsTurn, OtherStepsKeepTurn, NextRunnableTurn
       DEF Step
  <1>6. ASSUME NEW t \in Tid, AppOp(t) \/ interProEnd(t)
        PROVE  TurnStays
    BY <1>6, OperationKeepsTurn, OtherStepsKeepTurn DEF AppOp, threadBegin
  <1>7. ASSUME IdleOp \/ condWait \/ ProgEndOp \/ progEnd
        PROVE  TurnStays
    BY <1>7, TidFacts, OperationKeepsTurn, OtherStepsKeepTurn DEF IdleOp, ProgEndOp
  <1> QED BY <1>1, <1>4, <1>5, <1>6, <1>7 DEF Next, Terminated

\* The scheduler implements the one-turn serializer: whatever the threads, the
\* policies and the blocking calls do, the turn is one token handed over in
\* getTurn() and next(), never duplicated.
THEOREM Refinement == Spec => ImplementsToken
  <1>1. Init => Token!Init
    <2> SUFFICES ASSUME Init PROVE Token!Init
      OBVIOUS
    <2>1. \A t \in Tid : wakenUp[t] <=> t = IdleThreadTid
      BY Zenon DEF Init
    <2>2. {t \in Tid : wakenUp[t]} = {IdleThreadTid}
      BY Zenon, <2>1, TidFacts
    <2>3. {t \in Tid : pc[t] \in TurnPC} = {}
      BY DEF Init, TurnPC
    <2> QED BY <2>2, <2>3, TidFacts DEF Token!Init
  <1> QED BY <1>1, StepToken, Invariance, PTL DEF Spec, ImplementsToken, Token!Spec
=============================================================================
