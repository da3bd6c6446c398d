------------------------ MODULE RRSchedulerInvariant ------------------------
(***************************************************************************)
(* The inductive invariant of RRScheduler.  It holds initially, and the    *)
(* steps that take the turn, count it and choose the next thread keep it.  *)
(***************************************************************************)
EXTENDS RRScheduler, TurnQueueLemmas

\* The thread is inside next(): it still has the turn, but has given up its
\* place at the head of the run queue.
InNext(t) == pc[t] \in {"check", "next", "poke"}

\* The queues and the wakeup set, without what SelfCheck says of chan.
QueueInv ==
  /\ IsInjective(runq) /\ IsInjective(waitq)
  /\ Range(runq) \cap Range(waitq) = {}
  /\ inter_pro_wakeup_tids \cap Range(waitq) = {}

ChanInv ==
  \A t \in Tid :
    /\ t \in Range(waitq) => chan[t] # NULL \/ timeout[t] # FOREVER
    /\ t \notin Range(waitq) => chan[t] = NULL /\ timeout[t] = FOREVER

\* Where the code of a queued thread can be.
PlaceInv ==
  \A t \in Tid :
    /\ t \in Range(waitq) =>
         \/ pc[t] \in {"wait", "tocond", "sleep", "reacq", "done"}
         \/ InNext(t) /\ ret \in {"wait", "tocond"}
         \/ t = IdleThreadTid /\ pc[t] = "run"
    /\ t \in inter_pro_wakeup_tids =>
         pc[t] \in {"run", "turn", "acted", "block", "bturn", "call", "ended"}
    /\ t \in Range(runq) => pc[t] \notin {"none", "done"}
    /\ InNext(t) /\ ret = "run" => t \in Range(runq)
    /\ InNext(t) /\ ret = "done" => t \notin Range(runq)
    /\ InNext(t) /\ ret \in {"wait", "tocond"} => t \in Range(runq) \cup Range(waitq)
    /\ wakenUp[t] =>
         pc[t] \in {"run", "wait", "block", "ended", "tocond", "sleep", "reacq"}

\* A thread that exited inside wakeUpIdleThread() took the turn with it.
DeadInv ==
  (\E t \in Tid : t \in Range(waitq) /\ pc[t] = "done") => \A u \in Tid : ~HasTurn(u)

\* Which threads run which code.
ThreadInv ==
  /\ \A t \in Tid : pc[t] = "none" <=> t >= nthread
  /\ at[IdleThreadTid] # "app"
  /\ \A t \in Tid : t > IdleThreadTid => at[t] \in {"begin", "app"}
  /\ pc[IdleThreadTid] \notin {"block", "bturn", "bticked", "call", "ended"}
  /\ InNext(IdleThreadTid) => ret # "call"
  /\ \A t \in Tid : pc[t] \in {"try", "tried", "tocond", "sleep", "reacq"}
                      => t = IdleThreadTid
  /\ \A t \in Tid : InNext(t) /\ ret = "tocond" => t = IdleThreadTid

StatusInv ==
  /\ StatusAsserts
  /\ \A t \in Tid :
       /\ pc[t] = "none" => status[t] = "RUNNABLE"
       /\ pc[t] \in {"ended", "tocond", "sleep", "reacq"} =>
            status[t] \in {"RUNNABLE", "RUNNING_REG"}
       /\ InNext(t) => status[t] = IF ret = "call" THEN "INTER_PRO_STOP" ELSE "RUNNABLE"
       /\ wakenUp[t] => status[t] \in {"RUNNING_REG", "RUNNING_INTER_PRO"}

\* pthread_join has one caller per thread, and it does not wait for the dead.
JoinInv ==
  /\ NoMissedJoin
  /\ \A t, u \in Range(waitq) : chan[t] \in Tid /\ chan[t] = chan[u] => t = u
  /\ \A t \in Range(waitq) : chan[t] = IdleThreadTid => t = MainThreadTid
  /\ \A t \in Range(waitq) : chan[t] # MainThreadTid

\* The inductive invariant.
IInv ==
  /\ TypeOK /\ OneTurn /\ HeadHoldsTurn /\ QueueInv /\ ChanInv
  /\ PlaceInv /\ DeadInv /\ ThreadInv /\ StatusInv /\ NoLostThread /\ JoinInv

-----------------------------------------------------------------------------
\* The two threads the runtime starts with are among the threads.
LEMMA TidFacts ==
  /\ MainThreadTid \in Tid /\ IdleThreadTid \in Tid
  /\ Tid \subseteq Nat
  /\ InvalidTid \notin Tid
  BY NThreadAssumption DEF Tid, MainThreadTid, IdleThreadTid, InvalidTid

\* What a selection of the threads of a queue, kept in its order, contains.
LEMMA InOrderQueue ==
  ASSUME NEW S \in SUBSET Tid, NEW s, NEW q \in InOrder(S, s)
  PROVE  q \in Seq(Tid) /\ IsInjective(q) /\ Range(q) = S
  <1>1. q \in Listings(S)
    BY DEF InOrder
  <1> QED BY Zenon, <1>1, ListingQueue

\* Type invariant and inductive invariant hold initially.
LEMMA InitIInv == Init => IInv
  <1> SUFFICES ASSUME Init PROVE IInv
    OBVIOUS
  <1> USE DEF Init
  <1>0. \A t \in Tid : wakenUp[t] <=> t = IdleThreadTid
    BY Zenon
  <1>1. runq \in Seq(Tid) /\ waitq \in Seq(Tid) /\ Range(waitq) = {}
        /\ Range(runq) = {IdleThreadTid, MainThreadTid}
        /\ IsInjective(runq) /\ IsInjective(waitq)
    BY TidFacts DEF Range, IsInjective, MainThreadTid, IdleThreadTid
  <1>2. TypeOK
    <2>1. wakenUp \in [Tid -> BOOLEAN]
      BY Zenon
    <2>2. timeout \in [Tid -> 0..FOREVER] /\ nthread \in 2..NTHREAD
      BY NThreadAssumption, TimeoutAssumption DEF FOREVER
    <2>3. status \in [Tid -> Status] /\ pc \in [Tid -> PC] /\ at \in [Tid -> At]
      BY DEF Status, PC, At
    <2>4. scan \in Nat \ {0} /\ inter_pro_wakeup_tids \subseteq Tid /\ zombies \subseteq Tid
      OBVIOUS
    <2>5. chan \in [Tid -> Channel \cup {NULL}] /\ idle_done \in BOOLEAN
      BY Zenon
    <2> QED BY <1>1, <2>1, <2>2, <2>3, <2>4, <2>5 DEF TypeOK
  <1>3. OneTurn /\ HeadHoldsTurn
    <2>2. \A t \in Tid : pc[t] \notin TurnPC
      BY DEF TurnPC
    <2> QED BY <1>0, <2>2 DEF OneTurn, HeadHoldsTurn, HasTurn
  <1>4. QueueInv /\ ChanInv /\ PlaceInv /\ DeadInv
    <2>0. pc[IdleThreadTid] = "run"
      BY TidFacts DEF IdleThreadTid
    <2>1. \A t \in Tid : wakenUp[t] => pc[t] = "run"
      BY <1>0, <2>0
    <2>2. \A t \in Tid : pc[t] = "run" \/ (pc[t] = "none" /\ t >= 2)
      OBVIOUS
    <2>3. \A t \in Range(runq) : pc[t] = "run"
      BY <1>1, TidFacts DEF IdleThreadTid, MainThreadTid
    <2>4. QueueInv /\ ChanInv /\ DeadInv
      BY <1>1 DEF QueueInv, ChanInv, DeadInv
    <2>5. PlaceInv
      BY Zenon, <1>1, <2>1, <2>2, <2>3 DEF PlaceInv, InNext
    <2> QED BY <2>4, <2>5
  <1>5. ThreadInv /\ StatusInv /\ NoLostThread /\ JoinInv
    <2>1. ThreadInv
      <3>1. \A t \in Tid : pc[t] = "none" <=> t >= nthread
        BY TidFacts
      <3>2. /\ at[IdleThreadTid] # "app"
            /\ \A t \in Tid : t > IdleThreadTid => at[t] \in {"begin", "app"}
        BY TidFacts DEF IdleThreadTid, MainThreadTid
      <3>3. \A t \in Tid : pc[t] \in {"none", "run"}
        OBVIOUS
      <3> QED BY <3>1, <3>2, <3>3, TidFacts DEF ThreadInv, InNext
    <2>2. StatusInv
      BY <1>0, TidFacts DEF StatusInv, StatusAsserts, InNext, IdleThreadTid
    <2>3. NoLostThread
      BY <1>1 DEF NoLostThread, IdleThreadTid, MainThreadTid, Tid
    <2>4. JoinInv
      BY <1>1 DEF JoinInv, NoMissedJoin
    <2> QED BY <2>1, <2>2, <2>3, <2>4
  <1> QED BY <1>2, <1>3, <1>4, <1>5 DEF IInv

\* A thread's move to another place in its code changes no other thread's.
LEMMA GotoPC ==
  ASSUME pc \in [Tid -> PC], NEW t \in Tid, NEW l \in PC, Goto(t, l)
  PROVE  /\ pc' \in [Tid -> PC]
         /\ pc'[t] = l
         /\ \A u \in Tid : u # t => pc'[u] = pc[u]
  BY DEF Goto

\* What a thread that is posted the turn, or is in its operation, may rely on.
LEMMA AtHead ==
  ASSUME IInv, NEW t \in Tid,
         wakenUp[t] \/ pc[t] \in TurnPC \ {"check", "next", "poke"}
  PROVE  /\ runq # <<>> /\ Head(runq) = t
         /\ t \in Range(runq) /\ t \notin Range(waitq)
         /\ Tail(runq) \in Seq(Tid) /\ IsInjective(Tail(runq))
         /\ Range(Tail(runq)) = Range(runq) \ {t}
         /\ \A u \in Tid : u # t => ~wakenUp[u] /\ pc[u] \notin TurnPC
         /\ \A u \in Tid : u \in Range(waitq) => pc[u] # "done"
         /\ Range(runq) \subseteq Tid /\ Range(waitq) \subseteq Tid
  <1>1. runq \in Seq(Tid) /\ waitq \in Seq(Tid) /\ IsInjective(runq)
    BY DEF IInv, TypeOK, QueueInv
  <1>2. runq # <<>> /\ Head(runq) = t
    BY DEF IInv, HeadHoldsTurn
  <1>3. /\ t \in Range(runq)
        /\ Tail(runq) \in Seq(Tid) /\ IsInjective(Tail(runq))
        /\ Range(Tail(runq)) = Range(runq) \ {t}
    BY <1>1, <1>2, TailQueue
  <1>4. t \notin Range(waitq)
    BY <1>3 DEF IInv, QueueInv
  <1>5. HasTurn(t)
    BY DEF HasTurn
  <1>6. \A u \in Tid : u # t => ~HasTurn(u)
    BY <1>5 DEF IInv, OneTurn
  <1>7. \A u \in Tid : u \in Range(waitq) => pc[u] # "done"
    BY <1>5 DEF IInv, DeadInv
  <1>8. Range(runq) \subseteq Tid /\ Range(waitq) \subseteq Tid
    BY <1>1, RangeIndex
  <1> QED BY <1>2, <1>3, <1>4, <1>6, <1>7, <1>8 DEF HasTurn

\* getTurn() consumes the post and leaves the thread at the head with the turn.
LEMMA getTurnIInv ==
  ASSUME IInv, NEW t \in Tid, getTurn(t)
  PROVE  IInv'
  <1> USE DEF IInv, getTurn, Goto, queues, idle
  <1>0. /\ t \in Range(runq) /\ t \notin Range(waitq)
        /\ \A u \in Tid : u \in Range(waitq) => pc[u] # "done"
    BY AtHead
  <1>i. /\ pc' \in [Tid -> PC] /\ \A u \in Tid : u # t => pc'[u] = pc[u]
        /\ \/ pc[t] \in {"run", "wait"} /\ pc'[t] = "turn"
           \/ pc[t] = "block" /\ pc'[t] = "bturn"
    <2> HIDE DEF Goto
    <2>1. pc \in [Tid -> PC] /\ "turn" \in PC /\ "bturn" \in PC
      BY DEF TypeOK, PC
    <2> QED BY <2>1, GotoPC
  <1>w. wakenUp' \in [Tid -> BOOLEAN]
    BY Zenon DEF TypeOK
  <1>1. TypeOK'
    BY <1>i, <1>w DEF TypeOK
  <1>2. (OneTurn /\ HeadHoldsTurn)'
    BY DEF TypeOK, OneTurn, HeadHoldsTurn, HasTurn, TurnPC, PC
  <1>3. (QueueInv /\ ChanInv)'
    BY DEF QueueInv, ChanInv
  <1>4. PlaceInv'
    BY <1>0 DEF TypeOK, PlaceInv, InNext
  <1>5. DeadInv'
    BY <1>0 DEF TypeOK, DeadInv
  <1>6. ThreadInv'
    <2> HIDE DEF getTurn, Goto
    <2>1. UNCHANGED <<at, nthread, ret>>
      BY DEF getTurn
    <2> QED BY <1>i, <2>1, TidFacts DEF ThreadInv, InNext
  <1>7. StatusInv'
    BY DEF TypeOK, StatusInv, StatusAsserts, InNext, PlaceInv
  <1>8. NoLostThread'
    BY DEF TypeOK, NoLostThread
  <1>9. JoinInv'
    BY DEF JoinInv, NoMissedJoin
  <1> QED BY <1>1, <1>2, <1>3, <1>4, <1>5, <1>6, <1>7, <1>8, <1>9

\* check_wakeup() appends the threads of the wakeup set that are not queued.
LEMMA CheckWakeupQueue ==
  ASSUME IInv, NEW rq \in Seq(Tid), IsInjective(rq), check_wakeup(rq)
  PROVE  /\ runq' \in Seq(Tid) /\ IsInjective(runq')
         /\ Range(runq') = Range(rq) \cup inter_pro_wakeup_tids
         /\ rq # <<>> => runq' # <<>> /\ Head(runq') = Head(rq)
         /\ inter_pro_wakeup_tids' = {}
  <1>1. inter_pro_wakeup_tids \ Range(rq) \in SUBSET Tid
    BY DEF IInv, TypeOK
  <1>2. PICK p \in Listings(inter_pro_wakeup_tids \ Range(rq)) : runq' = rq \o p
    BY DEF check_wakeup
  <1>3. p \in Seq(Tid) /\ IsInjective(p) /\ Range(p) = inter_pro_wakeup_tids \ Range(rq)
    BY Zenon, <1>1, ListingQueue
  <1> QED BY <1>2, <1>3, ConcatQueue DEF check_wakeup

\* What is left of the wait queue when the threads of S leave it.
LEMMA WaitqWithout ==
  ASSUME IInv, NEW S, waitq' \in InOrder(Range(waitq) \ S, waitq)
  PROVE  waitq' \in Seq(Tid) /\ IsInjective(waitq') /\ Range(waitq') = Range(waitq) \ S
  <1>1. Range(waitq) \ S \in SUBSET Tid
    BY RangeIndex DEF IInv, TypeOK
  <1> QED BY <1>1, InOrderQueue

\* incTurnCount(): fireTimeouts() and check_wakeup() only append to the run queue.
LEMMA incTurnCountIInv ==
  ASSUME IInv, NEW t \in Tid, incTurnCount(t)
  PROVE  IInv'
  <1> USE DEF IInv, incTurnCount, Goto, idle
  <1>a. pc[t] \in {"turn", "acted", "bturn"}
    OBVIOUS
  <1>b. /\ runq # <<>> /\ Head(runq) = t
        /\ t \in Range(runq) /\ t \notin Range(waitq)
        /\ \A u \in Tid : u # t => ~wakenUp[u] /\ pc[u] \notin TurnPC
        /\ \A u \in Tid : u \in Range(waitq) => pc[u] # "done"
        /\ Range(runq) \subseteq Tid /\ Range(waitq) \subseteq Tid
    BY <1>a, AtHead DEF TurnPC
  <1>c. Expired \subseteq Range(waitq) /\ Expired \in SUBSET Tid
    BY <1>b DEF Expired
  <1>d. PICK q \in InOrder(Expired, waitq) : check_wakeup(runq \o q)
    OBVIOUS
  <1>e. q \in Seq(Tid) /\ IsInjective(q) /\ Range(q) = Expired
    BY <1>c, InOrderQueue
  <1>f. /\ runq \o q \in Seq(Tid) /\ IsInjective(runq \o q)
        /\ Range(runq \o q) = Range(runq) \cup Expired
        /\ runq \o q # <<>> /\ Head(runq \o q) = t
    <2>1. runq \in Seq(Tid) /\ IsInjective(runq) /\ Range(runq) \cap Range(q) = {}
      BY <1>c, <1>e DEF TypeOK, QueueInv
    <2> QED BY <1>b, <1>e, <2>1, ConcatQueue
  <1>g. /\ runq' \in Seq(Tid) /\ IsInjective(runq') /\ runq' # <<>> /\ Head(runq') = t
        /\ Range(runq') = (Range(runq) \cup Expired) \cup inter_pro_wakeup_tids
        /\ inter_pro_wakeup_tids' = {}
    BY Zenon, <1>d, <1>f, CheckWakeupQueue
  <1>h. /\ waitq' \in Seq(Tid) /\ IsInjective(waitq')
        /\ Range(waitq') = Range(waitq) \ Expired
    BY WaitqWithout
  <1>i. \A u \in Tid :
          /\ pc'[u] = IF u # t THEN pc[u] ELSE IF pc[t] = "bturn" THEN "bticked" ELSE "ticked"
          /\ chan'[u] = IF u \in Expired THEN NULL ELSE chan[u]
    BY DEF TypeOK
  <1>1. TypeOK'
    <2>0. \A u \in Tid : timeout[u] # FOREVER => u \in Expired \/ timeout[u] # 0
      BY DEF ChanInv, Expired
    <2>1. timeout' \in [Tid -> 0..FOREVER]
      BY <2>0, TimeoutAssumption DEF TypeOK, FOREVER
    <2>2. chan' \in [Tid -> Channel \cup {NULL}] /\ pc' \in [Tid -> PC]
      BY Zenon DEF TypeOK, PC
    <2> QED BY <1>g, <1>h, <2>1, <2>2 DEF TypeOK
  <1>2. (OneTurn /\ HeadHoldsTurn)'
    <2>1. ~wakenUp[t] /\ UNCHANGED wakenUp
      BY <1>a DEF OneTurn, TurnPC
    <2> HIDE DEF incTurnCount, Goto
    <2> QED BY <1>b, <1>g, <1>i, <2>1 DEF OneTurn, HeadHoldsTurn, HasTurn, TurnPC
  <1>3. QueueInv'
    BY <1>b, <1>c, <1>g, <1>h DEF QueueInv
  <1>4. ChanInv'
    BY <1>c, <1>h, TimeoutAssumption DEF TypeOK, ChanInv, Expired, FOREVER
  <1>5. PlaceInv'
    <2> SUFFICES ASSUME NEW u \in Tid PROVE PlaceInv!(u)'
      BY DEF PlaceInv
    <2>1. ~InNext(u) /\ ~InNext(u)'
      BY <1>a, <1>b, <1>i DEF InNext, TurnPC
    <2>2. u \in Range(waitq') => u \in Range(waitq) /\ u # t
      BY <1>b, <1>h
    <2>3. u \in Range(runq') => pc'[u] \notin {"none", "done"}
      BY <1>b, <1>c, <1>g, <1>i, <2>1 DEF PlaceInv
    <2>4. ~wakenUp[u]
      BY <1>a, <1>b DEF OneTurn, TurnPC
    <2> QED BY <1>g, <1>i, <2>1, <2>2, <2>3, <2>4 DEF PlaceInv
  <1>6. DeadInv'
    BY <1>b, <1>h DEF TypeOK, DeadInv
  <1>7. ThreadInv'
    <2>1. \A u \in Tid : ~InNext(u)'
      BY <1>a, <1>b, <1>i DEF InNext, TurnPC
    <2>2. UNCHANGED <<at, nthread>>
      BY <1>d DEF check_wakeup
    <2>3. pc[t] = "bturn" => t # IdleThreadTid
      BY DEF ThreadInv
    <2> HIDE DEF incTurnCount, Goto
    <2> QED BY <1>a, <1>i, <2>1, <2>2, <2>3, TidFacts DEF ThreadInv
  <1>8. StatusInv'
    BY <1>b DEF TypeOK, StatusInv, StatusAsserts, InNext
  <1>9. NoLostThread'
    BY <1>c, <1>g, <1>h DEF TypeOK, NoLostThread
  <1>10. JoinInv'
    <2>1. \A u \in Range(waitq') : u \in Range(waitq) /\ chan'[u] = chan[u]
      BY <1>b, <1>h, <1>i
    <2> QED BY <2>1 DEF JoinInv, NoMissedJoin
  <1> QED BY <1>1, <1>2, <1>3, <1>4, <1>5, <1>6, <1>7, <1>8, <1>9, <1>10

\* The check_wakeup() of next() requeues threads that left for a blocking call.
LEMMA checkWakeupIInv ==
  ASSUME IInv, NEW t \in Tid, checkWakeup(t)
  PROVE  IInv'
  <1> USE DEF IInv, checkWakeup, Goto, idle
  <1>b. /\ \A u \in Tid : ~wakenUp[u] /\ (u # t => pc[u] \notin TurnPC)
        /\ Range(runq) \subseteq Tid /\ Range(waitq) \subseteq Tid
    <2>1. HasTurn(t)
      BY DEF HasTurn, TurnPC
    <2>2. \A u \in Tid : u # t => ~HasTurn(u)
      BY <2>1 DEF OneTurn
    <2>3. ~wakenUp[t]
      BY DEF OneTurn, TurnPC
    <2> QED BY <2>2, <2>3, RangeIndex DEF HasTurn, TypeOK
  <1>g. /\ runq' \in Seq(Tid) /\ IsInjective(runq')
        /\ Range(runq') = Range(runq) \cup inter_pro_wakeup_tids
        /\ inter_pro_wakeup_tids' = {}
    BY CheckWakeupQueue DEF TypeOK, QueueInv
  <1>i. /\ pc' \in [Tid -> PC] /\ \A u \in Tid : u # t => pc'[u] = pc[u]
        /\ pc[t] = "check" /\ pc'[t] = "next"
    <2> HIDE DEF Goto
    <2>1. pc \in [Tid -> PC] /\ "next" \in PC
      BY DEF TypeOK, PC
    <2> QED BY <2>1, GotoPC
  <1>1. TypeOK'
    BY <1>g, <1>i DEF TypeOK
  <1>2. (OneTurn /\ HeadHoldsTurn)'
    BY <1>b DEF TypeOK, OneTurn, HeadHoldsTurn, HasTurn, TurnPC
  <1>3. (QueueInv /\ ChanInv)'
    BY <1>g DEF QueueInv, ChanInv
  <1>5. PlaceInv'
    <2> HIDE DEF Goto
    <2>1. UNCHANGED <<waitq, ret, wakenUp>>
      OBVIOUS
    <2> HIDE DEF checkWakeup
    <2> SUFFICES ASSUME NEW u \in Tid PROVE PlaceInv!(u)'
      BY DEF PlaceInv
    <2>2. InNext(u)' <=> InNext(u)
      BY <1>i DEF InNext
    <2>3. u \in inter_pro_wakeup_tids => pc'[u] \notin {"none", "done"}
      BY <1>i DEF PlaceInv
    <2>4. u \in Range(runq) => pc'[u] \notin {"none", "done"}
      BY <1>i DEF PlaceInv
    <2>5. InNext(u) /\ ret = "done" => u \notin inter_pro_wakeup_tids
      BY DEF PlaceInv, InNext
    <2> QED BY <1>b, <1>g, <1>i, <2>1, <2>2, <2>3, <2>4, <2>5 DEF PlaceInv
  <1>6. DeadInv'
    BY <1>b DEF TypeOK, DeadInv, HasTurn, TurnPC
  <1>7. ThreadInv'
    <2> HIDE DEF Goto
    <2>1. UNCHANGED <<at, nthread, ret>>
      OBVIOUS
    <2> HIDE DEF checkWakeup
    <2> QED BY <1>i, <2>1, TidFacts DEF ThreadInv, InNext
  <1>8. StatusInv'
    BY DEF TypeOK, StatusInv, StatusAsserts, InNext
  <1>9. NoLostThread'
    BY <1>g DEF TypeOK, NoLostThread
  <1>10. JoinInv'
    BY DEF JoinInv, NoMissedJoin
  <1> QED BY <1>1, <1>2, <1>3, <1>5, <1>6, <1>7, <1>8, <1>9, <1>10

\* The thread inside next() is the only one with the turn.
LEMMA Passing ==
  ASSUME IInv, NEW t \in Tid, InNext(t)
  PROVE  /\ \A u \in Tid : ~wakenUp[u] /\ (u # t => pc[u] \notin TurnPC)
         /\ Range(runq) \subseteq Tid /\ Range(waitq) \subseteq Tid
         /\ \A u \in Tid : u \in Range(waitq) => pc[u] # "done"
  <1>1. HasTurn(t) /\ pc[t] \in TurnPC
    BY DEF HasTurn, TurnPC, InNext
  <1>2. \A u \in Tid : u # t => ~HasTurn(u)
    BY <1>1 DEF IInv, OneTurn
  <1>3. ~wakenUp[t]
    BY <1>1 DEF IInv, OneTurn
  <1> QED BY <1>1, <1>2, <1>3, RangeIndex DEF HasTurn, IInv, TypeOK, DeadInv

\* Each iteration of nextRunnable()'s loop drops, skips or posts the head.
LEMMA nextRunnableIInv ==
  ASSUME IInv, NEW t \in Tid, nextRunnable(t)
  PROVE  IInv'
  <1> DEFINE h == Head(runq)
  <1> USE DEF IInv, Goto, idle
  <1>a. /\ pc[t] = "next" /\ InNext(t) /\ runq # <<>>
        /\ UNCHANGED <<waitq, chan, timeout, inter_pro_wakeup_tids, nthread, zombies,
                       idle, at, strategy, ret, scan>>
    BY DEF nextRunnable, InNext
  <1>b. /\ \A u \in Tid : ~wakenUp[u] /\ (u # t => pc[u] \notin TurnPC)
        /\ Range(runq) \subseteq Tid /\ Range(waitq) \subseteq Tid
        /\ \A u \in Tid : u \in Range(waitq) => pc[u] # "done"
    BY <1>a, Passing
  <1>c. /\ Tail(runq) \in Seq(Tid) /\ IsInjective(Tail(runq))
        /\ Range(Tail(runq)) = Range(runq) \ {h}
        /\ h \in Range(runq) /\ h \in Tid
    BY <1>a, TailQueue DEF TypeOK, QueueInv
  <1>1. CASE /\ status[h] = "INTER_PRO_STOP"
             /\ runq' = Tail(runq)
             /\ UNCHANGED <<status, wakenUp, pc>>
    <2> USE <1>1
    <2>0. pc[h] = "call" \/ (h = t /\ ret = "call")
      BY Zenon, <1>a, <1>b, <1>c DEF PlaceInv, StatusInv, StatusAsserts, InNext, TypeOK, PC, TurnPC
    <2>1. TypeOK'
      BY <1>a, <1>c DEF TypeOK
    <2>2. (OneTurn /\ HeadHoldsTurn)'
      BY <1>a, <1>b DEF OneTurn, HeadHoldsTurn, HasTurn, TurnPC
    <2>3. (QueueInv /\ ChanInv /\ DeadInv /\ ThreadInv /\ StatusInv /\ JoinInv)'
      BY <1>a, <1>c DEF QueueInv, ChanInv, DeadInv, HasTurn, ThreadInv, StatusInv,
         StatusAsserts, JoinInv, NoMissedJoin, InNext
    <2>4. PlaceInv'
      BY <1>a, <1>b, <1>c, <2>0 DEF PlaceInv, InNext
    <2>5. NoLostThread'
      BY <1>a, <1>c, <2>0 DEF NoLostThread
    <2> QED BY <2>1, <2>2, <2>3, <2>4, <2>5
  <1>2. CASE /\ status[h] # "INTER_PRO_STOP"
             /\ status' = [status EXCEPT ![h] = IF @ = "RUNNABLE" THEN "RUNNING_REG" ELSE @]
             /\ wakenUp' = [wakenUp EXCEPT ![h] = TRUE]
             /\ pc' = [pc EXCEPT ![t] = ret]
             /\ UNCHANGED runq
    <2> USE <1>2
    <2>0. /\ pc[h] \notin {"none", "done", "call"}
          /\ h = t => ret \in {"run", "wait", "tocond"}
      BY <1>a, <1>c DEF StatusInv, StatusAsserts, PlaceInv, InNext, TypeOK
    <2>1. TypeOK'
      BY <1>a, <1>c DEF TypeOK, PC, Status
    <2>2. (OneTurn /\ HeadHoldsTurn)'
      BY <1>a, <1>b, <1>c DEF TypeOK, OneTurn, HeadHoldsTurn, HasTurn, TurnPC
    <2>3. (QueueInv /\ ChanInv /\ JoinInv)'
      BY <1>a DEF QueueInv, ChanInv, JoinInv, NoMissedJoin
    <2>4. PlaceInv'
      <3> SUFFICES ASSUME NEW u \in Tid PROVE PlaceInv!(u)'
        BY DEF PlaceInv
      <3>1. pc'[u] = (IF u = t THEN ret ELSE pc[u]) /\ ret \notin {"check", "next", "poke"}
        BY DEF TypeOK
      <3>2. ~InNext(u)'
        BY <1>b, <3>1 DEF InNext, TurnPC
      <3>3. wakenUp'[u] => u = h
        BY <1>b DEF TypeOK
      <3>4. h # t => pc[h] \in {"run", "wait", "block", "ended", "tocond", "sleep", "reacq"}
        BY <1>b, <1>c, <2>0 DEF TurnPC, TypeOK, PC
      <3>5. u \in Range(waitq') =>
              \/ pc'[u] \in {"wait", "tocond", "sleep", "reacq", "done"}
              \/ u = IdleThreadTid /\ pc'[u] = "run"
        BY <1>a, <1>b, <3>1 DEF PlaceInv, InNext, TurnPC
      <3>6. u \in inter_pro_wakeup_tids' => u # t
        BY <1>a DEF PlaceInv
      <3>7. u \in Range(runq') => pc'[u] \notin {"none", "done"}
        BY <1>a, <1>b, <3>1 DEF PlaceInv, InNext, TypeOK
      <3>8. wakenUp'[u] =>
              pc'[u] \in {"run", "wait", "block", "ended", "tocond", "sleep", "reacq"}
        BY <2>0, <3>1, <3>3, <3>4
      <3> QED BY <1>a, <3>1, <3>2, <3>5, <3>6, <3>7, <3>8 DEF PlaceInv
    <2>5. DeadInv'
      BY Zenon, <1>a, <1>b, <1>c DEF DeadInv, TypeOK, PlaceInv, InNext
    <2>6. ThreadInv'
      BY <1>a, <1>c, TidFacts DEF TypeOK, ThreadInv, PlaceInv, InNext, IdleThreadTid
    <2>7. StatusInv'
      BY <1>a, <1>b, <1>c, <2>0 DEF TypeOK, StatusInv, StatusAsserts, InNext, TurnPC, PC, Status
    <2>8. NoLostThread'
      BY <1>a, <1>b DEF TypeOK, NoLostThread, PlaceInv, InNext
    <2> QED BY <2>1, <2>2, <2>3, <2>4, <2>5, <2>6, <2>7, <2>8
  <1>3. CASE /\ runq' = Append(Tail(runq), h)
             /\ UNCHANGED <<status, wakenUp, pc>>
    <2> USE <1>3
    <2>0. /\ runq' \in Seq(Tid) /\ IsInjective(runq') /\ Range(runq') = Range(runq)
      BY <1>a, RotateQueue DEF TypeOK, QueueInv
    <2>1. TypeOK'
      BY <1>a, <2>0 DEF TypeOK
    <2>2. (OneTurn /\ HeadHoldsTurn)'
      BY <1>a, <1>b DEF OneTurn, HeadHoldsTurn, HasTurn, TurnPC
    <2>3. (QueueInv /\ ChanInv /\ DeadInv /\ ThreadInv /\ StatusInv /\ JoinInv)'
      BY <1>a, <2>0 DEF QueueInv, ChanInv, DeadInv, HasTurn, ThreadInv, StatusInv,
         StatusAsserts, JoinInv, NoMissedJoin, InNext
    <2>4. (PlaceInv /\ NoLostThread)'
      BY <1>a, <2>0 DEF PlaceInv, InNext, NoLostThread
    <2> QED BY <2>1, <2>2, <2>3, <2>4
  <1> QED BY <1>1, <1>2, <1>3 DEF nextRunnable
=============================================================================
