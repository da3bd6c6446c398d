------------------------------ MODULE HPQueue ------------------------------
(***************************************************************************)
(* The scheduler with a high-priority queue (scheduling_policy & 4): a     *)
(* thread that a signal or a timeout wakes, and a new thread, enter        *)
(* hp_runq instead of runq, and the turn goes to hp_runq first.  The two   *)
(* queues link the same elements.                                          *)
(*                                                                         *)
(* The turn holder's work up to the loop of nextRunnable() is one step and *)
(* each iteration of the loop is one; the status fields, blocking calls    *)
(* and wakeups of the other threads interleave with these.                 *)
(***************************************************************************)
EXTENDS RunQueueOps, SequencesExt, TurnQueues

CONSTANTS
  Main, Idle,      \* the main thread and the idle thread
  Strategy,        \* what getPutTurnStrategy may return outside pthread_create
  SlockWhenWoken   \* whether a thread may create threads under slock_n_turns
                   \* while its own element is in hp_runq

VARIABLES
  elem, runq, hp_runq,
  waitq,      \* the wait queue; the idle thread waits on idle_cond, the others
              \* on one channel
  flag,       \* waits[t].woken_up_from_hp_queue_flag
  status,     \* status of the elements
  back,       \* inter_pro_wakeup_tids
  turn,       \* the thread that has the turn
  strategy,   \* the argument of the nextRunnable() under way
  pc          \* none: not created; begin: before threadBegin; app; next: in
              \* putTurn(); wait, woken: in wait(); towait, tocall: about to be
              \* in wait() or call; call: in a blocking call; ended: after it

vars == <<elem, runq, hp_runq, waitq, flag, status, back, turn, strategy, pc>>

Goto(t, l) == pc' = [pc EXCEPT ![t] = l]

Init ==
  /\ LET s == push_back(NoElems, EmptyQueue, Main) IN elem = s.e /\ runq = s.q
  /\ hp_runq = EmptyQueue
  /\ waitq = <<>>
  /\ flag = [t \in Threads |-> FALSE]
  /\ status = [t \in Threads |-> IF t = Main THEN "RUNNING_REG" ELSE "RUNNABLE"]
  /\ back = {}
  /\ turn = Main
  /\ strategy = "DEFAULT"
  /\ pc = [t \in Threads |-> IF t = Main THEN "app" ELSE "none"]

-----------------------------------------------------------------------------
(* Both queues over one set of elements: [e, r, h]. *)

OnRunq(s, x) == [s EXCEPT !.e = x.e, !.r = x.q]
OnHp(s, x) == [s EXCEPT !.e = x.e, !.h = x.q]
Both == [e |-> elem, r |-> runq, h |-> hp_runq]

\* Where signal() and fireTimeouts() put a thread.
Enter(s, t) == IF t = Idle THEN OnRunq(s, push_back(s.e, s.r, t))
               ELSE OnHp(s, push_back(s.e, s.h, t))

\* The pop_front() of next() and putTurn().
PopSelf(s, t) == IF flag[t] THEN OnHp(s, pop_front(s.e, s.h))
                 ELSE OnRunq(s, pop_front(s.e, s.r))

\* check_wakeup() for the threads S asks runq only whether they are queued.
check_wakeup(s, S) ==
  {FoldLeft(LAMBDA x, t : IF in(x.e, x.r, t) THEN x ELSE OnRunq(x, push_back(x.e, x.r, t)),
            s, p) : p \in Listings(S)}

\* incTurnCount() of t: the queues after its check_wakeup().  A thread that calls
\* wakeup() later in the operation is seen by next(); t itself did so before.
incTurnCount(t) ==
  UNION {{[seen |-> S, s |-> n] : n \in check_wakeup(Both, S)} :
         S \in {S \in SUBSET back : t \in back => t \in S}}

\* next() up to the loop of nextRunnable(), from the queues s.
next(s, strat, seen) ==
  /\ \E n \in check_wakeup(s, back \ seen) : elem' = n.e /\ runq' = n.r /\ hp_runq' = n.h
  /\ back' = {}
  /\ strategy' = strat

-----------------------------------------------------------------------------
(* Operations of the thread that has the turn. *)

\* Faulty variant: the flag is not reset.
putTurnFlag(t, s, strat, seen) ==
  /\ status' = [status EXCEPT ![t] = "RUNNABLE"]
  /\ IF strat \in {"CURRENT_THREAD", "CREATE"}
     THEN next(s, strat, seen) /\ UNCHANGED flag
     ELSE LET n == PopSelf(s, t) IN
          /\ next(OnRunq(n, push_back(n.e, n.r, t)), strat, seen)
          /\ UNCHANGED flag

\* putTurn(false, strat), from the queues s.
putTurn(t, s, strat, seen) ==
  /\ status' = [status EXCEPT ![t] = "RUNNABLE"]
  /\ IF strat \in {"CURRENT_THREAD", "CREATE"}
     THEN next(s, strat, seen) /\ UNCHANGED flag
     ELSE LET n == PopSelf(s, t) IN
          /\ next(OnRunq(n, push_back(n.e, n.r, t)), strat, seen)
          /\ flag' = [flag EXCEPT ![t] = FALSE]

\* An operation that signals the first waiter, or nobody.
operation(t) ==
  /\ turn = t /\ pc[t] \in {"app", "begin", "woken"}
  /\ t = Idle => pc[t] = "begin"
  /\ \E strat \in Strategy, k \in incTurnCount(t) :
     \/ putTurn(t, k.s, strat, k.seen) /\ UNCHANGED waitq
     \/ \E i \in DOMAIN waitq :
        /\ waitq[i] # Idle /\ \A j \in 1..(i - 1) : waitq[j] = Idle
        /\ waitq' = RemoveAt(waitq, i)
        /\ putTurn(t, Enter(k.s, waitq[i]), strat, k.seen)
  /\ Goto(t, "next")
  /\ UNCHANGED turn

\* pthreadCreate: Scheduler::create queues the new thread in hp_runq, whoever
\* it is; the idle thread is the first one.
create(t, u) ==
  /\ turn = t /\ pc[t] = "app" /\ t # Idle
  /\ pc[u] = "none" /\ (u = Idle \/ pc[Idle] # "none")
  /\ \E k \in incTurnCount(t) :
     \E strat \in {"DEFAULT"} \cup IF flag[t] /\ ~SlockWhenWoken THEN {} ELSE {"CREATE"} :
       putTurn(t, OnHp(k.s, push_back(k.s.e, k.s.h, u)), strat, k.seen)
  /\ pc' = [pc EXCEPT ![t] = "next", ![u] = "begin"]
  /\ UNCHANGED <<waitq, turn>>

\* next() of a thread that leaves the queues, for wait() and block().
leave(t, st, l) ==
  /\ status' = [status EXCEPT ![t] = st]
  /\ \E k \in incTurnCount(t) : next(PopSelf(k.s, t), "DEFAULT", k.seen)
  /\ flag' = [flag EXCEPT ![t] = FALSE]
  /\ Goto(t, l)

wait(t) ==
  /\ turn = t /\ pc[t] \in {"app", "woken"} /\ t # Idle
  /\ pc[Idle] # "none"
  /\ waitq' = Append(waitq, t)
  /\ leave(t, "RUNNABLE", "towait")
  /\ UNCHANGED turn

\* interProStart() of the turn holder and the block() that follows.
block(t) ==
  /\ turn = t /\ pc[t] = "app" /\ t # Idle
  /\ pc[Idle] # "none"
  /\ leave(t, "INTER_PRO_STOP", "tocall")
  /\ UNCHANGED <<waitq, turn>>

\* The idle thread goes to sleep when tryPutTurn() finds a runnable thread in
\* runq, which it marks, and puts its turn otherwise.
idleTurn(t) ==
  /\ turn = t /\ pc[t] \in {"app", "woken"} /\ t = Idle
  /\ \E k \in incTurnCount(t) :
     LET others == SelectSeq(Tail(Content(k.s.e, k.s.r)), LAMBDA u : status[u] = "RUNNABLE") IN
     \/ /\ others # <<>>
        /\ waitq' = Append(waitq, t)
        /\ next(PopSelf(k.s, t), "DEFAULT", k.seen)
        /\ status' = [status EXCEPT ![t] = "RUNNABLE", ![Head(others)] = "RUNNING_REG"]
        /\ flag' = [flag EXCEPT ![t] = FALSE]
        /\ Goto(t, "towait")
     \/ /\ others = <<>>
        /\ putTurn(t, k.s, "DEFAULT", k.seen)
        /\ Goto(t, "next")
        /\ UNCHANGED waitq
  /\ UNCHANGED turn

-----------------------------------------------------------------------------
(* nextRunnable(). *)

InNext == {"next", "towait", "tocall"}
After(t) == CASE pc[t] = "next" -> "app" [] pc[t] = "towait" -> "wait"
              [] pc[t] = "tocall" -> "call"

\* The condition of the hp_runq branch.
HpFirst(t) ==
  /\ hp_runq.num_elements # 0
  /\ (strategy = "CURRENT_THREAD") = flag[t]
  /\ strategy # "CURRENT_ROLE"

\* One iteration at the head u of a queue: a blocked thread is dropped, any
\* other one is given the turn.
dropBlocked(t, u) ==
  /\ status[u] = "INTER_PRO_STOP"
  /\ UNCHANGED <<waitq, flag, status, back, turn, strategy, pc>>

pass(t, u) ==
  /\ status[u] # "INTER_PRO_STOP"
  /\ status' = [status EXCEPT ![u] = IF @ = "RUNNABLE" THEN "RUNNING_REG" ELSE @]
  /\ turn' = u
  /\ pc' = [[pc EXCEPT ![t] = After(t)] EXCEPT ![u] = IF @ = "wait" THEN "woken" ELSE @]
  /\ UNCHANGED <<elem, runq, hp_runq, waitq, back, strategy>>

nextHp(t) ==
  /\ turn = t /\ pc[t] \in InNext /\ HpFirst(t)
  /\ LET u == hp_runq.head IN
     \/ /\ dropBlocked(t, u)
        /\ LET s == OnHp(Both, pop_front(elem, hp_runq)) IN elem' = s.e /\ hp_runq' = s.h
        /\ UNCHANGED runq
     \/ pass(t, u) /\ flag' = [flag EXCEPT ![u] = TRUE]

nextRunq(t) ==
  /\ turn = t /\ pc[t] \in InNext /\ ~HpFirst(t)
  /\ runq.num_elements # 0
  /\ LET u == runq.head IN
     \/ /\ dropBlocked(t, u)
        /\ LET s == OnRunq(Both, pop_front(elem, runq)) IN elem' = s.e /\ runq' = s.r
        /\ UNCHANGED hp_runq
     \/ pass(t, u) /\ UNCHANGED flag

\* wakeUpIdleThread(), when runq is empty.
wakeUpIdleThread(t) ==
  /\ turn = t /\ pc[t] \in InNext /\ ~HpFirst(t)
  /\ runq.num_elements = 0
  /\ Idle \in Range(waitq)
  /\ waitq' = SelectSeq(waitq, LAMBDA u : u # Idle)
  /\ LET s == push_back(elem, runq, Idle) IN elem' = s.e /\ runq' = s.q
  /\ strategy' = "DEFAULT"
  /\ UNCHANGED <<hp_runq, flag, status, back, turn, pc>>

-----------------------------------------------------------------------------
(* Steps without the turn. *)

\* interProStart() of a thread that does not have the turn.
interProStart(t) ==
  /\ turn # t /\ pc[t] = "app" /\ t # Idle
  /\ status[t] = "RUNNABLE"
  /\ status' = [status EXCEPT ![t] = "INTER_PRO_STOP"]
  /\ Goto(t, "call")
  /\ UNCHANGED <<elem, runq, hp_runq, waitq, flag, back, turn, strategy>>

interProEnd(t) ==
  /\ pc[t] = "call"
  /\ status' = [status EXCEPT ![t] = "RUNNABLE"]
  /\ Goto(t, "ended")
  /\ UNCHANGED <<elem, runq, hp_runq, waitq, flag, back, turn, strategy>>

wakeup(t) ==
  /\ pc[t] = "ended"
  /\ back' = back \cup {t}
  /\ Goto(t, "app")
  /\ UNCHANGED <<elem, runq, hp_runq, waitq, flag, status, turn, strategy>>

Next == \E t \in Threads :
  \/ operation(t) \/ wait(t) \/ block(t) \/ idleTurn(t)
  \/ \E u \in Threads : create(t, u)
  \/ nextHp(t) \/ nextRunq(t) \/ wakeUpIdleThread(t)
  \/ interProStart(t) \/ interProEnd(t) \/ wakeup(t)

Spec == Init /\ [][Next]_vars

-----------------------------------------------------------------------------
Linked(q) ==
  LET w == Content(elem, q) IN
  /\ q.num_elements = Len(w) /\ IsInjective(w)
  /\ \A i \in 2..Len(w) : elem[w[i]].prev = w[i - 1]
  /\ q.tail = IF w = <<>> THEN NULL ELSE w[Len(w)]

InRunq == Range(Content(elem, runq))
InHp == Range(Content(elem, hp_runq))

\* Although runq and hp_runq link the same elements, and check_wakeup() asks
\* only runq whether a thread is queued, no thread is in both queues and both
\* remain proper lists.
QueuesApart == InRunq \cap InHp = {} /\ Linked(runq) /\ Linked(hp_runq)

\* A thread at work with the turn is at the head of the queue that its
\* woken_up_from_hp_queue_flag names, so the pop_front() in putTurn() and next()
\* removes the thread itself.
PopsItself ==
  pc[turn] \notin InNext =>
    turn = IF flag[turn] THEN hp_runq.head ELSE runq.head

\* No thread is lost between the two queues: unless it waits or is in a blocking
\* call, it is queued or about to be put back by check_wakeup().
NobodyLost ==
  \A t \in Threads :
    pc[t] \in {"app", "begin", "woken", "next"} => t \in InRunq \cup InHp \cup back

\* A thread that was woken goes before the threads of runq: while hp_runq holds a
\* runnable thread, no step hands the turn to a thread of runq, unless the
\* strategy keeps it where it is.
WokenFirst ==
  turn # turn' /\ turn' \in InRunq /\ strategy = "DEFAULT"
    => \A u \in InHp : status[u] = "INTER_PRO_STOP"

\* What putTurn(), wait() and block() assert: tid == runq.front().
HolderIsFront == pc[turn] \notin InNext => turn = runq.head

\* What nextRunnable() says of hp_runq: the idle thread is never placed in it.
IdleNotInHp == Idle \notin InHp
=============================================================================
