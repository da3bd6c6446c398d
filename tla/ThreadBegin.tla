---------------------------- MODULE ThreadBegin ----------------------------
(***************************************************************************)
(* How a thread created by pthreadCreate learns its logical tid.  The      *)
(* creator enters the new thread in the TidMap while it has the turn; the  *)
(* new thread looks itself up without the turn, between two semaphores     *)
(* that pthreadCreate posts and waits for after it has put the turn.       *)
(*                                                                         *)
(* The turn is the one of TurnToken: which thread gets it next is left to  *)
(* the scheduler.  Faulty variants are as in RRScheduler.                  *)
(***************************************************************************)
EXTENDS Integers, FiniteSets

CONSTANTS
  Thread,    \* the pthread_t values
  Main,      \* the main thread
  Creator,   \* the threads that call pthread_create
  Ender,     \* the threads that end
  NULL

ASSUME ThreadAssumption ==
  /\ Main \in Thread /\ NULL \notin Thread
  /\ Creator \subseteq Thread /\ Ender \subseteq Thread \ {Main}
ASSUME FiniteAssumption == IsFiniteSet(Thread)

InvalidTid == -1
Tid == 0..(Cardinality(Thread) - 1)

VARIABLES
  posted, holding,  \* the turn
  p_t_map,          \* logical tid of each thread in the TidMap
  nthread,          \* the next logical tid
  self_tid,         \* thread-local tid
  newth,            \* the thread a creator has created last
  thread_begin_sem,
  thread_begin_done_sem,
  pc

vars == <<posted, holding, p_t_map, nthread, self_tid, newth, thread_begin_sem,
          thread_begin_done_sem, pc>>
turn == <<posted, holding>>
tids == <<p_t_map, nthread>>
sems == <<thread_begin_sem, thread_begin_done_sem>>

Turn == INSTANCE TurnToken

(* pc: none, not created; start, lookup, begin, bturn: in threadBegin, before
   sem_wait, self(th), getTurn() and putTurn(); run, turn: outside an operation
   and in one; spawned, created, post, await: in pthreadCreate; zombify: in
   putTurn(true); done: ended; lost: read a tid that is not in the map.      *)
PC == {"none", "start", "lookup", "begin", "bturn", "run", "turn", "spawned",
       "created", "post", "await", "zombify", "done", "lost"}

\* The threads in the run queue.
Runnable == {t \in Thread : p_t_map[t] # InvalidTid}

Goto(t, l) == pc' = [pc EXCEPT ![t] = l]

Init ==
  /\ posted = {Main} /\ holding = {}
  /\ p_t_map = [t \in Thread |-> IF t = Main THEN 0 ELSE InvalidTid]
  /\ nthread = 1
  /\ self_tid = p_t_map
  /\ newth = [t \in Thread |-> NULL]
  /\ thread_begin_sem = 0 /\ thread_begin_done_sem = 0
  /\ pc = [t \in Thread |-> IF t = Main THEN "run" ELSE "none"]

getTurn(t) ==
  /\ Turn!getTurn(t)
  /\ \/ pc[t] = "run" /\ Goto(t, "turn")
     \/ pc[t] = "begin" /\ Goto(t, "bturn")
  /\ UNCHANGED <<tids, self_tid, newth, sems>>

\* The end of an operation; an operation between "turn" and here is any other.
putTurn(t) ==
  /\ \/ pc[t] \in {"turn", "bturn"} /\ Goto(t, "run")
     \/ pc[t] = "created" /\ Goto(t, "post")
  /\ \E u \in Runnable : Turn!putTurn(t, u)
  /\ UNCHANGED <<tids, self_tid, newth, sems>>

-----------------------------------------------------------------------------
(* pthreadCreate. *)


\* __tern_pthread_create: the new thread runs at once.
pthread_create(t, u) ==
  /\ pc[t] = "turn" /\ t \in Creator
  /\ pc[u] = "none"
  /\ newth' = [newth EXCEPT ![t] = u]
  /\ pc' = [pc EXCEPT ![t] = "spawned", ![u] = "start"]
  /\ UNCHANGED <<turn, tids, self_tid, sems>>

\* Scheduler::create.
create(t) ==
  /\ pc[t] = "spawned"
  /\ p_t_map' = [p_t_map EXCEPT ![newth[t]] = nthread]
  /\ nthread' = nthread + 1
  /\ Goto(t, "created")
  /\ UNCHANGED <<turn, self_tid, newth, sems>>

postBegin(t) ==
  /\ pc[t] = "post"
  /\ thread_begin_sem' = thread_begin_sem + 1
  /\ Goto(t, "await")
  /\ UNCHANGED <<turn, tids, self_tid, newth, thread_begin_done_sem>>

awaitDone(t) ==
  /\ pc[t] = "await"
  /\ thread_begin_done_sem > 0
  /\ thread_begin_done_sem' = thread_begin_done_sem - 1
  /\ Goto(t, "run")
  /\ UNCHANGED <<turn, tids, self_tid, newth, thread_begin_sem>>

-----------------------------------------------------------------------------
(* threadBegin, up to its getTurn(), and threadEnd. *)

awaitBegin(t) ==
  /\ pc[t] = "start"
  /\ thread_begin_sem > 0
  /\ thread_begin_sem' = thread_begin_sem - 1
  /\ Goto(t, "lookup")
  /\ UNCHANGED <<turn, tids, self_tid, newth, thread_begin_done_sem>>

\* TidMap::self(th): with NDEBUG a thread that is not in the map reads the end
\* of the hash map; it goes no further here.
self(t) ==
  /\ pc[t] = "lookup"
  /\ \/ /\ p_t_map[t] # InvalidTid
        /\ self_tid' = [self_tid EXCEPT ![t] = p_t_map[t]]
        /\ thread_begin_done_sem' = thread_begin_done_sem + 1
        /\ Goto(t, "begin")
     \/ /\ p_t_map[t] = InvalidTid
        /\ Goto(t, "lost")
        /\ UNCHANGED <<self_tid, thread_begin_done_sem>>
  /\ UNCHANGED <<turn, tids, newth, thread_begin_sem>>

threadEnd(t) ==
  /\ pc[t] = "turn" /\ t \in Ender
  /\ Goto(t, "zombify")
  /\ UNCHANGED <<turn, tids, self_tid, newth, sems>>

\* zombify() takes the thread out of the map; the turn goes to another thread.
zombify(t) ==
  /\ pc[t] = "zombify"
  /\ p_t_map' = [p_t_map EXCEPT ![t] = InvalidTid]
  /\ Goto(t, "done")
  /\ \E u \in Runnable \ {t} : Turn!putTurn(t, u)
  /\ UNCHANGED <<nthread, self_tid, newth, sems>>

-----------------------------------------------------------------------------
Step(t) ==
  \/ getTurn(t) \/ putTurn(t)
  \/ \E u \in Thread : pthread_create(t, u)
  \/ create(t) \/ postBegin(t) \/ awaitDone(t)
  \/ awaitBegin(t) \/ self(t)
  \/ threadEnd(t) \/ zombify(t)

Next == \E t \in Thread : Step(t)

Spec == Init /\ [][Next]_vars

-----------------------------------------------------------------------------
TypeOK ==
  /\ posted \subseteq Thread /\ holding \subseteq Thread
  /\ p_t_map \in [Thread -> Tid \cup {InvalidTid}]
  /\ nthread \in 1..Cardinality(Thread)
  /\ self_tid \in [Thread -> Tid \cup {InvalidTid}]
  /\ newth \in [Thread -> Thread \cup {NULL}]
  /\ thread_begin_sem \in Nat /\ thread_begin_done_sem \in Nat
  /\ pc \in [Thread -> PC]

\* A new thread that looks up its tid finds it: threadBegin is suspended until
\* pthreadCreate has entered the thread in the TidMap.
BeginFindsTid == \A t \in Thread : pc[t] # "lost"

\* The hash map of TidMap is not read by TidMap::self(th) in a new thread while
\* TidMap::create or zombify() is about to change it in the thread with the turn.
TidMapSynchronised ==
  ~ \E t, u \in Thread : pc[t] = "lookup" /\ pc[u] \in {"spawned", "zombify"}

\* When pthreadCreate returns, the thread it has created knows its tid.
CreatedKnowsTid ==
  \A t \in Thread :
    pc[t] \in {"run", "turn"} /\ newth[t] # NULL =>
      pc[newth[t]] \notin {"none", "start", "lookup"}

\* Two threads that have begun never use the same tid, and a thread in the TidMap
\* uses the tid that its creator entered there.
OwnTid ==
  \A t, u \in Thread :
    /\ self_tid[t] = self_tid[u] /\ self_tid[t] # InvalidTid => t = u
    /\ self_tid[t] # InvalidTid => p_t_map[t] \in {self_tid[t], InvalidTid}
=============================================================================
