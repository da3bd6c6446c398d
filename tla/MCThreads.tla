----------------------------- MODULE MCThreads -----------------------------
(***************************************************************************)
(* The start of threads and the two queues of runnable threads for TLC. A  *)
(* behaviour is one of a single part, which the variable part names: many, *)
(* ThreadBegin with the creators and enders of the configuration; one,     *)
(* where only the main thread creates threads; list, the run queue; hp,    *)
(* the run queue beside the queue of woken threads. The variables of the   *)
(* other parts are unused, those of ThreadBegin keep their first values.   *)
(***************************************************************************)
EXTENDS ThreadBegin

VARIABLES part, tid_map, elem, q, runq, hp_runq, waitq, flag, status, back, turnOf,
          strategy, at

threads == <<posted, holding, p_t_map, nthread, self_tid, newth,
             thread_begin_sem, thread_begin_done_sem, pc>>
list == <<tid_map, q>>
queues == <<runq, hp_runq, waitq, flag, status, back, turnOf, strategy, at>>

MCvars == <<part, threads, list, elem, queues>>

Threads == {"main", "idle", "t2", "t3"}

One == INSTANCE ThreadBegin WITH
  Creator <- {Main}, Ender <- {}

List == INSTANCE RunQueue WITH
  Threads <- Threads, Main <- "main", SizeMax <- 15, YieldAlone <- FALSE

HP == INSTANCE HPQueue WITH
  Threads <- Threads, Main <- "main", Idle <- "idle", SizeMax <- 15,
  Strategy <- {"DEFAULT", "CURRENT_THREAD"}, SlockWhenWoken <- FALSE,
  turn <- turnOf, pc <- at

ASSUME List!RunQueueAssumption

-----------------------------------------------------------------------------
Unused == "unused"

NoList ==
  /\ tid_map = Unused /\ q = Unused

NoQueues ==
  /\ runq = Unused /\ hp_runq = Unused /\ waitq = Unused /\ flag = Unused
  /\ status = Unused /\ back = Unused /\ turnOf = Unused /\ strategy = Unused
  /\ at = Unused

MCInit ==
  \/ /\ \/ part = "many" /\ Init
        \/ part = "one" /\ One!Init
     /\ NoList /\ elem = Unused /\ NoQueues
  \/ /\ part = "list" /\ List!Init
     /\ Init /\ NoQueues
  \/ /\ part = "hp" /\ HP!Init
     /\ Init /\ NoList

ManyStep ==
  /\ \/ part = "many" /\ Next
     \/ part = "one" /\ One!Next
  /\ UNCHANGED <<part, list, elem, queues>>

ListStep ==
  /\ part = "list" /\ List!Next
  /\ UNCHANGED <<part, threads, queues>>

HPStep ==
  /\ part = "hp" /\ HP!Next
  /\ UNCHANGED <<part, threads, list>>

\* A thread that read a tid that is not in the map goes no further.
Stop == part = "many" /\ (\E t \in Thread : pc[t] = "lost") /\ UNCHANGED MCvars

MCNext == ManyStep \/ ListStep \/ HPStep \/ Stop

MCSpec == MCInit /\ [][MCNext]_MCvars

-----------------------------------------------------------------------------

\* run_queue: the links, the tail and the count describe one list without
\* repetitions, and in(), which looks at the thread's own links, is exact.
\* With hp_runq, which links the same elements: no thread is in both queues;
\* the thread with the turn is at the head of the queue its flag names, so that
\* pop_front() removes the thread itself; and a thread that neither waits nor is
\* in a blocking call is in one of the queues or about to be put back.
QueuesSound ==
  /\ part = "list" => List!WellLinked /\ List!InExact
  /\ part = "hp" => HP!QueuesApart /\ HP!PopsItself /\ HP!NobodyLost

Order == INSTANCE YieldOrder WITH
  queue <- IF part = "list" THEN List!Content(elem, q) ELSE <<>>,
  yielded <- IF part = "list" THEN {t \in Threads : elem[t].last_yield} ELSE {}

=============================================================================
