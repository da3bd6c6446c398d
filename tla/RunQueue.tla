------------------------------ MODULE RunQueue ------------------------------
(***************************************************************************)
(* The run queue as the scheduler uses it: every step is what one call of  *)
(* the scheduler does to the list.  push_front and erase, which only the   *)
(* queue's own test calls, are steps of WholeSpec.                         *)
(***************************************************************************)
EXTENDS RunQueueOps, Functions

CONSTANTS
  Main,         \* the thread the constructor and fork() queue
  YieldAlone    \* whether a thread may yield when no other one is queued

VARIABLES
  tid_map,   \* the threads that have an element
  elem,      \* their elements
  q          \* head, tail and counters

vars == <<tid_map, elem, q>>

Apply(r) == elem' = r.e /\ q' = r.q

Init == /\ tid_map = {}
        /\ elem = NoElems
        /\ q = EmptyQueue

\* Scheduler::create: a new element at the back of the queue.
create(t) ==
  /\ t \notin tid_map
  /\ tid_map' = tid_map \cup {t}
  /\ Apply(push_back(elem, q, t))

\* signal, fireTimeouts, check_wakeup: a thread that is not queued comes back.
enter(t) ==
  /\ t \in tid_map /\ ~in(elem, q, t)
  /\ Apply(push_back(elem, q, t))
  /\ UNCHANGED tid_map

\* next() of a waiting thread, nextRunnable of a blocked one.
leave ==
  /\ q.num_elements # 0
  /\ Apply(pop_front(elem, q))
  /\ UNCHANGED tid_map

\* putTurn with the default strategy.
rotate ==
  /\ q.num_elements # 0
  /\ LET r == pop_front(elem, q) IN Apply(push_back(r.e, r.q, q.head))
  /\ UNCHANGED tid_map

\* putTurn with PUTTURN_STRATEGY_YIELD.
yield ==
  /\ q.num_elements # 0
  /\ YieldAlone \/ q.num_elements # 1
  /\ LET r == pop_front(elem, q) IN Apply(insert_yield(r.e, r.q, q.head))
  /\ UNCHANGED tid_map

\* Scheduler::childForkReturn: deep_clear, then the main thread alone.
childForkReturn ==
  /\ q.num_elements # 0
  /\ tid_map' = {Main}
  /\ Apply(push_back(NoElems, EmptyQueue, Main))

pushFront(t) ==
  /\ t \in tid_map /\ ~in(elem, q, t)
  /\ Apply(push_front(elem, q, t))
  /\ UNCHANGED tid_map

eraseAt(t) ==
  /\ t \in Range(Content(elem, q))
  /\ Apply(erase(elem, q, t))
  /\ UNCHANGED tid_map

Next == \/ \E t \in Threads : create(t) \/ enter(t)
        \/ leave \/ rotate \/ yield \/ childForkReturn

WholeNext == Next \/ \E t \in Threads : pushFront(t) \/ eraseAt(t)

Spec == Init /\ [][Next]_vars
WholeSpec == Init /\ [][WholeNext]_vars

-----------------------------------------------------------------------------
TypeOK == /\ tid_map \subseteq Threads
          /\ elem \in Elems
          /\ q \in Queues

\* The list is a list: from the head, each link leads to the next thread and
\* its prev leads back, the tail is the last, nobody comes twice, and the count
\* is the length (push_back, insert_yield, pop_front).
WellLinked ==
  LET w == Content(elem, q) IN
  /\ q.num_elements = Len(w)
  /\ \A i, j \in DOMAIN w : w[i] = w[j] => i = j
  /\ \A i \in 2..Len(w) : elem[w[i]].prev = w[i - 1]
  /\ q.tail = IF w = <<>> THEN NULL ELSE w[Len(w)]

\* in() looks at the thread's own links only, and its head keeps a stale prev
\* after pop_front; it still says exactly whether the thread is in the list.
InExact ==
  \A t \in tid_map : in(elem, q, t) <=> t \in Range(Content(elem, q))

Order == INSTANCE YieldOrder WITH
  queue <- Content(elem, q),
  yielded <- {t \in Threads : elem[t].last_yield}

\* The linked list implements the sequence of threads that the scheduler takes
\* the run queue for, the place of a yielding thread included.
ImplementsOrder == Order!Spec
=============================================================================
