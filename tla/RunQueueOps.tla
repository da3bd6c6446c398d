---------------------------- MODULE RunQueueOps ----------------------------
(***************************************************************************)
(* The operations of the run queue (class run_queue) on its linked list.   *)
(*                                                                         *)
(* An element belongs to a thread and is shared by every queue that knows  *)
(* the thread (set_thd_elem), so a state is a pair: e, the elements by     *)
(* thread, and q, the head, tail and counters of one queue.  An operation  *)
(* takes the pair apart and returns the new one as [e |-> ..., q |-> ...]. *)
(***************************************************************************)
EXTENDS Naturals, Sequences, FiniteSets

CONSTANTS
  Threads,    \* the tids of the program
  NULL,       \* the null pointer
  SizeMax     \* SIZE_MAX: the counters wrap around below zero

RunQueueAssumption == NULL \notin Threads /\ SizeMax \in Nat \ {0}

Pointer == Threads \cup {NULL}
Elems == [Threads -> [prev : Pointer, next : Pointer, last_yield : BOOLEAN]]
Queues == [head : Pointer, tail : Pointer,
           num_elements : 0..SizeMax, num_yield_elem : 0..SizeMax]

Dec(n) == IF n = 0 THEN SizeMax ELSE n - 1

runq_elem == [prev |-> NULL, next |-> NULL, last_yield |-> FALSE]
NoElems == [t \in Threads |-> runq_elem]
EmptyQueue == [head |-> NULL, tail |-> NULL, num_elements |-> 0, num_yield_elem |-> 0]

\* The threads of the queue, from begin() to end(); a cycle in the links would
\* show as a thread that comes twice.
Content(e, q) ==
  LET n == Cardinality(Threads) + 1
      w[k \in 1..n] == IF k = 1 THEN q.head
                       ELSE IF w[k - 1] = NULL THEN NULL ELSE e[w[k - 1]].next
  IN  SelectSeq(w, LAMBDA t : t # NULL)

in(e, q, t) ==
  \/ e[t].prev # NULL \/ e[t].next # NULL
  \/ q.head = t /\ q.tail = t

push_back(e, q, t) ==
  IF q.head = NULL
  THEN [e |-> e, q |-> [q EXCEPT !.head = t, !.tail = t, !.num_elements = @ + 1]]
  ELSE [e |-> [e EXCEPT ![t].prev = q.tail, ![q.tail].next = t],
        q |-> [q EXCEPT !.tail = t, !.num_elements = @ + 1]]

\* The old head's prev keeps its value.
push_front(e, q, t) ==
  IF q.head = NULL
  THEN [e |-> e, q |-> [q EXCEPT !.head = t, !.tail = t, !.num_elements = @ + 1]]
  ELSE [e |-> [e EXCEPT ![t].next = q.head],
        q |-> [q EXCEPT !.head = t, !.num_elements = @ + 1]]

\* The new head's prev keeps pointing at the element that left.
pop_front(e, q) ==
  LET h == q.head IN
  [e |-> [e EXCEPT ![h] = runq_elem],
   q |-> [head |-> e[h].next,
          tail |-> IF e[h].next = NULL THEN NULL ELSE q.tail,
          num_elements |-> Dec(q.num_elements),
          num_yield_elem |-> IF e[h].last_yield THEN Dec(q.num_yield_elem)
                             ELSE q.num_yield_elem]]

\* erase(t) of an element in the queue; last_yield keeps its value.
erase(e, q, t) ==
  LET p == e[t].prev
      n == e[t].next
      unlinked == [u \in Threads |->
        [e[u] EXCEPT !.next = IF u = p THEN n ELSE @, !.prev = IF u = n THEN p ELSE @]]
  IN  [e |-> [unlinked EXCEPT ![t].prev = NULL, ![t].next = NULL],
       q |-> [head |-> IF q.head = t THEN n ELSE q.head,
              tail |-> IF q.tail = t THEN p ELSE q.tail,
              num_elements |-> Dec(q.num_elements),
              num_yield_elem |-> IF e[t].last_yield THEN Dec(q.num_yield_elem)
                                 ELSE q.num_yield_elem]]


\* The element insert_yield() inserts behind: the loop goes on from the head
\* until it has passed as many yield elements as are counted and a thread that
\* did not yield.
YieldPosition(e, q) ==
  LET w == Content(e, q)
      count(i) == Cardinality({j \in 1..i : e[w[j]].last_yield})
      stop(i) == i = Len(w) \/ (count(i) >= q.num_yield_elem /\ count(i) < i)
  IN  w[CHOOSE i \in 1..Len(w) : stop(i) /\ \A j \in 1..(i - 1) : ~stop(j)]

\* A yield into an empty queue is not counted.
insert_yield(e, q, t) ==
  IF q.head = NULL
  THEN [e |-> [e EXCEPT ![t].last_yield = TRUE],
        q |-> [q EXCEPT !.head = t, !.tail = t, !.num_elements = @ + 1]]
  ELSE LET cur == YieldPosition(e, q)
           nxt == e[cur].next
           marked == [e EXCEPT ![t] = [prev |-> cur, next |-> nxt, last_yield |-> TRUE],
                               ![cur].next = t]
       IN  [e |-> IF nxt = NULL THEN marked ELSE [marked EXCEPT ![nxt].prev = t],
            q |-> [q EXCEPT !.tail = IF cur = @ THEN t ELSE @,
                            !.num_elements = @ + 1, !.num_yield_elem = (@ + 1) % (SizeMax + 1)]]
=============================================================================
