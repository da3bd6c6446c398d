----------------------------- MODULE BlockQueue -----------------------------
(***************************************************************************)
(* The queue of pbzip2 between the producer and the consumers: a circular  *)
(* buffer of QUEUESIZE blocks with the flags full and empty.               *)
(***************************************************************************)
EXTENDS Integers

CONSTANT QUEUESIZE  \* numCPU

\* The slots of a new queue are not initialised, and never read before a block
\* is added; they hold block 0 here.
queueInit == [buf |-> [i \in 0 .. QUEUESIZE - 1 |-> 0],
              head |-> 0, tail |-> 0, full |-> FALSE, empty |-> TRUE]

\* The queue is emptied between two files; the slots keep what they held.
queueReset(q) == [q EXCEPT !.head = 0, !.tail = 0, !.full = FALSE, !.empty = TRUE]

After(i) == IF i + 1 = QUEUESIZE THEN 0 ELSE i + 1

\* Called when the queue is not full.
queueAdd(q, block) ==
  [q EXCEPT !.buf[q.tail] = block, !.tail = After(q.tail), !.empty = FALSE,
            !.full = q.full \/ After(q.tail) = q.head]

\* Called when the queue is not empty; the block taken is queueHead(q).
queueHead(q) == q.buf[q.head]
queueDel(q) ==
  [q EXCEPT !.head = After(q.head), !.full = FALSE,
            !.empty = q.empty \/ After(q.head) = q.tail]

============================================================================
