---------------------------- MODULE TurnQueues ----------------------------
(***************************************************************************)
(* Queues of threads as sequences without repetition, and what a scan over *)
(* a queue or a hash set appends to another queue.                         *)
(***************************************************************************)
EXTENDS Integers, Sequences, FiniteSets, Functions

\* The sequences that list the set S, each element once.
Listings(S) == UNION {Bijection(1..n, S) : n \in 0..Cardinality(S)}

\* t comes before u in s.
Before(s, t, u) == \E i, j \in DOMAIN s : i < j /\ s[i] = t /\ s[j] = u

\* The listing of S in the order of the queue s.
InOrder(S, s) ==
  {q \in Listings(S) : \A i, j \in DOMAIN q : i < j => Before(s, q[i], q[j])}
=============================================================================
