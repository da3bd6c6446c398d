----------------------------- MODULE YieldOrder -----------------------------
(***************************************************************************)
(* What the run queue promises the scheduler: a sequence of threads, some  *)
(* of which entered by a yield.                                            *)
(***************************************************************************)
EXTENDS Naturals, Sequences, SequencesExt

CONSTANT Threads

VARIABLES
  queue,     \* the threads, first to last
  yielded    \* those that entered by insert_yield

Init == queue = <<>> /\ yielded = {}

enter(t) == /\ queue' = Append(queue, t) /\ UNCHANGED yielded

leave == /\ queue # <<>>
         /\ queue' = Tail(queue)
         /\ yielded' = yielded \ {Head(queue)}

rotate == /\ queue # <<>>
          /\ queue' = Append(Tail(queue), Head(queue))
          /\ yielded' = yielded \ {Head(queue)}

\* Behind all other yield threads, and behind at least one thread that did not
\* yield if there is one.
yield ==
  /\ queue # <<>>
  /\ LET h == Head(queue)
         rest == Tail(queue)
         plain == {i \in DOMAIN rest : rest[i] \notin yielded}
         first == {i \in plain : \A j \in plain : i <= j}
         behind == {i \in DOMAIN rest : rest[i] \in yielded}
                     \cup IF plain = {} THEN DOMAIN rest ELSE first
         last == CHOOSE i \in behind \cup {0} : \A j \in behind : j <= i
     IN  queue' = InsertAt(rest, last + 1, h) /\ yielded' = yielded \cup {h}

clear(t) == queue' = <<t>> /\ yielded' = {}

Next == \/ \E t \in Threads : enter(t) \/ clear(t)
        \/ leave \/ rotate \/ yield

Spec == Init /\ [][Next]_<<queue, yielded>>
=============================================================================
