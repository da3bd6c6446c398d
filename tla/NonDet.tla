------------------------------- MODULE NonDet -------------------------------
(***************************************************************************)
(* Non-deterministic regions (tern_non_det_start and tern_non_det_end) and *)
(* the bound on non-determinism.  A thread that starts a region waits until *)
(* only the idle thread is runnable, leaves the run queue and comes back   *)
(* through the wake-up set.  A thread that has been out of the run queue   *)
(* for more than the bound is put back into it, so that the others wait    *)
(* for it.  Threads in blocking calls leave the run queue too.  The option *)
(* enforce_non_det_annotations is on.                                      *)
(***************************************************************************)
EXTENDS Integers, Sequences, FiniteSets, SequencesExt

CONSTANTS
  Threads, Idle,
  Bounded,      \* options::enforce_non_det_clock_bound
  Bound,        \* options::non_det_clock_bound
  Slack,        \* turns a region may outlive the bound, see RegionsAreBounded
  Ops,          \* what the application uses of "region", "blocking", "other"
  NoWait        \* options::enforce_no_wait_non_det_annotations

BoundAssumption == Bounded \in BOOLEAN /\ Bound \in Nat /\ Slack \in Nat /\ NoWait \in 0 .. 2

VARIABLES
  s,        \* the scheduler: runq, waitq: the threads waiting on nonDetCV,
            \* stopped: those with status INTER_PRO_STOP, tids: inter_pro_wakeup_tids,
            \* non_det_thds, in order, and for each the turns since it was put there
  pc,       \* app; start: in nonDetStart; block: about to leave the run queue;
            \* region; call: in a blocking call; nowait: in a no-wait region
  inNonDet, inNoWaitNonDet, noCSWholeLocal

vars == <<s, pc, inNonDet, inNoWaitNonDet, noCSWholeLocal>>
flags == <<inNonDet, inNoWaitNonDet, noCSWholeLocal>>

Init ==
  /\ s \in {[runq |-> <<Idle>> \o p, waitq |-> <<>>, stopped |-> {}, tids |-> {},
             non_det_thds |-> <<>>, age |-> [t \in Threads |-> 0]] : p \in SetToSeqs(Threads)}
  /\ pc = [t \in Threads |-> "app"]
  /\ inNonDet = [t \in Threads |-> FALSE]
  /\ inNoWaitNonDet = [t \in Threads |-> FALSE]
  /\ noCSWholeLocal = [t \in Threads |-> FALSE]

HasTurn(t) == s.runq[1] = t

-----------------------------------------------------------------------------
(* The scheduler, as functions of its state. *)

Without(q, S) == SelectSeq(q, LAMBDA t : t \notin S)
MaxAge == Bound + Slack + 1

\* non_det_thds.insert for the threads of q, in that order.
Insert(r, q) ==
  IF ~Bounded THEN r ELSE
  [r EXCEPT !.non_det_thds = @ \o q,
            !.age = [t \in Threads |-> IF t \in Range(q) THEN 0 ELSE @[t]]]

\* Faulty variant: the threads leave the set and are not queued.
check_wakeupLost(r) ==
  [r EXCEPT !.tids = {}, !.non_det_thds = Without(@, r.tids)]

\* The set is a hash table of small integers, walked in increasing order of tid.
check_wakeup(r) ==
  LET back == SetToSortSeq(r.tids \ Range(r.runq), <)
  IN  [r EXCEPT !.runq = @ \o back, !.tids = {},
                !.non_det_thds = Without(@, Range(back))]

incTurnCount(r) ==
  check_wakeup([r EXCEPT !.age = [t \in Threads |->
    IF t \in Range(r.non_det_thds) /\ @[t] < MaxAge THEN @[t] + 1 ELSE @[t]]])

\* Faulty variant: the last thread of the set is looked at.
checkNonDetBoundLast(r) ==
  IF r.non_det_thds # <<>> /\ r.age[Last(r.non_det_thds)] > Bound
  THEN [r EXCEPT !.runq = Append(@, Last(r.non_det_thds)), !.non_det_thds = Front(@)]
  ELSE r

checkNonDetBound(r) ==
  IF r.non_det_thds # <<>> /\ r.age[Head(r.non_det_thds)] > Bound
  THEN [r EXCEPT !.runq = Append(@, Head(r.non_det_thds)), !.non_det_thds = Tail(@)]
  ELSE r

\* Faulty variant: the idle thread releases nobody.
nextRunnableSilent(r, self) ==
  LET live == {i \in 1 .. Len(r.runq) : r.runq[i] \notin r.stopped}
      n == IF live = {} THEN Len(r.runq) ELSE (CHOOSE i \in live : \A j \in live : i <= j) - 1
      d == [Insert(r, SubSeq(r.runq, 1, n)) EXCEPT !.runq = SubSeq(@, n + 1, Len(@))]
  IN  IF d.runq = <<>> THEN [d EXCEPT !.runq = <<Idle>>] ELSE d

\* The loop of nextRunnable: stopped threads are dropped from the head of the run
\* queue; if nobody is left the idle thread is woken; the idle thread alone releases
\* the threads that wait to start a region (nNonDetWait, which also counts those
\* released and not yet run, is positive whenever somebody waits).
nextRunnable(r, self) ==
  LET live == {i \in 1 .. Len(r.runq) : r.runq[i] \notin r.stopped}
      n == IF live = {} THEN Len(r.runq) ELSE (CHOOSE i \in live : \A j \in live : i <= j) - 1
      d == [Insert(r, SubSeq(r.runq, 1, n)) EXCEPT !.runq = SubSeq(@, n + 1, Len(@))]
  IN  IF d.runq = <<>> THEN [d EXCEPT !.runq = <<Idle>>]
      ELSE IF self = Idle /\ d.runq = <<Idle>>
      THEN [d EXCEPT !.runq = @ \o d.waitq, !.waitq = <<>>]
      ELSE d

\* next() of a thread that has left the run queue, or has gone to its end.
next(r, self) == nextRunnable(check_wakeup(r), self)

putTurn(r, t) ==
  next(checkNonDetBound([r EXCEPT !.runq = Append(Tail(@), t)]), t)

-----------------------------------------------------------------------------
(* The operations. *)

Goto(t, l) == pc' = [pc EXCEPT ![t] = l]

nonDetStart(t) ==
  /\ HasTurn(t) /\ pc[t] = "app" /\ "region" \in Ops
  /\ \E r \in {incTurnCount(s)} :
       s' = next([r EXCEPT !.runq = Tail(@), !.waitq = Append(@, t)], t)
  /\ Goto(t, "start")
  /\ UNCHANGED flags

nonDetStartResume(t) ==
  /\ HasTurn(t) /\ pc[t] = "start"
  /\ \E r \in {incTurnCount(s)} : s' = putTurn(r, t)
  /\ Goto(t, "block")
  /\ UNCHANGED flags

\* block(), with the turn: the thread enters the set before the turn is counted.
block(r, t) ==
  LET n == incTurnCount(Insert(r, <<t>>))
  IN  next([n EXCEPT !.runq = Tail(@)], t)

nonDetStartBlock(t) ==
  /\ HasTurn(t) /\ pc[t] = "block"
  /\ s' = block(s, t)
  /\ Goto(t, "region")
  /\ inNonDet' = [inNonDet EXCEPT ![t] = TRUE]
  /\ UNCHANGED <<inNoWaitNonDet, noCSWholeLocal>>

\* Without the turn, at any time.
nonDetEnd(t) ==
  /\ pc[t] = "region"
  /\ inNonDet' = [inNonDet EXCEPT ![t] = FALSE]
  /\ s' = [s EXCEPT !.tids = @ \cup {t}]
  /\ Goto(t, "app")
  /\ UNCHANGED <<inNoWaitNonDet, noCSWholeLocal>>

\* BLOCK_TIMER_START: interProStart, and block() if the thread is at the head.
blockStart(t) ==
  /\ pc[t] = "app" /\ "blocking" \in Ops
  /\ LET r == [s EXCEPT !.stopped = @ \cup {t}]
     IN  s' = IF HasTurn(t) THEN block(r, t) ELSE r
  /\ Goto(t, "call")
  /\ UNCHANGED flags

\* BLOCK_TIMER_END: interProEnd and wakeup.
blockEnd(t) ==
  /\ pc[t] = "call"
  /\ s' = [s EXCEPT !.stopped = @ \ {t}, !.tids = @ \cup {t}]
  /\ Goto(t, "app")
  /\ UNCHANGED flags

\* Any other operation.
other(t) ==
  /\ HasTurn(t) /\ pc[t] = "app" /\ "other" \in Ops
  /\ \E r \in {incTurnCount(s)} : s' = putTurn(r, t)
  /\ UNCHANGED <<pc, flags>>

noWaitNonDetStart(t) ==
  /\ pc[t] = "app" /\ "nowait" \in Ops
  /\ inNoWaitNonDet' = [inNoWaitNonDet EXCEPT ![t] = @ \/ NoWait = 1]
  /\ noCSWholeLocal' = [noCSWholeLocal EXCEPT ![t] = @ \/ NoWait = 2]
  /\ Goto(t, "nowait")
  /\ UNCHANGED <<s, inNonDet>>

noWaitNonDetEnd(t) ==
  /\ pc[t] = "nowait"
  /\ inNoWaitNonDet' = [inNoWaitNonDet EXCEPT ![t] = @ /\ NoWait # 1]
  /\ noCSWholeLocal' = [noCSWholeLocal EXCEPT ![t] = @ /\ NoWait # 2]
  /\ Goto(t, "app")
  /\ UNCHANGED <<s, inNonDet>>

\* The idle thread's turn: it sleeps if another thread is queued.
idle ==
  /\ HasTurn(Idle)
  /\ \E r \in {incTurnCount(s)} :
       s' = IF Len(r.runq) > 1 THEN next([r EXCEPT !.runq = Tail(@)], Idle) ELSE putTurn(r, Idle)
  /\ UNCHANGED <<pc, flags>>

Step(t) ==
  \/ nonDetStart(t) \/ nonDetStartResume(t) \/ nonDetStartBlock(t) \/ nonDetEnd(t)
  \/ blockStart(t) \/ blockEnd(t) \/ other(t)
  \/ noWaitNonDetStart(t) \/ noWaitNonDetEnd(t)

Next == idle \/ \E t \in Threads : Step(t)

Spec == Init /\ [][Next]_vars

-----------------------------------------------------------------------------
\* non_det_thds holds exactly the threads that are in neither queue, once each: what
\* its insert and erase assert, and what keeps checkNonDetBound from queueing a
\* thread twice (the assertion !runq.in(tid) that is commented out there).
NonDetSetExact ==
  /\ IsInjective(s.runq) /\ IsInjective(s.non_det_thds)
  /\ Range(s.non_det_thds) = Threads \ (Range(s.runq) \cup Range(s.waitq))

\* default.options: non_det_clock_bound is the window of logical clocks a region may
\* last.  While a thread is in a region and out of the run queue, no more than the
\* bound and a slack of turns pass, so that the others soon wait for it.
RegionsAreBounded ==
  \A t \in Threads :
    pc[t] = "region" /\ t \in Range(s.non_det_thds) => s.age[t] <= Bound + Slack

\* noWaitNonDetEnd asserts inNoWaitNonDet.
NoWaitEndAsserts == \A t \in Threads : pc[t] = "nowait" => inNoWaitNonDet[t]
=============================================================================
