---------------------------- MODULE LogicalTime ----------------------------
(***************************************************************************)
(* Sleeping in logical time: the turn counter, an unsigned integer that    *)
(* wraps around, the timeouts computed from it and fireTimeouts().  The    *)
(* counter is scaled down to Wrap values.                                  *)
(***************************************************************************)
EXTENDS Integers, Sequences, SequencesExt

CONSTANTS
  Threads,
  Wrap,       \* 2^32
  Start,      \* turnCount when the model begins
  Turns,      \* what relTimeToTurn may return
  MaxTurns    \* bound on the turns of a behaviour

TimeAssumption == Start \in 0 .. Wrap - 1 /\ Turns \subseteq Nat /\ MaxTurns \in Nat

VARIABLES
  turnCount, waitq, timeout,
  want,      \* the turns a thread has asked for, for the properties
  gone,      \* the turns since it asked
  taken      \* the turns since the start

vars == <<turnCount, waitq, timeout, want, gone, taken>>

FOREVER == Wrap - 1

Init ==
  /\ turnCount = Start /\ waitq = <<>> /\ taken = 0
  /\ timeout = [t \in Threads |-> FOREVER]
  /\ want = [t \in Threads |-> 0]
  /\ gone = [t \in Threads |-> 0]

getTurnCount == (turnCount - 1) % Wrap


\* The threads of the wait queue that fireTimeouts() wakes when the counter is c.
Fired(q, to, c) == {t \in Range(q) : to[t] < c}

\* incTurnCount(), which fires the timeouts; then the thread of s, if any, goes to
\* sleep.
incTurnCount(to, s) ==
  LET c == (turnCount + 1) % Wrap
      f == Fired(waitq, to, c)
  IN  /\ taken < MaxTurns
      /\ taken' = taken + 1
      /\ turnCount' = c
      /\ waitq' = SelectSeq(waitq, LAMBDA t : t \notin f) \o s
      /\ timeout' = [t \in Threads |-> IF t \in f THEN FOREVER ELSE to[t]]
      /\ gone' = [t \in Threads |-> IF t \in Range(waitq) THEN gone[t] + 1
                                    ELSE IF t \in Range(s) THEN 1 ELSE gone[t]]

\* A sleep, or a wait with a timeout.
sleep(t, n) ==
  /\ t \notin Range(waitq)
  /\ incTurnCount([timeout EXCEPT ![t] = (getTurnCount + n) % Wrap], <<t>>)
  /\ want' = [want EXCEPT ![t] = n]

\* Any other operation, of a thread or of the idle thread.
operation == incTurnCount(timeout, <<>>) /\ UNCHANGED want

\* The bound on the behaviours has been reached.
Bounded == taken = MaxTurns /\ UNCHANGED vars

Next == Bounded \/ operation \/ \E t \in Threads, n \in Turns : sleep(t, n)

Spec == Init /\ [][Next]_vars

-----------------------------------------------------------------------------

\* "wait(NULL, timeout) simply means sleep until timeout" (scheduler.h).
SleepsUntil == \A t \in Threads : t \notin Range(waitq) => gone[t] >= want[t]

\* "until [...] turnCount is greater than or equal to timeout" (scheduler.h): a
\* thread that has slept through a turn is not asleep once the counter has reached
\* its timeout.
WakesAtTimeout ==
  \A t \in Range(waitq) : gone[t] > 1 => ~(turnCount >= timeout[t])
=============================================================================
