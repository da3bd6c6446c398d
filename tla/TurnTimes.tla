----------------------------- MODULE TurnTimes -----------------------------
(***************************************************************************)
(* From physical to logical time: what a sleep or a timed operation asks   *)
(* for, in turns.  The integers keep their widths, scaled down: a second   *)
(* has Sec nanoseconds, uint64_t has W64 values.                           *)
(***************************************************************************)
EXTENDS Integers

CONSTANTS
  Sec,               \* nanoseconds in a second
  USec,              \* nanoseconds in a microsecond
  W64,               \* 2^64
  W32,               \* 2^32
  MAX_REL,           \* the most turns to wait
  nanosec_per_turn,  \* options::nanosec_per_turn
  MaxSec,            \* bound on the seconds of a time
  MaxUsec,           \* bound on the argument of usleep
  MaxThreads,        \* bound on nthread
  Past               \* whether an absolute timeout may be in the past

WidthsAssumption ==
  /\ W64 > 2 * Sec * (MaxSec + 1)
  /\ USec * MaxUsec < W32
  /\ MAX_REL > 5 * MaxThreads + 1
  /\ nanosec_per_turn > 0

VARIABLES nthread, base, call

vars == <<nthread, base, call>>

Times == [tv_sec : 0 .. MaxSec, tv_nsec : 0 .. Sec - 1]
Ns(ts) == ts.tv_sec * Sec + ts.tv_nsec

time_diff(start, end) ==
  IF end.tv_nsec - start.tv_nsec < 0
  THEN [tv_sec |-> end.tv_sec - start.tv_sec - 1,
        tv_nsec |-> Sec - start.tv_nsec + end.tv_nsec]
  ELSE [tv_sec |-> end.tv_sec - start.tv_sec,
        tv_nsec |-> end.tv_nsec - start.tv_nsec]


time2turn(nsec) ==
  LET ret64 == nsec \div nanosec_per_turn
  IN  IF ret64 > MAX_REL THEN MAX_REL ELSE ret64

\* A signed count of nanoseconds is passed as an unsigned one.
relTimeToTurn(reltime) ==
  LET ret == time2turn(Ns(reltime) % W64)
  IN  IF ret < 5 * nthread + 1 THEN 5 * nthread + 1 ELSE ret

Init ==
  /\ nthread \in 1 .. MaxThreads
  /\ base = [tv_sec |-> 0, tv_nsec |-> 0]
  /\ call = [op |-> "none", asked |-> 0, turns |-> 0]

Call(op, ns, rel) ==
  /\ call' = [op |-> op, asked |-> ns, turns |-> relTimeToTurn(rel)]
  /\ UNCHANGED <<nthread, base>>

\* tern_set_base_timespec(); without it the operations read the clock.
setBaseTime(ts) == base' = ts /\ UNCHANGED <<nthread, call>>

\* pthread_cond_timedwait(), pthread_mutex_timedlock(), sem_timedwait().
timed(abstime) ==
  /\ Past \/ Ns(abstime) >= Ns(base)
  /\ Call("timed", Ns(abstime) - Ns(base), time_diff(base, abstime))

sleep(seconds) == Call("sleep", seconds * Sec, [tv_sec |-> seconds, tv_nsec |-> 0])

usleep(usec) ==
  Call("usleep", usec * USec, [tv_sec |-> 0, tv_nsec |-> (USec * usec) % W32])

nanosleep(req) == Call("nanosleep", Ns(req), req)

Next ==
  \/ \E ts \in Times : setBaseTime(ts) \/ timed(ts) \/ nanosleep(ts)
  \/ \E s \in 0 .. MaxSec : sleep(s)
  \/ \E u \in 0 .. MaxUsec : usleep(u)

Spec == Init /\ [][Next]_vars

-----------------------------------------------------------------------------
\* The turns that a time is worth: its quotient by the length of a turn, at least
\* 5 * nthread + 1 and at most MAX_REL.
Worth(ns) ==
  LET q == IF ns < 0 THEN 0 ELSE ns \div nanosec_per_turn
  IN  IF q < 5 * nthread + 1 THEN 5 * nthread + 1
      ELSE IF q > MAX_REL THEN MAX_REL ELSE q


\* time_diff() of any two times is the difference of their nanoseconds with a
\* nanosecond field in range, also when the result is negative.
DiffNormal ==
  \A end \in Times :
    LET d == time_diff(base, end)
    IN  Ns(d) = Ns(end) - Ns(base) /\ d.tv_nsec \in 0 .. Sec - 1
=============================================================================
