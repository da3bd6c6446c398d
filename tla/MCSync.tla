------------------------------ MODULE MCSync -------------------------------
(***************************************************************************)
(* The synchronisation objects, the logical time, non-deterministic        *)
(* regions and fork for TLC. The parts share the scheduler only: a         *)
(* behaviour is one of a single part, which the variable part names, and   *)
(* the variables of the others are unused.                                 *)
(***************************************************************************)
EXTENDS Integers

CONSTANTS Idle, NULL

VARIABLES part, sched, pc, arg, ret, owner, value, cond_map, sem_map, inCSLevel,
          satisfyingCV, satisfyingSem, on, readers, writer, initialized,
          narrived, round, left, serial, exists, nactive, phase, turnCount,
          waitq, timeout, want, gone, taken, nthread, base, call, s, inNonDet,
          inNoWaitNonDet, noCSWholeLocal, child, alive, idle_tid, holder

objects == <<arg, ret, owner, value, cond_map, sem_map, inCSLevel,
             satisfyingCV, satisfyingSem>>
rwlocks == <<on, readers, writer>>
barrier == <<initialized, narrived, round, left, serial>>
lineup == <<exists, nactive, phase>>
logical == <<turnCount, waitq, timeout, want, gone, taken>>
times == <<base, call>>
regions == <<s, inNonDet, inNoWaitNonDet, noCSWholeLocal>>
processes == <<child, alive, idle_tid, holder>>

vars == <<part, sched, pc, objects, rwlocks, barrier, lineup, logical, nthread,
          times, regions, processes>>

Two == {"t1", "t2"}
Three == Two \cup {"t3"}
Four == Three \cup {"t4"}

CondOps == {"lock", "unlock", "cwait", "signal", "broadcast"}
CSFOps == {"lock", "unlock", "cwait", "signal"}
SemOps == {"swait", "strywait", "post", "init"}
TimedOps == {"lock", "unlock", "trylock", "tlock", "ctwait", "signal",
             "stwait", "post", "yield", "init"}

Cond == INSTANCE SyncObjects WITH
  Threads <- Three, Mutexes <- {"m1"}, Conds <- {"c1", "c2"}, Sems <- {},
  Ops <- CondOps, Timeouts <- {1, 3}, MaxSem <- 2, MaxCount <- 3,
  CSFirst <- FALSE, CVFirst <- TRUE

CSF == INSTANCE SyncObjects WITH
  Threads <- Three, Mutexes <- {"m1", "m2"}, Conds <- {"c1"}, Sems <- {},
  Ops <- CSFOps, Timeouts <- {1, 3}, MaxSem <- 2, MaxCount <- 2,
  CSFirst <- TRUE, CVFirst <- FALSE

Sem == INSTANCE SyncObjects WITH
  Threads <- Three, Mutexes <- {}, Conds <- {}, Sems <- {"s1", "s2"},
  Ops <- SemOps, Timeouts <- {1, 3}, MaxSem <- 2, MaxCount <- 3,
  CSFirst <- FALSE, CVFirst <- TRUE

Timed == INSTANCE SyncObjects WITH
  Threads <- Three, Mutexes <- {"m1"}, Conds <- {"c1"}, Sems <- {"s1"},
  Ops <- TimedOps, Timeouts <- {1, 3}, MaxSem <- 2, MaxCount <- 1,
  CSFirst <- FALSE, CVFirst <- FALSE

RW == INSTANCE RWLock WITH
  Threads <- Four, RWLocks <- {"l1"}

Bar == INSTANCE Barrier WITH
  Threads <- Four, Count <- 3, MaxArrivals <- 6, DestroyInUse <- FALSE

Line == INSTANCE Lineup WITH
  Threads <- Four, Count <- 3, Timeout <- 5

Sleep == INSTANCE LogicalTime WITH
  Threads <- Two, Wrap <- 32, Start <- 0, Turns <- {2, 3, 6}, MaxTurns <- 14

Times == INSTANCE TurnTimes WITH
  Sec <- 12, USec <- 2, W64 <- 4096, W32 <- 64, MAX_REL <- 15,
  nanosec_per_turn <- 2, MaxSec <- 2, MaxUsec <- 31, MaxThreads <- 2,
  Past <- FALSE

Region == INSTANCE NonDet WITH
  Threads <- {0, 2, 3}, Idle <- 1, Bounded <- TRUE, Bound <- 2, Slack <- 1,
  Ops <- {"region", "blocking", "other"}, NoWait <- 0

Window == INSTANCE NonDet WITH
  Threads <- {0, 2, 3}, Idle <- 1, Bounded <- TRUE, Bound <- 2, Slack <- 5,
  Ops <- {"region", "other", "nowait"}, NoWait <- 1

Forks == INSTANCE Fork WITH
  Threads <- {0, 2, 3}, Idle <- 1, Main <- 0, Bounded <- FALSE, Bound <- 2,
  Slack <- 1, Ops <- {"region", "blocking", "other"}, NoWait <- 0,
  Quiet <- TRUE

ASSUME /\ Bar!CountAssumption /\ Line!LineupAssumption /\ Sleep!TimeAssumption
       /\ Times!WidthsAssumption /\ Region!BoundAssumption
       /\ Window!BoundAssumption /\ Forks!ForkAssumption

-----------------------------------------------------------------------------
Unused == "unused"

NoObjects ==
  /\ arg = Unused /\ ret = Unused /\ owner = Unused /\ value = Unused
  /\ cond_map = Unused /\ sem_map = Unused /\ inCSLevel = Unused
  /\ satisfyingCV = Unused /\ satisfyingSem = Unused

NoRwlocks ==
  /\ on = Unused /\ readers = Unused /\ writer = Unused

NoBarrier ==
  /\ initialized = Unused /\ narrived = Unused /\ round = Unused
  /\ left = Unused /\ serial = Unused

NoLineup ==
  /\ exists = Unused /\ nactive = Unused /\ phase = Unused

NoLogical ==
  /\ turnCount = Unused /\ waitq = Unused /\ timeout = Unused /\ want = Unused
  /\ gone = Unused /\ taken = Unused

NoTimes ==
  /\ base = Unused /\ call = Unused

NoRegions ==
  /\ s = Unused /\ inNonDet = Unused /\ inNoWaitNonDet = Unused
  /\ noCSWholeLocal = Unused

NoProcesses ==
  /\ child = Unused /\ alive = Unused /\ idle_tid = Unused /\ holder = Unused

Init ==
  \/ /\ \/ part = "cond" /\ Cond!Init
        \/ part = "csf" /\ CSF!Init
        \/ part = "sem" /\ Sem!Init
        \/ part = "timed" /\ Timed!Init
     /\ NoRwlocks /\ NoBarrier /\ NoLineup /\ NoLogical /\ nthread = Unused
     /\ NoTimes /\ NoRegions /\ NoProcesses
  \/ /\ part = "rwlock" /\ RW!Init
     /\ NoObjects /\ NoBarrier /\ NoLineup /\ NoLogical /\ nthread = Unused
     /\ NoTimes /\ NoRegions /\ NoProcesses
  \/ /\ part = "barrier" /\ Bar!Init
     /\ NoObjects /\ NoRwlocks /\ NoLineup /\ NoLogical /\ nthread = Unused
     /\ NoTimes /\ NoRegions /\ NoProcesses
  \/ /\ part = "lineup" /\ Line!Init
     /\ NoObjects /\ NoRwlocks /\ NoBarrier /\ NoLogical /\ nthread = Unused
     /\ NoTimes /\ NoRegions /\ NoProcesses
  \/ /\ part = "sleep" /\ Sleep!Init
     /\ sched = Unused /\ pc = Unused /\ NoObjects /\ NoRwlocks /\ NoBarrier
     /\ NoLineup /\ nthread = Unused /\ NoTimes /\ NoRegions /\ NoProcesses
  \/ /\ part = "times" /\ Times!Init
     /\ sched = Unused /\ pc = Unused /\ NoObjects /\ NoRwlocks /\ NoBarrier
     /\ NoLineup /\ NoLogical /\ NoRegions /\ NoProcesses
  \/ /\ \/ part = "region" /\ Region!Init
        \/ part = "bound" /\ Window!Init
     /\ sched = Unused /\ NoObjects /\ NoRwlocks /\ NoBarrier /\ NoLineup
     /\ NoLogical /\ nthread = Unused /\ NoTimes /\ NoProcesses
  \/ /\ part = "fork" /\ Forks!ForkInit
     /\ sched = Unused /\ NoObjects /\ NoRwlocks /\ NoBarrier /\ NoLineup
     /\ NoLogical /\ NoTimes

ObjectsStep ==
  /\ \/ part = "cond" /\ Cond!Next
     \/ part = "csf" /\ CSF!Next
     \/ part = "sem" /\ Sem!Next
     \/ part = "timed" /\ Timed!Next
  /\ UNCHANGED <<part, rwlocks, barrier, lineup, logical, nthread, times,
                 regions, processes>>

RWLockStep ==
  /\ part = "rwlock" /\ RW!Next
  /\ UNCHANGED <<part, objects, barrier, lineup, logical, nthread, times,
                 regions, processes>>

BarrierStep ==
  /\ part = "barrier" /\ Bar!Next
  /\ UNCHANGED <<part, objects, rwlocks, lineup, logical, nthread, times,
                 regions, processes>>

LineupStep ==
  /\ part = "lineup" /\ Line!Next
  /\ UNCHANGED <<part, objects, rwlocks, barrier, logical, nthread, times,
                 regions, processes>>

SleepStep ==
  /\ part = "sleep" /\ Sleep!Next
  /\ UNCHANGED <<part, sched, pc, objects, rwlocks, barrier, lineup, nthread,
                 times, regions, processes>>

TimesStep ==
  /\ part = "times" /\ Times!Next
  /\ UNCHANGED <<part, sched, pc, objects, rwlocks, barrier, lineup, logical,
                 regions, processes>>

RegionStep ==
  /\ \/ part = "region" /\ Region!Next
     \/ part = "bound" /\ Window!Next
  /\ UNCHANGED <<part, sched, objects, rwlocks, barrier, lineup, logical,
                 nthread, times, processes>>

ForkStep ==
  /\ part = "fork" /\ Forks!ForkNext
  /\ UNCHANGED <<part, sched, objects, rwlocks, barrier, lineup, logical,
                 times>>

Next ==
  ObjectsStep \/ RWLockStep \/ BarrierStep
  \/ LineupStep \/ SleepStep \/ TimesStep
  \/ RegionStep \/ ForkStep

Spec == Init /\ [][Next]_vars

-----------------------------------------------------------------------------
\* No wake-up is lost, timed waits or not.  A free mutex that has waiters has a
\* woken thread on its way to it (pthreadMutexUnlock, the condition waits); while
\* threads wait on a semaphore as many woken threads as it has units are on
\* their way (semPost); and so for a reader-writer lock, of which an unlock
\* wakes one thread whatever it waits for.
NoWakeupLost ==
  /\ part = "cond" => Cond!TypeOK /\ Cond!NoLostUnlock
  /\ part = "timed" => Timed!NoLostUnlock /\ Timed!NoLostPost
  /\ part = "sem" => Sem!NoLostPost
  /\ part = "rwlock" => RW!NoLostUnlock

\* The counts of the policies are exact: cond_map of the threads that wait on
\* each condition variable, sem_map of those that wait on each semaphore over
\* all retries, inCSLevel of the critical sections a thread is in.
PolicyCountsExact ==
  /\ part = "cond" => Cond!CondMapCounts
  /\ part = "sem" => Sem!SemMapCounts
  /\ part = "csf" => CSF!CSLevelCounts


\* pthreadBarrierWait: nobody leaves a round before all its threads have
\* arrived, over reuse, destruction and reinitialisation, and of a round that
\* all have left one thread was the serial one.
RoundsComplete == part = "barrier" => Bar!RoundsComplete /\ Bar!OneSerialThread

\* lineupStart and lineupEnd: nobody sleeps through a release, by the last
\* arrival or by the first timeout; whoever comes later goes straight on; the
\* threads between start and end are counted once.
LineupReleases ==
  part = "lineup" =>
    Line!WaitersAreArriving /\ Line!FullIsReleased /\ Line!LeavingWhileActive



\* nonDetStart, nonDetEnd, checkNonDetBound: non_det_thds holds exactly the
\* threads that are in neither queue, once each; while a thread is in a region
\* and out of the run queue, no more than non_det_clock_bound and a slack of
\* five turns pass.
RegionsTracked ==
  /\ part = "region" => Region!NonDetSetExact
  /\ part = "bound" => Window!RegionsAreBounded

=============================================================================
