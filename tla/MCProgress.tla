---------------------------- MODULE MCProgress -----------------------------
(***************************************************************************)
(* Barriers, lineups, the start of non-deterministic regions and the child *)
(* of a fork for TLC: the operations that wait for other threads to come   *)
(* along, under fairness. A behaviour is one of a single part, which the   *)
(* variable part names; the variables of the others are unused. The        *)
(* threads are named by their tids, 1 is the idle thread.                  *)
(***************************************************************************)
EXTENDS Integers, Functions

CONSTANTS NULL

VARIABLES part, sched, pc, initialized, narrived, round, left, serial, exists,
          nactive, phase, s, inNonDet, inNoWaitNonDet, noCSWholeLocal, child,
          alive, nthread, idle_tid, holder

barrier == <<initialized, narrived, round, left, serial>>
lineup == <<exists, nactive, phase>>
regions == <<s, inNonDet, inNoWaitNonDet, noCSWholeLocal>>
processes == <<child, alive, nthread, idle_tid, holder>>

vars == <<part, sched, pc, barrier, lineup, regions, processes>>

Three == {0, 2, 3}

Bar == INSTANCE Barrier WITH
  Threads <- Three, Count <- 3, MaxArrivals <- 6, DestroyInUse <- FALSE,
  Idle <- 1

Line == INSTANCE Lineup WITH
  Threads <- Three, Count <- 2, Timeout <- 3, Idle <- 1

Pause == INSTANCE NonDet WITH
  Threads <- {0, 2}, Idle <- 1, Bounded <- TRUE, Bound <- 2, Slack <- 1,
  Ops <- {"region"}, NoWait <- 0

Child == INSTANCE Fork WITH
  Threads <- Three, Idle <- 1, Main <- 0, Bounded <- FALSE, Bound <- 2,
  Slack <- 1, Ops <- {"region", "other"}, NoWait <- 0, Quiet <- TRUE

ASSUME /\ Bar!CountAssumption /\ Line!LineupAssumption
       /\ Pause!BoundAssumption /\ Child!ForkAssumption

-----------------------------------------------------------------------------
Unused == "unused"

NoBarrier ==
  /\ initialized = Unused /\ narrived = Unused /\ round = Unused
  /\ left = Unused /\ serial = Unused

NoLineup ==
  /\ exists = Unused /\ nactive = Unused /\ phase = Unused

NoRegions ==
  /\ s = Unused /\ inNonDet = Unused /\ inNoWaitNonDet = Unused
  /\ noCSWholeLocal = Unused

NoProcesses ==
  /\ child = Unused /\ alive = Unused /\ nthread = Unused /\ idle_tid = Unused
  /\ holder = Unused

Init ==
  \/ /\ part = "barrier" /\ Bar!Init
     /\ NoLineup /\ NoRegions /\ NoProcesses
  \/ /\ part = "lineup" /\ Line!Init
     /\ NoBarrier /\ NoRegions /\ NoProcesses
  \/ /\ part = "pause" /\ Pause!Init
     /\ sched = Unused /\ NoBarrier /\ NoLineup /\ NoProcesses
  \/ /\ part = "child" /\ Child!ForkInit
     /\ sched = Unused /\ NoBarrier /\ NoLineup

BarrierStep ==
  /\ part = "barrier" /\ Bar!Next
  /\ UNCHANGED <<part, lineup, regions, processes>>

LineupStep ==
  /\ part = "lineup" /\ Line!Next
  /\ UNCHANGED <<part, barrier, regions, processes>>

RegionStep ==
  /\ part = "pause" /\ Pause!Next
  /\ UNCHANGED <<part, sched, barrier, lineup, processes>>

ForkStep ==
  /\ part = "child" /\ Child!ForkNext
  /\ UNCHANGED <<part, sched, barrier, lineup>>

Next == BarrierStep \/ LineupStep \/ RegionStep \/ ForkStep

\* The two parts in which a step belongs to a thread.
Regions == UNCHANGED <<part, sched, barrier, lineup, processes>>
Processes == UNCHANGED <<part, sched, barrier, lineup>>

Idle ==
  \/ part = "pause" /\ Pause!idle /\ Regions
  \/ part = "child" /\ Child!IdleStep /\ Processes

Thread(t) ==
  \/ part = "pause" /\ t # 3 /\ Pause!Step(t) /\ Regions
  \/ part = "child" /\ Child!ThreadStep(t) /\ Processes

\* Every thread takes the turn it is given, the operations it has begun and
\* its regions end; nobody has to fork.
Fairness ==
  /\ WF_vars(BarrierStep \/ LineupStep)
  /\ WF_vars(Idle) /\ \A t \in Three : WF_vars(Thread(t))

Spec == Init /\ [][Next]_vars /\ Fairness

-----------------------------------------------------------------------------
\* A thread that arrives in a round of a barrier that completes leaves it;
\* lineupStart returns, whether or not other threads arrive.
RoundsEnd ==
  \A t \in Three :
    /\ (part = "barrier" /\ pc[t] # "app")
         ~> (part = "barrier" /\ (\/ pc[t] = "app"
                                   \/ round.all < (round.of[t] + 1) * 3))
    /\ (part = "lineup" /\ pc[t] = "wait") ~> (part = "lineup" /\ pc[t] = "in")

\* nonDetStart returns when the other threads only use regions; a thread that
\* has ended its region without the turn is queued again, because its wakeup()
\* is noticed by whoever holds the turn.
RegionsGoOn ==
  \A t \in {0, 2} :
    /\ (part = "pause" /\ pc[t] = "start") ~> (part = "pause" /\ pc[t] = "region")
    /\ (part = "pause" /\ pc[t] = "app" /\ t \notin Range(s.runq))
         ~> (part = "pause" /\ t \in Range(s.runq))

\* The child of a fork goes on: its main thread gets its idle thread, which
\* releases it from the start of its regions, and the turn.
ChildGoesOn ==
  (part = "child" /\ child)
    ~> (part = "child" /\ pc[0] = "app" /\ Child!HasTurn(0))
=============================================================================
