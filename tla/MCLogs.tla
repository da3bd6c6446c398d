------------------------------ MODULE MCLogs -------------------------------
(***************************************************************************)
(* The logs, the recorder without a scheduler and the balance profiler for *)
(* TLC. A behaviour is one of a single part, which the variable part       *)
(* names, and the variables of the others are unused.                      *)
(***************************************************************************)
EXTENDS Integers, Sequences, TLC

CONSTANTS Clients, Nobody

VARIABLES part, the, turnCount, inside, disk, serial, serialLog, alive, logged,
          status, size, file, off, foff, open, log, pc, mu, waiting, arrived,
          predicate, owing, profile, self_tid, num_threads, lock,
          running_mode, app_time_table, clock, my_time, started, call,
          last_eip, resolved

text == <<the, inside, disk, serial, serialLog, alive, logged>>
binary == <<status, size, file, off, foff, open>>
serial_ == <<mu, waiting, arrived, predicate, owing>>
profiler == <<profile, self_tid, num_threads, lock, running_mode,
              app_time_table, clock, my_time, started, call, last_eip,
              resolved>>

vars == <<part, text, turnCount, binary, log, pc, serial_, profiler>>

\* The threads of the serializer's client are alike.
Symmetry == Permutations(Clients)

\* The operations RecorderRT logs.
LoggedOps ==
  {"pthread_create", "pthread_join", "pthread_mutex_init",
   "pthread_mutex_destroy", "pthread_mutex_lock", "pthread_mutex_unlock",
   "pthread_mutex_trylock", "pthread_mutex_timedlock",
   "pthread_rwlock_rdlock", "pthread_rwlock_wrlock",
   "pthread_rwlock_tryrdlock", "pthread_rwlock_trywrlock",
   "pthread_rwlock_unlock", "pthread_barrier_init", "pthread_barrier_wait",
   "pthread_barrier_destroy", "pthread_cond_wait", "pthread_cond_timedwait",
   "pthread_cond_signal", "pthread_cond_broadcast", "sem_init", "sem_wait",
   "sem_trywait", "sem_timedwait", "sem_post", "sched_yield", "sleep",
   "usleep", "nanosleep", "tern_lineup_init", "tern_lineup_start",
   "tern_lineup_end", "tern_lineup_destroy", "tern_non_det_start",
   "tern_idle"}

\* An earlier run of one thread, which called from place 1 and then from
\* place 2.
OneThread == << << [eip |-> 1, app |-> 1], [eip |-> 2, app |-> 2] >> >>

Text == INSTANCE Loggers WITH
  Procs <- {1, 2}, Threads <- {0, 1}, LogType <- "txt",
  pid_in_logfilename <- TRUE, Ops <- {"pthread_cond_timedwait", "tern_idle"},
  Forkers <- {0}, MaxTurn <- 4

Args == INSTANCE Loggers WITH
  Procs <- {1}, Threads <- {0}, LogType <- "test", pid_in_logfilename <- TRUE,
  Ops <- LoggedOps, Forkers <- {}, MaxTurn <- 2

Bin == INSTANCE BinLogger WITH
  NDEBUG <- FALSE, TrunkSize <- 4, MaxArgs <- 6

Ser == INSTANCE Serializer WITH
  Threads <- Clients, Count <- 2, MaxTurn <- 6

Times == INSTANCE BalanceProfiler WITH
  Threads <- {1, 2}, Main <- 1, Sites <- {1},
  Calls <- {"pthread_create", "pthread_exit"}, MaxTime <- 3, MaxCalls <- 2,
  Profiles <- {<<>>, OneThread}

Ids == INSTANCE BalanceProfiler WITH
  Threads <- 1 .. 4, Main <- 1, Sites <- {1}, Calls <- {"pthread_create"},
  MaxTime <- 0, MaxCalls <- 1, Profiles <- {<<>>}

ASSUME /\ Times!ProfilerAssumption /\ Ids!ProfilerAssumption

-----------------------------------------------------------------------------
Unused == "unused"

NoText ==
  /\ the = Unused /\ inside = Unused /\ disk = Unused /\ serial = Unused
  /\ serialLog = Unused /\ alive = Unused /\ logged = Unused

NoBinary ==
  /\ status = Unused /\ size = Unused /\ file = Unused /\ off = Unused
  /\ foff = Unused /\ open = Unused

NoSerial_ ==
  /\ mu = Unused /\ waiting = Unused /\ arrived = Unused /\ predicate = Unused
  /\ owing = Unused

NoProfiler ==
  /\ profile = Unused /\ self_tid = Unused /\ num_threads = Unused
  /\ lock = Unused /\ running_mode = Unused /\ app_time_table = Unused
  /\ clock = Unused /\ my_time = Unused /\ started = Unused /\ call = Unused
  /\ last_eip = Unused /\ resolved = Unused

Init ==
  \/ /\ \/ part = "text" /\ Text!Init
        \/ part = "arguments" /\ Args!Init
     /\ NoBinary /\ log = Unused /\ pc = Unused /\ NoSerial_ /\ NoProfiler
  \/ /\ part = "binary" /\ Bin!Init
     /\ NoText /\ turnCount = Unused /\ pc = Unused /\ NoSerial_ /\ NoProfiler
  \/ /\ part = "serializer" /\ Ser!Init
     /\ NoText /\ NoBinary /\ NoProfiler
  \/ /\ \/ part = "times" /\ Times!Init
        \/ part = "ids" /\ Ids!Init
     /\ NoText /\ turnCount = Unused /\ NoBinary /\ NoSerial_

TextStep ==
  /\ \/ part = "text" /\ Text!Next
     \/ part = "arguments" /\ Args!Next
  /\ UNCHANGED <<part, binary, log, pc, serial_, profiler>>

BinaryStep ==
  /\ part = "binary" /\ Bin!Next
  /\ UNCHANGED <<part, text, turnCount, pc, serial_, profiler>>

SerializerStep ==
  /\ part = "serializer" /\ Ser!Next
  /\ UNCHANGED <<part, text, binary, profiler>>

ProfilerStep ==
  /\ \/ part = "times" /\ Times!Next
     \/ part = "ids" /\ Ids!Next
  /\ UNCHANGED <<part, text, turnCount, binary, serial_>>

Next == TextStep \/ BinaryStep \/ SerializerStep \/ ProfilerStep

Spec == Init /\ [][Next]_vars

-----------------------------------------------------------------------------


\* RecorderRT over RecordSerializer: read from the start, the log hands the
\* mutex from thread to thread as the program did and shows a thread leaving
\* the barrier only after a full round was shown to come; while a thread waits
\* although its predicate is true, somebody still has to broadcast.
SerialOrder ==
  part = "serializer" => Ser!LogTellsOrder /\ Ser!RoundsInLog /\ Ser!NoLostWakeup

\* balance-profiler.c: the times OPERATION_START and OPERATION_END log for a
\* thread add up to no more than has passed since its first call; initTid gives
\* no two threads one id, and none the id of the idle thread.
ProfileExact ==
  /\ part = "times" => Times!TimeCountedOnce
  /\ part = "ids" => Ids!IdsDistinct
=============================================================================
