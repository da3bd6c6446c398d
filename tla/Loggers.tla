------------------------------ MODULE Loggers ------------------------------
(***************************************************************************)
(* The text logs of the runtime (record-log.cpp): with log_sync set, every *)
(* thread has a logger of its own that writes one line per operation, or   *)
(* two for an operation that blocks, each with the turn it was made in.    *)
(* The serializer keeps a second log, one line per turn, behind a stdio    *)
(* buffer.  A fork copies the process, its streams and that buffer.        *)
(* A thread logs while it holds the turn: an operation is one step, and a  *)
(* blocking one is two.                                                    *)
(***************************************************************************)
EXTENDS Integers, Sequences, SequencesExt, FiniteSets

CONSTANTS Procs,               \* process ids; the first one is the program
          Threads,             \* thread ids; 0 is the main thread
          LogType,             \* options::log_type, "txt" or "test"
          pid_in_logfilename,  \* the option of that name
          Ops,                 \* the operations the program makes
          Forkers,             \* the threads that may fork
          MaxTurn              \* bound on the turns of a process

First == CHOOSE p \in Procs : \A q \in Procs : p <= q

None == ""

VARIABLES the,        \* the stream of each thread, Logger::the
          turnCount,  \* of each process
          inside,     \* the blocking operation a thread is in
          disk,       \* the lines of each log file
          serial,     \* the buffer of Serializer::logger in each process
          serialLog,  \* what serializer.log holds
          alive,      \* the running processes
          logged      \* every line each thread has logged, in order

vars == <<the, turnCount, inside, disk, serial, serialLog, alive, logged>>

-----------------------------------------------------------------------------
\* The arguments a logger prints for an operation.  The sets list the
\* operations the runtime logs; the calls made between block and wakeup,
\* which the switch of logSync has too, are never logged.

\* Operations of which no argument is printed.
Zero == {"fork", "sched_yield", "tern_idle", "tern_non_det_start"}

\* Operations the text logger prints no argument of and the test logger
\* does not know.
TxtZero == {"tern_dummy_sync", "tern_ext_get_turn", "tern_ext_put_turn"}

One == {"pthread_mutex_init", "pthread_mutex_destroy", "pthread_mutex_lock",
        "pthread_mutex_unlock", "pthread_barrier_wait",
        "pthread_barrier_destroy", "pthread_cond_signal",
        "pthread_cond_broadcast", "sem_wait", "sem_init", "sem_post",
        "pthread_join", "sleep", "usleep", "nanosleep",
        "pthread_rwlock_rdlock", "pthread_rwlock_wrlock",
        "tern_lineup_start", "tern_lineup_end", "tern_lineup_destroy"}

Two == {"pthread_mutex_timedlock", "pthread_cond_wait",
        "pthread_barrier_init", "pthread_create", "pthread_mutex_trylock",
        "sem_trywait", "sem_timedwait", "pthread_rwlock_tryrdlock",
        "pthread_rwlock_trywrlock", "pthread_rwlock_unlock"}

Three == {"pthread_cond_timedwait", "tern_lineup_init"}

Unhandled == -1

\* How many arguments logSync takes from its list; Unhandled is the default
\* branch of its switch.
TxtArgs(s) ==
  CASE s \in {"tern_thread_begin", "tern_thread_end"} \cup One -> 1
    [] s \in Two -> 2
    [] s \in Three -> 3
    [] s \in Zero \cup TxtZero -> 0
    [] OTHER -> Unhandled

TestArgs(s) == IF s \in TxtZero THEN Unhandled ELSE TxtArgs(s)

Args(s) == IF LogType = "txt" THEN TxtArgs(s) ELSE TestArgs(s)

\* Operations whose calls of the logger pass one, two or three arguments.
PassOne == {"tern_thread_begin", "tern_thread_end", "pthread_join",
            "pthread_mutex_init", "pthread_mutex_destroy",
            "pthread_mutex_lock", "pthread_rwlock_rdlock",
            "pthread_rwlock_wrlock", "pthread_barrier_wait",
            "pthread_cond_signal", "pthread_cond_broadcast", "sem_wait",
            "tern_lineup_destroy", "tern_lineup_start", "tern_lineup_end",
            "tern_non_det_start", "tern_ext_get_turn", "tern_ext_put_turn",
            "tern_dummy_sync", "fork", "sched_yield", "sleep", "usleep",
            "nanosleep"}

PassThree == {"pthread_rwlock_init", "pthread_cond_timedwait",
              "tern_lineup_init"}

\* How many arguments the runtime passes with a line.
Passed(s, after) ==
  CASE s = "tern_idle" -> 0
    [] s \in PassOne -> 1
    [] s \in PassThree -> 3
    [] OTHER -> 2

\* The lines one operation makes; of the operations that are listed with
\* two lines these are the ones the runtime logs.
NumRecordsForSync(s) ==
  IF s \in {"pthread_cond_wait", "pthread_barrier_wait",
            "pthread_cond_timedwait"}
    THEN 2 ELSE 1

\* The operations that log once before they block and once after.
Blocking == {"pthread_barrier_wait", "pthread_cond_wait",
             "pthread_cond_timedwait"}

-----------------------------------------------------------------------------

getLogFilename(p, t) == IF pid_in_logfilename THEN <<p, t>> ELSE <<t>>

Names == {<<t>> : t \in Threads} \cup (Procs \X Threads)

\* A line is written where the stream stands.  Another process may have cut
\* the file short, and leaves a hole, or written further.
PutLine(f, pos, line) ==
  LET last == IF pos > Len(f) THEN pos ELSE Len(f)
  IN  [i \in 1 .. last |->
         IF i = pos THEN line ELSE IF i <= Len(f) THEN f[i] ELSE <<>>]

\* The suffix tells the two lines of a blocking operation apart.
Suffix(s, after) ==
  IF NumRecordsForSync(s) = 2 THEN IF after THEN "second" ELSE "first"
                              ELSE None

Line(p, tid, s, after) ==
  [op |-> s, suffix |-> Suffix(s, after), turn |-> turnCount[p], tid |-> tid,
   args |-> Args(s), passed |-> Passed(s, after)]

\* logSync prints the line and flushes the stream.
logSync(p, t, line) ==
  /\ disk' = [disk EXCEPT ![the[p][t].name] =
                PutLine(@, the[p][t].pos + 1, line)]
  /\ the' = [the EXCEPT ![p][t].pos = @ + 1]
  /\ logged' = [logged EXCEPT ![p][t] = Append(@, line)]

\* The turn is counted, and noted in the serializer's buffer.
incTurnCount(p, t) ==
  /\ turnCount[p] < MaxTurn
  /\ turnCount' = [turnCount EXCEPT ![p] = @ + 1]
  /\ serial' = [serial EXCEPT ![p] = Append(@, <<p, t, turnCount[p]>>)]

NoLogger == [name |-> <<>>, tid |-> 0, pos |-> 0, open |-> FALSE]

\* A logger is opened under the id its thread has at that time.
NewLogger(p, t) ==
  [name |-> getLogFilename(p, t), tid |-> t, pos |-> 1, open |-> TRUE]

Free(p, t) == p \in alive /\ the[p][t].open /\ inside[p][t] = None

-----------------------------------------------------------------------------
Init ==
  /\ the = [p \in Procs |-> [t \in Threads |-> NoLogger]]
  /\ turnCount = [p \in Procs |-> 0]
  /\ inside = [p \in Procs |-> [t \in Threads |-> None]]
  /\ disk = [n \in Names |-> <<>>]
  /\ serial = [p \in Procs |-> <<>>]
  /\ serialLog = <<>>
  /\ alive = {First}
  /\ logged = [p \in Procs |-> [t \in Threads |-> <<>>]]

\* threadBegin opens the log, cutting off what a file of that name holds,
\* and logs its first line.  Thread ids are given out in order.
threadBegin(p, t) ==
  /\ p \in alive /\ logged[p][t] = <<>>
  /\ \A u \in Threads : u < t => logged[p][u] # <<>>
  /\ incTurnCount(p, t)
  /\ LET line == Line(p, t, "tern_thread_begin", TRUE)
     IN  /\ the' = [the EXCEPT ![p][t] = NewLogger(p, t)]
         /\ disk' = [disk EXCEPT ![getLogFilename(p, t)] = <<line>>]
         /\ logged' = [logged EXCEPT ![p][t] = <<line>>]
  /\ UNCHANGED <<inside, serialLog, alive>>

\* An operation that makes one line: SCHED_TIMER_END, or idle_sleep.
Operation(p, t, s) ==
  /\ Free(p, t)
  /\ incTurnCount(p, t)
  /\ logSync(p, t, Line(p, the[p][t].tid, s, TRUE))
  /\ UNCHANGED <<inside, serialLog, alive>>

\* SCHED_TIMER_FAKE_END: the first line of an operation that then blocks.
Block(p, t, s) ==
  /\ Free(p, t)
  /\ incTurnCount(p, t)
  /\ logSync(p, t, Line(p, the[p][t].tid, s, FALSE))
  /\ inside' = [inside EXCEPT ![p][t] = s]
  /\ UNCHANGED <<serialLog, alive>>

\* The operation ends and logs its second line.
Unblock(p, t) ==
  /\ p \in alive /\ inside[p][t] # None
  /\ incTurnCount(p, t)
  /\ logSync(p, t, Line(p, the[p][t].tid, inside[p][t], TRUE))
  /\ inside' = [inside EXCEPT ![p][t] = None]
  /\ UNCHANGED <<serialLog, alive>>

\* threadEnd logs its last line and deletes the logger.
threadEnd(p, t) ==
  /\ Free(p, t)
  /\ incTurnCount(p, t)
  /\ LET line == Line(p, the[p][t].tid, "tern_thread_end", TRUE)
     IN  /\ disk' = [disk EXCEPT ![the[p][t].name] =
                       PutLine(@, the[p][t].pos + 1, line)]
         /\ logged' = [logged EXCEPT ![p][t] = Append(@, line)]
  /\ the' = [the EXCEPT ![p][t].open = FALSE]
  /\ UNCHANGED <<inside, serialLog, alive>>

\* __fork: parent and child each count the turn and log the fork.  The
\* child first closes the stream it inherits and opens a log under the id
\* of the calling thread, its only one; only then does childForkReturn make
\* that thread thread 0.  Logger::the->flush() finds nothing to flush, and
\* the buffer of serializer.log goes to both.
fork(p, t, q) ==
  /\ t \in Forkers /\ Free(p, t)
  /\ q \notin alive /\ logged[q][0] = <<>>
  /\ turnCount[p] < MaxTurn
  /\ LET line == Line(p, the[p][t].tid, "fork", TRUE)
         new == NewLogger(q, t)
         opened == [disk EXCEPT ![new.name] = <<>>]
         put == [opened EXCEPT ![the[p][t].name] =
                   PutLine(@, the[p][t].pos + 1, line)]
     IN  /\ disk' = [put EXCEPT ![new.name] = PutLine(@, 1, line)]
         /\ the' = [the EXCEPT ![p][t].pos = @ + 1, ![q][0] = new]
         /\ logged' = [logged EXCEPT ![p][t] = Append(@, line),
                                     ![q][0] = <<[line EXCEPT !.tid = t]>>]
  /\ turnCount' = [turnCount EXCEPT ![p] = @ + 1, ![q] = turnCount[p] + 1]
  /\ serial' = [serial EXCEPT ![p] = Append(@, <<p, t, turnCount[p]>>),
                              ![q] = Append(serial[p],
                                            <<q, 0, turnCount[p]>>)]
  /\ alive' = alive \cup {q}
  /\ UNCHANGED <<inside, serialLog>>

\* stdio writes the buffer out when it is full, and at the end of the
\* process: the turns of before a fork may be in two buffers by then.
WriteOut(p) ==
  /\ p \in alive /\ serial[p] # <<>>
  /\ serialLog' = serialLog \o serial[p]
  /\ serial' = [serial EXCEPT ![p] = <<>>]
  /\ UNCHANGED <<the, turnCount, inside, disk, alive, logged>>

\* The process ends, after its threads or in the middle of their work.
Exit(p) ==
  /\ p \in alive /\ logged[p] # [t \in Threads |-> <<>>]
  /\ serialLog' = serialLog \o serial[p]
  /\ serial' = [serial EXCEPT ![p] = <<>>]
  /\ alive' = alive \ {p}
  /\ UNCHANGED <<the, turnCount, inside, disk, logged>>

Next ==
  \E p \in Procs :
    \/ \E t \in Threads :
         \/ threadBegin(p, t) \/ threadEnd(p, t) \/ Unblock(p, t)
         \/ \E s \in Ops \ Blocking : Operation(p, t, s)
         \/ \E s \in Ops \cap Blocking : Block(p, t, s)
         \/ \E q \in Procs : fork(p, t, q)
    \/ WriteOut(p) \/ Exit(p)

Spec == Init /\ [][Next]_vars

-----------------------------------------------------------------------------
Logs == {<<p, t>> \in Procs \X Threads : logged[p][t] # <<>>}

\* The file of a thread holds the lines the thread logged, all of them, in
\* their order and no others, whatever its process, its children and the
\* other threads write.
LogComplete ==
  \A l \in Logs : disk[the[l[1]][l[2]].name] = logged[l[1]][l[2]]

\* The lines of a process can be put in one order: no two of them carry the
\* same turn, and the turns of a file rise.
TurnsOrderLines ==
  \A p \in Procs :
    LET of(t) == {logged[p][t][i].turn : i \in 1 .. Len(logged[p][t])}
    IN  /\ \A t \in Threads : \A i, j \in 1 .. Len(logged[p][t]) :
             i < j => logged[p][t][i].turn < logged[p][t][j].turn
        /\ \A t, u \in Threads : t # u => of(t) \cap of(u) = {}

\* A first line is followed by the second line of the same operation, or by
\* nothing while the thread is still blocked; a second line follows a first.
LinesPaired ==
  \A l \in Logs :
    LET f == logged[l[1]][l[2]]
    IN  \A i \in 1 .. Len(f) :
          f[i].op \in Blocking =>
            \/ /\ f[i].suffix = "first"
               /\ IF i = Len(f) THEN inside[l[1]][l[2]] = f[i].op
                  ELSE f[i + 1].op = f[i].op /\ f[i + 1].suffix = "second"
            \/ /\ f[i].suffix = "second" /\ i > 1
               /\ f[i - 1].suffix = "first"

\* logSync takes no more arguments from its list than the runtime put there.
ArgumentsPassed ==
  \A l \in Logs : \A i \in 1 .. Len(logged[l[1]][l[2]]) :
    LET line == logged[l[1]][l[2]][i] IN line.args <= line.passed

\* Every operation the runtime logs has a branch of its own in the switch of
\* logSync: the default, which reports it and asserts false, is not reached.
AllHandled ==
  \A l \in Logs : \A i \in 1 .. Len(logged[l[1]][l[2]]) :
    logged[l[1]][l[2]][i].args # Unhandled

\* No turn is written to serializer.log twice.
SerialOnce ==
  \A i, j \in 1 .. Len(serialLog) : i # j => serialLog[i] # serialLog[j]

=============================================================================
